--------------------------- MODULE ArgumentProofs ---------------------------
(***************************************************************************)
(* Lemmas about the checks of arguments: what the text of an accepted path *)
(* names, what of a command line its check looks at, and the sectors of an *)
(* accepted erase.                                                         *)
(***************************************************************************)
EXTENDS Server, SequenceFacts

-----------------------------------------------------------------------------
(* Paths                                                                   *)

\* s is how t begins
Begins(s, t) == Len(s) <= Len(t) /\ \A i \in 1 .. Len(s) : s[i] = t[i]

\* every member of s is in T
Among(s, T) == \A i \in 1 .. Len(s) : s[i] \in T

LEMMA BeginsFacts ==
  ASSUME NEW S, NEW s \in Seq(S), NEW t \in Seq(S)
  PROVE  /\ IsPrefix(s, t) <=> Begins(s, t)
         /\ IsStrictPrefix(s, t) <=> Len(s) < Len(t) /\ Begins(s, t)
<1>1. Len(s) \in Nat /\ Len(t) \in Nat
  BY LenProperties
<1>2. IsPrefix(s, t) <=> Begins(s, t)
  BY PrefixPointwise DEF Begins
<1>3. s = t <=> Len(s) = Len(t) /\ \A i \in 1 .. Len(s) : s[i] = t[i]
  BY SeqEqual
<1> QED
  BY <1>1, <1>2, <1>3 DEF IsStrictPrefix, Begins

\* All strings: STRING, with those that the model names written out, since no
\* prover knows that they are in it.
Text ==
  STRING \union {"", "sys", "class", "bus", "devices", "module", "kernel", "debug", "firmware",
                 "devicetree", "proc", "device-tree", "dev", "tmp", "var", "etc", "run",
                 "gpio", "leds", "pwm", "iio", "tracing", "gpioN", "value", "direction", "export"}

LEMMA TextSequence == Seq(STRING) \subseteq Seq(Text)
<1>1. STRING \subseteq Text
  BY Zenon DEF Text
<1> QED
  BY <1>1, SeqMonotonic

LEMMA Tuples ==
  ASSUME NEW S, NEW a \in S, NEW b \in S
  PROVE  /\ <<a, b>> \in Seq(S)
         /\ \A c \in S : /\ <<a, b, c>> \in Seq(S)
                         /\ \A d \in S : /\ <<a, b, c, d>> \in Seq(S)
                                         /\ \A e \in S : /\ <<a, b, c, d, e>> \in Seq(S)
                                                         /\ \A f \in S : <<a, b, c, d, e, f>> \in Seq(S)
OBVIOUS

LEMMA TuplesBegin ==
  ASSUME NEW a, NEW b, NEW c, NEW d, NEW e, NEW f
  PROVE  /\ Begins(<<a, b, c>>, <<a, b, c, d>>)
         /\ Begins(<<a, b, c>>, <<a, b, c, d, e>>)
         /\ Begins(<<a, b, c, d>>, <<a, b, c, d, e>>)
         /\ Begins(<<a, b, c, d>>, <<a, b, c, d, e, f>>)
<1>1. /\ Len(<<a, b, c>>) = 3 /\ Len(<<a, b, c, d>>) = 4 /\ Len(<<a, b, c, d, e>>) = 5
      /\ Len(<<a, b, c, d, e, f>>) = 6
  OBVIOUS
<1>2. /\ <<a, b, c>>[1] = a /\ <<a, b, c>>[2] = b /\ <<a, b, c>>[3] = c
      /\ <<a, b, c, d>>[1] = a /\ <<a, b, c, d>>[2] = b
      /\ <<a, b, c, d>>[3] = c /\ <<a, b, c, d>>[4] = d
      /\ <<a, b, c, d, e>>[1] = a /\ <<a, b, c, d, e>>[2] = b
      /\ <<a, b, c, d, e>>[3] = c /\ <<a, b, c, d, e>>[4] = d
      /\ <<a, b, c, d, e, f>>[1] = a /\ <<a, b, c, d, e, f>>[2] = b
      /\ <<a, b, c, d, e, f>>[3] = c /\ <<a, b, c, d, e, f>>[4] = d
  OBVIOUS
<1> QED
  BY <1>1, <1>2 DEF Begins

LEMMA TuplesMembers ==
  ASSUME NEW a, NEW b, NEW c, NEW d, NEW e, NEW f
  PROVE  /\ Len(<<a, b, c, d, e>>) > 4 /\ Len(<<a, b, c, d, e>>) > 1 /\ <<a, b, c, d, e>>[1] = a
         /\ Among(<<a, b, c, d, e>>, {a, b, c, d, e})
         /\ Len(<<a, b, c, d, e, f>>) > 4 /\ Len(<<a, b, c, d, e, f>>) > 1 /\ <<a, b, c, d, e, f>>[1] = a
         /\ Among(<<a, b, c, d, e, f>>, {a, b, c, d, e, f})
BY DEF Among

\* The roots are sequences of strings.
LEMMA RootsTyped ==
  /\ SysfsReadRoots \subseteq Seq(Text) /\ SysfsWriteRoots \subseteq Seq(Text)
  /\ ProcReadRoots \subseteq Seq(Text) /\ ListRoots \subseteq Seq(Text) /\ DeviceTree \in Seq(Text)
<1>1. SysfsReadRoots \subseteq Seq(Text)
  <2>1. <<"", "sys", "class">> \in Seq(Text)
    BY Tuples, Zenon DEF Text
  <2>2. <<"", "sys", "bus">> \in Seq(Text)
    BY Tuples, Zenon DEF Text
  <2>3. <<"", "sys", "devices">> \in Seq(Text)
    BY Tuples, Zenon DEF Text
  <2>4. <<"", "sys", "module">> \in Seq(Text)
    BY Tuples, Zenon DEF Text
  <2>5. <<"", "sys", "kernel", "debug">> \in Seq(Text)
    BY Tuples, Zenon DEF Text
  <2>6. <<"", "sys", "firmware", "devicetree">> \in Seq(Text)
    BY Tuples, Zenon DEF Text
  <2>7. <<"", "proc", "device-tree">> \in Seq(Text)
    BY Tuples, Zenon DEF Text
  <2> QED
    BY <2>1, <2>2, <2>3, <2>4, <2>5, <2>6, <2>7, Zenon DEF SysfsReadRoots
<1>2. SysfsWriteRoots \subseteq Seq(Text)
  <2>1. <<"", "sys", "class", "gpio">> \in Seq(Text)
    BY Tuples, Zenon DEF Text
  <2>2. <<"", "sys", "class", "leds">> \in Seq(Text)
    BY Tuples, Zenon DEF Text
  <2>3. <<"", "sys", "class", "pwm">> \in Seq(Text)
    BY Tuples, Zenon DEF Text
  <2>4. <<"", "sys", "bus", "iio", "devices">> \in Seq(Text)
    BY Tuples, Zenon DEF Text
  <2>5. <<"", "sys", "kernel", "debug", "tracing">> \in Seq(Text)
    BY Tuples, Zenon DEF Text
  <2> QED
    BY <2>1, <2>2, <2>3, <2>4, <2>5, Zenon DEF SysfsWriteRoots
<1>3. ProcReadRoots \subseteq Seq(Text)
  <2>1. <<"", "proc">> \in Seq(Text)
    BY Tuples, Zenon DEF Text
  <2> QED
    BY <2>1, Zenon DEF ProcReadRoots
<1>4. ListRoots \subseteq Seq(Text)
  <2>1. {"", "sys", "proc", "dev", "tmp", "var", "etc", "run"} \subseteq Text
    BY Zenon DEF Text
  <2>2. \A d \in {"sys", "proc", "dev", "tmp", "var", "etc", "run"} : <<"", d>> \in Seq(Text)
    BY <2>1, Tuples, Zenon
  <2> QED
    BY <2>2, Zenon DEF ListRoots
<1>5. DeviceTree \in Seq(Text)
  BY Tuples, Zenon DEF DeviceTree, Text
<1> QED
  BY <1>1, <1>2, <1>3, <1>4, <1>5

\* Every root to write to is a root to read, or below one.
LEMMA RootsNest ==
  ASSUME NEW w \in SysfsWriteRoots
  PROVE  \E root \in SysfsReadRoots : Begins(root, w)
<1>1. CASE w = <<"", "sys", "class", "gpio">>
  BY <1>1, TuplesBegin, Zenon DEF SysfsReadRoots
<1>2. CASE w = <<"", "sys", "class", "leds">>
  BY <1>2, TuplesBegin, Zenon DEF SysfsReadRoots
<1>3. CASE w = <<"", "sys", "class", "pwm">>
  BY <1>3, TuplesBegin, Zenon DEF SysfsReadRoots
<1>4. CASE w = <<"", "sys", "bus", "iio", "devices">>
  BY <1>4, TuplesBegin, Zenon DEF SysfsReadRoots
<1>5. CASE w = <<"", "sys", "kernel", "debug", "tracing">>
  BY <1>5, TuplesBegin, Zenon DEF SysfsReadRoots
<1> QED
  BY <1>1, <1>2, <1>3, <1>4, <1>5, Zenon DEF SysfsWriteRoots

\* What is below a root to write to is below a root to read.
LEMMA WriteBelowRead ==
  ASSUME NEW path \in Seq(Text), NEW w \in SysfsWriteRoots, StartsWith(path, w)
  PROVE  \E root \in SysfsReadRoots : StartsWith(path, root)
<1>1. PICK root \in SysfsReadRoots : Begins(root, w)
  BY RootsNest
<1>2. w \in Seq(Text) /\ root \in Seq(Text)
  BY RootsTyped
<1>3. /\ Len(w) \in Nat /\ Len(root) \in Nat /\ Len(path) \in Nat
      /\ Len(w) < Len(path) /\ Begins(w, path)
  BY <1>2, LenProperties, BeginsFacts DEF StartsWith
<1>4. Len(root) < Len(path) /\ Begins(root, path)
  BY <1>1, <1>3 DEF Begins
<1>5. IsStrictPrefix(root, path)
  BY <1>2, <1>4, BeginsFacts
<1> QED
  BY <1>5 DEF StartsWith

\* the second segments of the high-risk fragments: each has two or three
RiskNames ==
  {"efi", "efivars", "firmware", "fuse", "otp", "secure_boot", "cpufreq", "thermal_throttle",
   "disable"}

\* of two or three segments, the second of which is one of those
Risky(f) == (Len(f) = 2 \/ Len(f) = 3) /\ f[2] \in RiskNames

LEMMA FragmentShapes == \A f \in HighRiskFragments : Risky(f)
<1>1. \A a, b, c : b \in RiskNames => Risky(<<a, b>>) /\ Risky(<<a, b, c>>)
  <2> SUFFICES ASSUME NEW a, NEW b \in RiskNames, NEW c  PROVE Risky(<<a, b>>) /\ Risky(<<a, b, c>>)
    OBVIOUS
  <2>1. /\ Len(<<a, b>>) = 2 /\ <<a, b>>[2] = b
        /\ Len(<<a, b, c>>) = 3 /\ <<a, b, c>>[2] = b
    OBVIOUS
  <2> QED
    BY <2>1, Zenon DEF Risky
<1>2. {"efi", "efivars", "firmware", "fuse", "otp", "secure_boot", "cpufreq", "thermal_throttle",
       "disable"} \subseteq RiskNames
  BY Zenon DEF RiskNames
<1> QED
  BY <1>1, <1>2, Zenon DEF HighRiskFragments

\* A path with a high-risk fragment has a segment that begins with a second one.
LEMMA RiskNamed ==
  ASSUME NEW path \in Seq(Text), HighRisk(path)
  PROVE  \E i \in 1 .. Len(path) : \E n \in RiskNames : BeginsWith(Lower(path[i]), n)
<1>1. PICK f \in HighRiskFragments : \E i \in DOMAIN path : Occurs(f, path, i)
  BY DEF HighRisk
<1>2. PICK i \in DOMAIN path : Occurs(f, path, i)
  BY <1>1
<1>3. (Len(f) = 2 \/ Len(f) = 3) /\ f[2] \in RiskNames
  BY FragmentShapes DEF Risky
<1>4. i \in 1 .. Len(path) /\ Len(path) \in Nat
  BY LenProperties
<1>5. i + 1 \in 1 .. Len(path)
  BY <1>2, <1>3, <1>4 DEF Occurs
<1>6. BeginsWith(Lower(path[i + 1]), f[2])
  <2>1. CASE Len(f) = 2
    BY <1>2, <1>4, <2>1 DEF Occurs
  <2>2. CASE Len(f) = 3
    <3>1. Lower(path[i + 1]) = f[2]
      <4>1. 2 \in 2 .. Len(f) - 1 /\ i + 2 - 1 = i + 1
        BY <1>4, <2>2
      <4> QED
        BY <1>2, <4>1 DEF Occurs
    <3> QED
      BY <3>1 DEF BeginsWith
  <2> QED
    BY <1>3, <2>1, <2>2
<1> QED
  BY <1>3, <1>5, <1>6

\* no segment that a check of paths minds
Harmless(T) ==
  \A x \in T : x # ".." /\ x # "\n" /\ \A n \in RiskNames : ~BeginsWith(Lower(x), n)

\* A path below a root to write to, of harmless segments, may be written to.
LEMMA HarmlessTarget ==
  ASSUME NEW path \in Seq(Text), NEW root \in SysfsWriteRoots, NEW T,
         Len(path) > Len(root), Absolute(path), Begins(root, path), Among(path, T), Harmless(T)
  PROVE  CheckSysfsWriteTarget(path)
<1>1. Len(path) \in Nat
  BY LenProperties
<1>2. \A i \in 1 .. Len(path) :
        /\ path[i] # ".." /\ path[i] # "\n"
        /\ \A n \in RiskNames : ~BeginsWith(Lower(path[i]), n)
  BY Zenon DEF Among, Harmless
<1>3. ~Contains(path, "..") /\ ~Control(path)
  BY <1>2 DEF Contains, Control
<1>4. ~HighRisk(path)
  BY <1>2, RiskNamed, Zenon
<1>5. StartsWith(path, root)
  <2>1. root \in Seq(Text)
    BY RootsTyped
  <2> QED
    BY <2>1, BeginsFacts DEF StartsWith
<1> QED
  BY <1>3, <1>4, <1>5 DEF CheckSysfsWriteTarget, CheckPath

\* The paths that the GPIO tools make up pass the checks of paths.
LEMMA GpioPaths ==
  /\ CheckPath(GpioPath("value"), SysfsReadRoots)
  /\ CheckSysfsWriteTarget(GpioPath("value"))
  /\ CheckSysfsWriteTarget(GpioPath("direction"))
  /\ CheckSysfsWriteTarget(ExportPath)
<1>1. GpioPath("value") \in Seq(Text) /\ GpioPath("direction") \in Seq(Text) /\ ExportPath \in Seq(Text)
  BY Tuples, Zenon DEF GpioPath, ExportPath, Text
<1>2. PICK root \in SysfsWriteRoots : root = <<"", "sys", "class", "gpio">>
  BY Zenon DEF SysfsWriteRoots
<1>3. Len(root) = 4
  BY <1>2
<1>4. CheckSysfsWriteTarget(GpioPath("value"))
  <2>1. PICK path : path = GpioPath("value")
    OBVIOUS
  <2>2. PICK T : T = {"", "sys", "class", "gpio", "gpioN", "value"}
    OBVIOUS
  <2>3. Len(path) > 4 /\ Absolute(path) /\ Begins(root, path) /\ Among(path, T)
    BY <1>2, <2>1, <2>2, TuplesBegin, TuplesMembers, Zenon DEF GpioPath, Absolute
  <2>4. Harmless(T)
    BY <2>2 DEF Harmless, RiskNames, Lower, BeginsWith
  <2>5. path \in Seq(Text)
    BY <1>1, <2>1
  <2>6. CheckSysfsWriteTarget(path)
    BY <1>3, <2>3, <2>4, <2>5, HarmlessTarget
  <2> QED
    BY <2>1, <2>6
<1>5. CheckSysfsWriteTarget(GpioPath("direction"))
  <2>1. PICK path : path = GpioPath("direction")
    OBVIOUS
  <2>2. PICK T : T = {"", "sys", "class", "gpio", "gpioN", "direction"}
    OBVIOUS
  <2>3. Len(path) > 4 /\ Absolute(path) /\ Begins(root, path) /\ Among(path, T)
    BY <1>2, <2>1, <2>2, TuplesBegin, TuplesMembers, Zenon DEF GpioPath, Absolute
  <2>4. Harmless(T)
    BY <2>2 DEF Harmless, RiskNames, Lower, BeginsWith
  <2>5. path \in Seq(Text)
    BY <1>1, <2>1
  <2>6. CheckSysfsWriteTarget(path)
    BY <1>3, <2>3, <2>4, <2>5, HarmlessTarget
  <2> QED
    BY <2>1, <2>6
<1>6. CheckSysfsWriteTarget(ExportPath)
  <2>1. PICK path : path = ExportPath
    OBVIOUS
  <2>2. PICK T : T = {"", "sys", "class", "gpio", "export"}
    OBVIOUS
  <2>3. Len(path) > 4 /\ Absolute(path) /\ Begins(root, path) /\ Among(path, T)
    BY <1>2, <2>1, <2>2, TuplesBegin, TuplesMembers, Zenon DEF ExportPath, Absolute
  <2>4. Harmless(T)
    BY <2>2 DEF Harmless, RiskNames, Lower, BeginsWith
  <2>5. path \in Seq(Text)
    BY <1>1, <2>1
  <2>6. CheckSysfsWriteTarget(path)
    BY <1>3, <2>3, <2>4, <2>5, HarmlessTarget
  <2> QED
    BY <2>1, <2>6
<1>7. CheckPath(GpioPath("value"), SysfsReadRoots)
  BY <1>1, <1>4, WriteBelowRead DEF CheckSysfsWriteTarget, CheckPath
<1> QED
  BY <1>4, <1>5, <1>6, <1>7

-----------------------------------------------------------------------------
(* What is left of a path without its empty segments, "." and ".."         *)

\* d[n] is what is left of the first n segments of path.
Walks(path, d) ==
  /\ d[0] = <<>>
  /\ \A n \in 1 .. Len(path) : d[n] = Walk(d[n - 1], path[n])

LEMMA WalkTyped ==
  ASSUME NEW dir \in Seq(Text), NEW segment \in Text
  PROVE  /\ Walk(dir, segment) \in Seq(Text)
         /\ segment # ".." => Walk(dir, segment) \in {dir, Append(dir, segment)}
<1>1. Append(dir, segment) \in Seq(Text)
  BY AppendFacts
<1>2. dir # <<>> => Front(dir) \in Seq(Text)
  <2>1. dir # <<>> => Len(dir) - 1 \in 0 .. Len(dir)
    BY LenProperties, EmptySeq
  <2> QED
    BY <2>1, PrefixFacts DEF Front
<1> QED
  BY <1>1, <1>2 DEF Walk

\* Something is left of every path: a walk that long exists.
LEMMA WalkExists ==
  ASSUME NEW path \in Seq(Text)
  PROVE  \E d \in [0 .. Len(path) -> Seq(Text)] : Walks(path, d) /\ Normalised(path) = d[Len(path)]
<1>1. PICK l \in Nat : l = Len(path)
  BY LenProperties
<1>2. \A n \in 1 .. l : path[n] \in Text
  BY <1>1, ElementOfSeq
<1> DEFINE Upto(n, d) == /\ d \in [0 .. n -> Seq(Text)]
                         /\ d[0] = <<>>
                         /\ \A k \in 1 .. n : d[k] = Walk(d[k - 1], path[k])
           Some(n) == \E d : Upto(n, d)
           S == {n \in Nat : n <= l => Some(n)}
<1>3. 0 \in S
  <2>1. Upto(0, [k \in 0 .. 0 |-> <<>>])
    BY EmptySeq
  <2>2. Some(0)
    BY <2>1
  <2> HIDE DEF Some
  <2> QED
    BY <2>2
<1>4. ASSUME NEW n \in Nat, n \in S PROVE n + 1 \in S
  <2> SUFFICES ASSUME n + 1 <= l PROVE Some(n + 1)
    <3> HIDE DEF Some
    <3> QED
      OBVIOUS
  <2>1. PICK d : Upto(n, d)
    <3>1. Some(n)
      <4> HIDE DEF Some
      <4> QED
        BY <1>1, <1>4
    <3> QED
      BY <3>1
  <2> DEFINE e == [k \in 0 .. n + 1 |-> IF k = n + 1 THEN Walk(d[n], path[n + 1]) ELSE d[k]]
  <2>2. Walk(d[n], path[n + 1]) \in Seq(Text)
    <3>1. d[n] \in Seq(Text) /\ path[n + 1] \in Text
      BY <1>1, <1>2, <2>1
    <3> QED
      BY <3>1, WalkTyped
  <2>3. e \in [0 .. n + 1 -> Seq(Text)] /\ e[0] = <<>>
    BY <2>1, <2>2
  <2>4. \A k \in 1 .. n + 1 : e[k] = Walk(e[k - 1], path[k])
    <3> SUFFICES ASSUME NEW k \in 1 .. n + 1 PROVE e[k] = Walk(e[k - 1], path[k])
      OBVIOUS
    <3>1. CASE k = n + 1
      BY <3>1
    <3>2. CASE k # n + 1
      BY <2>1, <3>2
    <3> QED
      BY <3>1, <3>2
  <2>5. Upto(n + 1, e)
    BY <2>3, <2>4
  <2> HIDE DEF Upto
  <2> QED
    BY <2>5
<1>5. PICK d : Upto(l, d)
  <2>1. \A n \in Nat : n \in S
    <3> HIDE DEF S
    <3> QED
      BY <1>3, <1>4, NatSetInduction
  <2>2. Some(l)
    <3> HIDE DEF Some
    <3> QED
      BY <1>1, <2>1
  <2> QED
    BY <2>2
<1> DEFINE Is(f) == f = [n \in 0 .. Len(path) |-> IF n = 0 THEN <<>> ELSE Walk(f[n - 1], path[n])]
<1>6. Is(d)
  BY <1>1, <1>5
<1>7. ASSUME NEW f, Is(f) PROVE f \in [0 .. Len(path) -> Seq(Text)] /\ Walks(path, f)
  <2>1. DOMAIN f = 0 .. l /\ f = [n \in 0 .. l |-> f[n]]
    BY <1>1, <1>7
  <2>2. f[0] = <<>> /\ \A n \in 1 .. l : f[n] = Walk(f[n - 1], path[n])
    BY <1>1, <1>7
  <2> DEFINE T == {n \in Nat : n <= l => f[n] \in Seq(Text)}
  <2>3. 0 \in T
    BY <2>2, EmptySeq
  <2>4. ASSUME NEW n \in Nat, n \in T PROVE n + 1 \in T
    <3> SUFFICES ASSUME n + 1 <= l PROVE f[n + 1] \in Seq(Text)
      OBVIOUS
    <3>1. f[n] \in Seq(Text) /\ path[n + 1] \in Text /\ f[n + 1] = Walk(f[n], path[n + 1])
      BY <1>1, <1>2, <2>2, <2>4
    <3> QED
      BY <3>1, WalkTyped
  <2>5. \A n \in Nat : n \in T
    <3> HIDE DEF T
    <3> QED
      BY <2>3, <2>4, NatSetInduction
  <2>6. f \in [0 .. l -> Seq(Text)]
    BY <1>1, <2>1, <2>5
  <2> QED
    BY <1>1, <2>2, <2>6 DEF Walks
<1> DEFINE dir == CHOOSE f : Is(f)
<1>8. Is(dir)
  <2> HIDE DEF Is
  <2> QED
    BY <1>6
<1>9. Normalised(path) = dir[Len(path)]
  BY DEF Normalised
<1> HIDE DEF dir, Is
<1> QED
  BY <1>7, <1>8, <1>9

LEMMA NormalisedTyped ==
  ASSUME NEW path \in Seq(Text)
  PROVE  Normalised(path) \in Seq(Text)
<1>1. PICK d \in [0 .. Len(path) -> Seq(Text)] : Normalised(path) = d[Len(path)]
  BY WalkExists
<1>2. Len(path) \in Nat
  BY LenProperties
<1> QED
  BY <1>1, <1>2

LEMMA PrefixAppend ==
  ASSUME NEW S, NEW s \in Seq(S), NEW t \in Seq(S), NEW e \in S, IsPrefix(s, t)
  PROVE  IsPrefix(s, Append(t, e))
<1>1. Append(t, e) \in Seq(S)
  BY AppendFacts
<1>2. Len(s) \in Nat /\ Len(t) \in Nat /\ Len(s) <= Len(t) /\ \A i \in 1 .. Len(s) : s[i] = t[i]
  BY LenProperties, PrefixPointwise
<1>3. Len(s) <= Len(Append(t, e)) /\ \A i \in 1 .. Len(s) : s[i] = Append(t, e)[i]
  BY <1>2, AppendFacts
<1> QED
  BY <1>1, <1>3, PrefixPointwise

\* Without "..", what is left of a path is below what is left of each of its
\* beginnings.
LEMMA NormalisedPrefix ==
  ASSUME NEW root \in Seq(Text), NEW path \in Seq(Text),
         IsPrefix(root, path), ~Contains(path, "..")
  PROVE  IsPrefix(Normalised(root), Normalised(path))
<1>1. PICK d \in [0 .. Len(root) -> Seq(Text)] : Walks(root, d) /\ Normalised(root) = d[Len(root)]
  BY WalkExists
<1>2. PICK e \in [0 .. Len(path) -> Seq(Text)] : Walks(path, e) /\ Normalised(path) = e[Len(path)]
  BY WalkExists
<1>3. PICK l \in Nat : l = Len(root)
  BY LenProperties
<1>4. PICK m \in Nat : m = Len(path)
  BY LenProperties
<1>5. l <= m /\ \A i \in 1 .. l : root[i] = path[i]
  BY <1>3, <1>4, PrefixPointwise
<1>6. \A i \in 1 .. m : path[i] \in Text /\ path[i] # ".."
  BY <1>4, ElementOfSeq DEF Contains
<1>7. e[l] = d[l]
  <2> DEFINE S == {n \in Nat : n <= l => e[n] = d[n]}
  <2>1. 0 \in S
    BY <1>1, <1>2 DEF Walks
  <2>2. ASSUME NEW n \in Nat, n \in S PROVE n + 1 \in S
    <3> SUFFICES ASSUME n + 1 <= l PROVE e[n + 1] = d[n + 1]
      OBVIOUS
    <3>1. n + 1 \in 1 .. l /\ n + 1 \in 1 .. m /\ (n + 1) - 1 = n
      BY <1>5
    <3>2. d[n + 1] = Walk(d[n], root[n + 1]) /\ e[n + 1] = Walk(e[n], path[n + 1])
      BY <1>1, <1>2, <1>3, <1>4, <3>1 DEF Walks
    <3>3. e[n] = d[n] /\ root[n + 1] = path[n + 1]
      BY <1>5, <2>2, <3>1
    <3> QED
      BY <3>2, <3>3
  <2>3. \A n \in Nat : n \in S
    <3> HIDE DEF S
    <3> QED
      BY <2>1, <2>2, NatSetInduction
  <2> QED
    BY <2>3
<1>8. IsPrefix(e[l], e[m])
  <2> DEFINE S == {k \in Nat : l + k <= m => IsPrefix(e[l], e[l + k])}
  <2>1. e[l] \in Seq(Text)
    BY <1>4, <1>5
  <2>2. 0 \in S
    <3>1. IsPrefix(e[l], e[l])
      BY <2>1, PrefixPointwise, LenProperties
    <3> QED
      BY <3>1
  <2>3. ASSUME NEW k \in Nat, k \in S PROVE k + 1 \in S
    <3> SUFFICES ASSUME l + (k + 1) <= m PROVE IsPrefix(e[l], e[l + (k + 1)])
      OBVIOUS
    <3>1. l + (k + 1) \in 1 .. m /\ l + (k + 1) - 1 = l + k /\ l + k \in 0 .. m
      OBVIOUS
    <3>2. IsPrefix(e[l], e[l + k])
      BY <2>3, <3>1
    <3>3. e[l + (k + 1)] = Walk(e[l + k], path[l + (k + 1)])
      BY <1>2, <1>4, <3>1 DEF Walks
    <3>4. path[l + (k + 1)] \in Text /\ path[l + (k + 1)] # ".."
      BY <1>6, <3>1
    <3>5. e[l + k] \in Seq(Text)
      BY <1>4, <3>1
    <3>6. e[l + (k + 1)] \in {e[l + k], Append(e[l + k], path[l + (k + 1)])}
      BY <3>3, <3>4, <3>5, WalkTyped
    <3>7. IsPrefix(e[l], Append(e[l + k], path[l + (k + 1)]))
      BY <2>1, <3>2, <3>4, <3>5, PrefixAppend
    <3> QED
      BY <3>2, <3>6, <3>7
  <2>4. \A k \in Nat : k \in S
    <3> HIDE DEF S
    <3> QED
      BY <2>2, <2>3, NatSetInduction
  <2>5. m - l \in Nat /\ l + (m - l) = m
    BY <1>5
  <2>6. m - l \in S
    <3> HIDE DEF S
    <3> QED
      BY <2>4, <2>5
  <2> QED
    BY <2>5, <2>6
<1> QED
  BY <1>1, <1>2, <1>3, <1>4, <1>7, <1>8

\* Without "..", what is left of an absolute path has its segments from the
\* path, and only the last of them may be the path's last.
LEMMA NormalisedSegments ==
  ASSUME NEW path \in Seq(Text), Absolute(path), ~Contains(path, "..")
  PROVE  \A i \in DOMAIN Normalised(path) :
           \E k \in 2 .. Len(path) :
             /\ Normalised(path)[i] = path[k]
             /\ i < Len(Normalised(path)) => k < Len(path)
<1>1. PICK e \in [0 .. Len(path) -> Seq(Text)] : Walks(path, e) /\ Normalised(path) = e[Len(path)]
  BY WalkExists
<1>2. PICK m \in Nat : m = Len(path)
  BY LenProperties
<1>3. \A i \in 1 .. m : path[i] \in Text /\ path[i] # ".."
  BY <1>2, ElementOfSeq DEF Contains
<1> DEFINE Own(s, n) == \A i \in DOMAIN s :
                         \E k \in 2 .. n : s[i] = path[k] /\ (i < Len(s) => k < n)
           S == {n \in Nat : n <= m => Own(e[n], n)}
<1>4. 0 \in S
  <2>1. e[0] = <<>>
    BY <1>1 DEF Walks
  <2> QED
    BY <2>1
<1>5. ASSUME NEW n \in Nat, n \in S PROVE n + 1 \in S
  <2> SUFFICES ASSUME n + 1 <= m PROVE Own(e[n + 1], n + 1)
    OBVIOUS
  <2>1. n + 1 \in 1 .. m /\ (n + 1) - 1 = n /\ n \in 0 .. m
    OBVIOUS
  <2>2. Own(e[n], n)
    BY <1>5, <2>1
  <2>3. e[n + 1] = Walk(e[n], path[n + 1])
    BY <1>1, <1>2, <2>1 DEF Walks
  <2>4. path[n + 1] \in Text /\ path[n + 1] # ".."
    BY <1>3, <2>1
  <2>5. e[n] \in Seq(Text)
    BY <1>2, <2>1
  <2> HIDE DEF Own
  <2>6. CASE path[n + 1] = "" \/ path[n + 1] = "."
    <3>1. e[n + 1] = e[n]
      BY <2>3, <2>6, Zenon DEF Walk
    <3>2. Own(e[n], n + 1)
      BY <2>2 DEF Own
    <3> QED
      BY <3>1, <3>2
  <2>7. CASE path[n + 1] # "" /\ path[n + 1] # "."
    <3>1. e[n + 1] = Append(e[n], path[n + 1])
      BY <2>3, <2>4, <2>7, Zenon DEF Walk
    <3>2. n + 1 \in 2 .. n + 1
      <4>1. n + 1 # 1
        BY <2>7, Zenon DEF Absolute
      <4> QED
        BY <2>1, <4>1
    <3>3. Own(Append(e[n], path[n + 1]), n + 1)
      <4>1. PICK s \in Seq(Text) : s = e[n]
        BY <2>5
      <4>2. PICK x \in Text : x = path[n + 1]
        BY <2>4
      <4>3. /\ Len(s) \in Nat /\ DOMAIN s = 1 .. Len(s) /\ DOMAIN Append(s, x) = 1 .. Len(s) + 1
            /\ Len(Append(s, x)) = Len(s) + 1
            /\ \A i \in 1 .. Len(s) : Append(s, x)[i] = s[i]
            /\ Append(s, x)[Len(s) + 1] = x
        BY AppendFacts
      <4>4. \A i \in DOMAIN s : \E k \in 2 .. n : s[i] = path[k]
        BY <2>2, <4>1 DEF Own
      <4>5. \A i \in DOMAIN Append(s, x) :
              \E k \in 2 .. n + 1 :
                Append(s, x)[i] = path[k] /\ (i < Len(Append(s, x)) => k < n + 1)
        <5> SUFFICES ASSUME NEW i \in 1 .. Len(s) + 1
                     PROVE  \E k \in 2 .. n + 1 :
                              Append(s, x)[i] = path[k] /\ (i < Len(Append(s, x)) => k < n + 1)
          BY <4>3
        <5>1. CASE i = Len(s) + 1
          <6>1. Append(s, x)[i] = path[n + 1]
            BY <4>2, <4>3, <5>1
          <6>2. ~(i < Len(Append(s, x)))
            BY <4>3, <5>1
          <6> QED
            BY <3>2, <6>1, <6>2, Zenon
        <5>2. CASE i # Len(s) + 1
          <6>1. i \in 1 .. Len(s)
            BY <4>3, <5>2
          <6>2. PICK k \in 2 .. n : s[i] = path[k]
            BY <4>3, <4>4, <6>1
          <6>3. k \in 2 .. n + 1 /\ k < n + 1
            BY <6>2
          <6>4. Append(s, x)[i] = path[k]
            BY <4>3, <6>1, <6>2
          <6> QED
            BY <6>3, <6>4, Zenon
        <5> QED
          BY <5>1, <5>2, Zenon
      <4> QED
        BY <4>1, <4>2, <4>5 DEF Own
    <3> QED
      BY <3>1, <3>3
  <2> QED
    BY <2>6, <2>7
<1>6. \A n \in Nat : n \in S
  <2> HIDE DEF S
  <2> QED
    BY <1>4, <1>5, NatSetInduction
<1>7. Own(e[m], m)
  <2> HIDE DEF Own
  <2> QED
    BY <1>6
<1> QED
  BY <1>1, <1>2, <1>7 DEF Own

\* What is left of a path that passes the check of paths is below a root.
LEMMA CheckedInside ==
  ASSUME NEW path \in Seq(Text), NEW roots, roots \subseteq Seq(Text), CheckPath(path, roots)
  PROVE  Inside(path, roots)
<1>1. ~Contains(path, "..")
  BY DEF CheckPath
<1>2. PICK root \in roots : IsStrictPrefix(root, path)
  BY DEF CheckPath, StartsWith
<1>3. IsPrefix(root, path)
  BY <1>2 DEF IsStrictPrefix
<1>4. root \in Seq(Text)
  OBVIOUS
<1>5. IsPrefix(Normalised(root), Normalised(path))
  BY <1>1, <1>3, <1>4, NormalisedPrefix
<1> QED
  BY <1>5 DEF Inside

Empty(segment) == segment = ""

LEMMA OneNameShape ==
  ASSUME NEW f \in HighRiskFragments, OneName(f)
  PROVE  Empty(f[1]) /\ (Len(f) = 2 \/ (Len(f) = 3 /\ Empty(f[3])))
BY Zenon DEF OneName, Empty

LEMMA EmptyFits ==
  ASSUME NEW part, NEW segment, Empty(part)
  PROVE  BeginsWith(segment, part) /\ EndsWith(segment, part)
BY Zenon DEF Empty, BeginsWith, EndsWith

\* what is left of path, below the root directory
Names(named, left) ==
  /\ Len(named) = Len(left) + 1 /\ DOMAIN named = 1 .. Len(left) + 1
  /\ Len(left) \in Nat /\ DOMAIN left = 1 .. Len(left)
  /\ \A n \in 1 .. Len(left) : named[n + 1] = left[n]

LEMMA NamesBelow ==
  ASSUME NEW left \in Seq(Text)
  PROVE  Names(<<"">> \o left, left)
<1>1. PICK top \in Seq(Text) : top = <<"">> /\ Len(top) = 1
  <2>1. \A x \in Text : <<x>> \in Seq(Text) /\ Len(<<x>>) = 1
    OBVIOUS
  <2>2. "" \in Text
    BY Zenon DEF Text
  <2> QED
    BY <2>1, <2>2, Zenon
<1>2. PICK named : named = top \o left
  OBVIOUS
<1>3. /\ Len(named) = Len(left) + 1 /\ DOMAIN named = 1 .. Len(left) + 1
      /\ Len(left) \in Nat /\ DOMAIN left = 1 .. Len(left)
      /\ \A n \in 1 .. Len(left) : named[1 + n] = left[n]
  <2>1. Len(top) = 1
    BY <1>1
  <2>2. /\ Len(top \o left) = Len(top) + Len(left) /\ DOMAIN (top \o left) = 1 .. Len(top) + Len(left)
        /\ Len(left) \in Nat /\ DOMAIN left = 1 .. Len(left)
        /\ \A n \in 1 .. Len(left) : (top \o left)[Len(top) + n] = left[n]
    BY ConcatFacts
  <2>3. 1 + Len(left) = Len(left) + 1
    BY <2>2
  <2> QED
    BY <1>2, <2>1, <2>2, <2>3, Zenon
<1>4. \A n \in 1 .. Len(left) : named[n + 1] = left[n]
  <2>1. \A n \in 1 .. Len(left) : n + 1 = 1 + n
    BY <1>3
  <2> QED
    BY <1>3, <2>1
<1>5. Names(named, left)
  BY <1>3, <1>4 DEF Names
<1> QED
  BY <1>1, <1>2, <1>5, Zenon

\* A fragment that takes one name occurs in a path if it occurs in what is left
\* of it.
LEMMA OneNameKept ==
  ASSUME NEW path \in Seq(Text), Absolute(path), ~Contains(path, ".."),
         NEW f \in HighRiskFragments, OneName(f),
         NEW left, left = Normalised(path), NEW named, Names(named, left),
         NEW i \in DOMAIN named, Occurs(f, named, i)
  PROVE  \E k \in DOMAIN path : Occurs(f, path, k)
<1>1. /\ Len(named) = Len(left) + 1 /\ DOMAIN named = 1 .. Len(left) + 1
      /\ Len(left) \in Nat /\ DOMAIN left = 1 .. Len(left)
      /\ \A n \in 1 .. Len(left) : named[n + 1] = left[n]
  BY DEF Names
<1>2. Empty(f[1]) /\ (Len(f) = 2 \/ (Len(f) = 3 /\ Empty(f[3])))
  BY OneNameShape
<1>3. Len(path) \in Nat /\ DOMAIN path = 1 .. Len(path)
  BY LenProperties
<1>4. i + Len(f) - 1 <= Len(named)
  BY DEF Occurs
<1>5. i \in 1 .. Len(left) /\ (Len(f) = 3 => i < Len(left)) /\ named[i + 1] = left[i]
  <2>1. PICK l \in Nat : l = Len(left)
    BY <1>1
  <2>2. i \in 1 .. l + 1 /\ Len(named) = l + 1
    BY <1>1, <2>1, Zenon
  <2>3. CASE Len(f) = 2
    <3>1. i \in 1 .. l
      BY <1>4, <2>2, <2>3
    <3> QED
      BY <1>1, <2>1, <2>3, <3>1
  <2>4. CASE Len(f) = 3
    <3>1. i \in 1 .. l /\ i < l
      BY <1>4, <2>2, <2>4
    <3> QED
      BY <1>1, <2>1, <3>1
  <2> QED
    BY <1>2, <2>3, <2>4, Zenon
<1>6. PICK k \in 2 .. Len(path) : left[i] = path[k] /\ (i < Len(left) => k < Len(path))
  BY <1>1, <1>5, NormalisedSegments
<1>7. k - 1 \in DOMAIN path /\ k - 1 + Len(f) - 1 <= Len(path)
  <2>1. PICK m \in Nat : m = Len(path) /\ DOMAIN path = 1 .. m
    BY <1>3
  <2>2. k \in 2 .. m /\ k - 1 \in 1 .. m
    BY <2>1
  <2>3. CASE Len(f) = 2
    BY <2>1, <2>2, <2>3
  <2>4. CASE Len(f) = 3
    <3>1. k < m
      BY <1>5, <1>6, <2>1, <2>4, Zenon
    <3> QED
      BY <2>1, <2>2, <2>4, <3>1
  <2> QED
    BY <1>2, <2>3, <2>4, Zenon
<1>8. EndsWith(Lower(path[k - 1]), f[1])
  BY <1>2, EmptyFits
<1>9. CASE Len(f) = 2
  <2>1. BeginsWith(Lower(path[k]), f[2])
    <3>1. i + Len(f) - 1 = i + 1
      BY <1>5, <1>9
    <3> QED
      BY <1>5, <1>6, <1>9, <3>1 DEF Occurs
  <2>2. k - 1 + Len(f) - 1 = k /\ 2 .. Len(f) - 1 = {}
    BY <1>3, <1>9
  <2> QED
    BY <1>7, <1>8, <1>9, <2>1, <2>2 DEF Occurs
<1>10. CASE Len(f) = 3
  <2>1. Lower(path[k]) = f[2]
    <3>1. 2 \in 2 .. Len(f) - 1 /\ i + 2 - 1 = i + 1
      BY <1>5, <1>10
    <3> QED
      BY <1>5, <1>6, <3>1 DEF Occurs
  <2>2. \A n \in 2 .. Len(f) - 1 : n = 2 /\ k - 1 + n - 1 = k
    BY <1>3, <1>10
  <2>3. BeginsWith(Lower(path[k - 1 + Len(f) - 1]), f[Len(f)])
    BY <1>2, <1>10, EmptyFits
  <2> QED
    BY <1>7, <1>8, <2>1, <2>2, <2>3 DEF Occurs
<1> QED
  BY <1>2, <1>9, <1>10

\* A target of a write is of no high-risk name, however it is spelled.
LEMMA CheckedTarget ==
  ASSUME NEW path \in Seq(Text), CheckSysfsWriteTarget(path)
  PROVE  LET named == <<"">> \o Normalised(path)
         IN  \A f \in HighRiskFragments, i \in DOMAIN named : OneName(f) => ~Occurs(f, named, i)
<1>1. Absolute(path) /\ ~Contains(path, "..") /\ ~HighRisk(path)
  BY DEF CheckSysfsWriteTarget, CheckPath
<1> QED
  <2> SUFFICES ASSUME NEW f \in HighRiskFragments, NEW named, named = <<"">> \o Normalised(path),
                      NEW i \in DOMAIN named, OneName(f), Occurs(f, named, i)
               PROVE  FALSE
    BY Zenon
  <2>1. PICK left \in Seq(Text) : left = Normalised(path)
    BY NormalisedTyped
  <2>2. Names(named, left)
    BY <2>1, NamesBelow, Zenon
  <2>3. \E k \in DOMAIN path : Occurs(f, path, k)
    BY <1>1, <2>1, <2>2, OneNameKept, Zenon
  <2> QED
    BY <1>1, <2>3, Zenon DEF HighRisk

\* What dump_devicetree makes of its argument is a sequence of strings.
LEMMA TargetTyped ==
  ASSUME NEW path \in Seq(Text)
  PROVE  DeviceTreeTarget(path) \in Seq(Text)
<1> DEFINE named == {i \in DOMAIN path : path[i] # ""}
<1>1. DeviceTree \in Seq(Text)
  BY RootsTyped
<1>2. Append(DeviceTree, "") \in Seq(Text)
  <2>1. "" \in Text
    BY Zenon DEF Text
  <2> QED
    BY <1>1, <2>1, AppendFacts
<1>3. ASSUME named # {} PROVE DeviceTree \o SubSeq(path, Min(named), Len(path)) \in Seq(Text)
  <2>1. Len(path) \in Nat /\ DOMAIN path = 1 .. Len(path)
    BY LenProperties
  <2>2. named \subseteq 1 .. Len(path)
    BY <2>1
  <2> HIDE DEF named
  <2>3. Min(named) \in 1 .. Len(path)
    <3>1. named \subseteq Nat /\ named # {}
      BY <1>3, <2>1, <2>2
    <3>2. Min(named) \in named
      BY <3>1, LeastNatural
    <3> QED
      BY <2>2, <3>2
  <2>4. \A i \in Min(named) .. Len(path) : path[i] \in Text
    <3>1. \A i \in Min(named) .. Len(path) : i \in 1 .. Len(path)
      BY <2>1, <2>3
    <3> QED
      BY <3>1, ElementOfSeq
  <2>5. SubSeq(path, Min(named), Len(path)) \in Seq(Text)
    BY <2>1, <2>3, <2>4, SubSeqProperties
  <2> QED
    BY <1>1, <2>5, ConcatProperties
<1> QED
  BY <1>1, <1>2, <1>3, Zenon DEF DeviceTreeTarget

LEMMA WholeTree == Inside(DeviceTree, {DeviceTree})
<1>1. DeviceTree \in Seq(Text)
  BY RootsTyped
<1>2. Normalised(DeviceTree) \in Seq(Text)
  BY <1>1, NormalisedTyped
<1>3. IsPrefix(Normalised(DeviceTree), Normalised(DeviceTree))
  BY <1>2, PrefixPointwise, LenProperties
<1> QED
  BY <1>3 DEF Inside

-----------------------------------------------------------------------------
(* Commands                                                                *)

\* t is the part of s from lo to hi, and the rest of s is in E
Part(t, s, lo, hi, E) ==
  /\ lo \in 1 .. Len(s) + 1 /\ hi \in lo - 1 .. Len(s)
  /\ Len(t) = hi - lo + 1
  /\ \A k \in 1 .. Len(t) : t[k] = s[lo + k - 1]
  /\ \A i \in 1 .. Len(s) : i < lo \/ i > hi => s[i] \in E
Core(t, s, E) == t \in Seq(Text) /\ \E lo, hi : Part(t, s, lo, hi, E)

\* what is between two pieces of s outside of E is in t, lo places earlier
Aligned(t, s, E, lo) ==
  \A i, j, k \in DOMAIN s :
    i <= j /\ j <= k /\ s[i] \notin E /\ s[k] \notin E => j - lo \in DOMAIN t /\ t[j - lo] = s[j]

\* What a part takes from s, in the order of s.
LEMMA CoreFacts ==
  ASSUME NEW t, NEW s \in Seq(Text), NEW E, Core(t, s, E)
  PROVE  /\ \A k \in DOMAIN t : \E j \in DOMAIN s : t[k] = s[j]
         /\ \E lo \in Int : Aligned(t, s, E, lo)
<1>1. t \in Seq(Text) /\ \E lo, hi : Part(t, s, lo, hi, E)
  BY DEF Core
<1>2. PICK lo, hi : Part(t, s, lo, hi, E)
  BY <1>1
<1>3. PICK l \in Nat : l = Len(s) /\ DOMAIN s = 1 .. l
  BY LenProperties
<1>4. DOMAIN t = 1 .. Len(t)
  BY <1>1, LenProperties
<1>5. /\ lo \in 1 .. l + 1 /\ hi \in lo - 1 .. l /\ DOMAIN t = 1 .. hi - lo + 1
      /\ \A k \in 1 .. hi - lo + 1 : t[k] = s[lo + k - 1]
      /\ \A i \in 1 .. l : i < lo \/ i > hi => s[i] \in E
  BY <1>2, <1>3, <1>4 DEF Part
<1>6. ASSUME NEW k \in DOMAIN t  PROVE \E j \in DOMAIN s : t[k] = s[j]
  <2>1. k \in 1 .. hi - lo + 1
    BY <1>5
  <2>2. lo + k - 1 \in 1 .. l
    BY <1>5, <2>1
  <2> QED
    BY <1>3, <1>5, <2>1, <2>2
<1>7. ASSUME NEW i \in DOMAIN s, NEW j \in DOMAIN s, NEW k \in DOMAIN s,
             i <= j, j <= k, s[i] \notin E, s[k] \notin E
      PROVE  j - (lo - 1) \in DOMAIN t /\ t[j - (lo - 1)] = s[j]
  <2>1. i \in 1 .. l /\ j \in 1 .. l /\ k \in 1 .. l
    BY <1>3
  <2>2. i >= lo /\ k <= hi
    BY <1>5, <1>7, <2>1
  <2>3. j - (lo - 1) \in 1 .. hi - lo + 1 /\ lo + (j - (lo - 1)) - 1 = j
    BY <1>5, <1>7, <2>1, <2>2
  <2> QED
    BY <1>5, <2>3
<1>8. lo - 1 \in Int
  BY <1>5
<1>9. Aligned(t, s, E, lo - 1)
  BY <1>7 DEF Aligned
<1> QED
  BY <1>6, <1>8, <1>9, Zenon

\* Where the pieces of a part that is not empty are.
LEMMA PartFacts ==
  ASSUME NEW s \in Seq(Text), NEW t \in Seq(Text), t # <<>>,
         NEW E, NEW lo, NEW hi, Part(t, s, lo, hi, E)
  PROVE  /\ lo \in 1 .. Len(s) /\ hi \in 1 .. Len(s)
         /\ t[1] = s[lo] /\ t[Len(t)] = s[hi]
         /\ \A k \in 1 .. Len(t) :
              /\ lo + k - 1 \in 1 .. Len(s) /\ t[k] = s[lo + k - 1]
              /\ k # 1 /\ k # Len(t) => lo < lo + k - 1 /\ lo + k - 1 < hi
<1>1. PICK l \in Nat : l = Len(s)
  BY LenProperties
<1>2. PICK m \in Nat : m = Len(t)
  BY LenProperties
<1>3. m # 0
  BY <1>2, EmptySeq
<1>4. lo \in 1 .. l + 1 /\ hi \in lo - 1 .. l /\ m = hi - lo + 1
  BY <1>1, <1>2 DEF Part
<1>5. lo \in 1 .. l /\ hi \in 1 .. l /\ 1 \in 1 .. m /\ m \in 1 .. m
  BY <1>3, <1>4
<1>6. \A k \in 1 .. m : t[k] = s[lo + k - 1]
  BY <1>2 DEF Part
<1>7. lo + 1 - 1 = lo /\ lo + m - 1 = hi
  BY <1>4
<1>8. t[1] = s[lo] /\ t[m] = s[hi]
  <2>1. t[1] = s[lo + 1 - 1] /\ t[m] = s[lo + m - 1]
    BY <1>5, <1>6
  <2> QED
    BY <1>7, <2>1
<1>9. \A k \in 1 .. m :
        /\ lo + k - 1 \in 1 .. l
        /\ k # 1 /\ k # m => lo < lo + k - 1 /\ lo + k - 1 < hi
  BY <1>4
<1> QED
  BY <1>1, <1>2, <1>5, <1>6, <1>8, <1>9

\* A part of a part is a part.
LEMMA CoreOfCore ==
  ASSUME NEW s \in Seq(Text), NEW t, NEW u, NEW E, Core(t, s, E), Core(u, t, E)
  PROVE  Core(u, s, E)
<1>1. t \in Seq(Text) /\ u \in Seq(Text)
  BY DEF Core
<1>2. PICK a, b : Part(t, s, a, b, E)
  BY DEF Core
<1>3. PICK c, d : Part(u, t, c, d, E)
  BY DEF Core
<1>4. PICK l \in Nat : l = Len(s)
  BY LenProperties
<1>5. PICK m \in Nat : m = Len(t)
  BY <1>1, LenProperties
<1>6. a \in 1 .. l + 1 /\ b \in a - 1 .. l /\ m = b - a + 1
  BY <1>2, <1>4, <1>5 DEF Part
<1>7. c \in 1 .. m + 1 /\ d \in c - 1 .. m /\ Len(u) = d - c + 1
  BY <1>3, <1>5 DEF Part
<1>8. /\ \A k \in 1 .. m : t[k] = s[a + k - 1]
      /\ \A i \in 1 .. l : i < a \/ i > b => s[i] \in E
  BY <1>2, <1>4, <1>5 DEF Part
<1>9. /\ \A k \in 1 .. Len(u) : u[k] = t[c + k - 1]
      /\ \A i \in 1 .. m : i < c \/ i > d => t[i] \in E
  BY <1>3, <1>5 DEF Part
<1> DEFINE lo == a + c - 1
           hi == a + d - 1
<1>10. lo \in 1 .. l + 1 /\ hi \in lo - 1 .. l /\ Len(u) = hi - lo + 1
  BY <1>6, <1>7
<1>11. ASSUME NEW k \in 1 .. Len(u)  PROVE u[k] = s[lo + k - 1]
  <2>1. k \in 1 .. d - c + 1
    BY <1>7
  <2>2. c + k - 1 \in 1 .. m /\ a + (c + k - 1) - 1 = lo + k - 1
    BY <1>6, <1>7, <2>1
  <2>3. u[k] = t[c + k - 1] /\ t[c + k - 1] = s[a + (c + k - 1) - 1]
    BY <1>8, <1>9, <2>2
  <2> QED
    BY <2>2, <2>3
<1>12. ASSUME NEW i \in 1 .. l, i < lo \/ i > hi  PROVE s[i] \in E
  <2>1. CASE i < a \/ i > b
    BY <1>8, <2>1
  <2>2. CASE i \in a .. b
    <3>1. i - a + 1 \in 1 .. m /\ a + (i - a + 1) - 1 = i /\ (i - a + 1 < c \/ i - a + 1 > d)
      BY <1>6, <1>7, <1>12, <2>2
    <3>2. t[i - a + 1] = s[i] /\ t[i - a + 1] \in E
      BY <1>8, <1>9, <3>1
    <3> QED
      BY <3>2
  <2> QED
    BY <1>6, <2>1, <2>2
<1>13. Part(u, s, lo, hi, E)
  <2> HIDE DEF lo, hi
  <2> QED
    BY <1>4, <1>10, <1>11, <1>12 DEF Part
<1> QED
  BY <1>1, <1>13 DEF Core

LEMMA CoreMonotone ==
  ASSUME NEW t, NEW s, NEW E, NEW F, E \subseteq F, Core(t, s, E)
  PROVE  Core(t, s, F)
<1>1. t \in Seq(Text) /\ \E lo, hi : Part(t, s, lo, hi, E)
  BY DEF Core
<1>2. PICK lo, hi : Part(t, s, lo, hi, E)
  BY <1>1
<1>3. Part(t, s, lo, hi, F)
  BY <1>2 DEF Part
<1> QED
  BY <1>1, <1>3 DEF Core

\* Strip leaves out blanks only, and only at the ends; it leaves none there.
LEMMA StripFacts ==
  ASSUME NEW s \in Seq(Text)
  PROVE  /\ Core(Strip(s), s, Blanks)
         /\ Strip(s) # <<>> =>
              /\ Len(Strip(s)) \in Nat \ {0}
              /\ Strip(s)[1] \notin Blanks /\ Strip(s)[Len(Strip(s))] \notin Blanks
<1> DEFINE solid == {i \in DOMAIN s : s[i] \notin Blanks}
<1>1. PICK l \in Nat : l = Len(s) /\ DOMAIN s = 1 .. l
  BY LenProperties
<1>2. solid \subseteq 1 .. l /\ \A i \in 1 .. l : i \in solid <=> s[i] \notin Blanks
  BY <1>1
<1>3. Strip(s) = IF solid = {} THEN <<>> ELSE SubSeq(s, Min(solid), Max(solid))
  BY Zenon DEF Strip
<1> HIDE DEF solid
<1>4. CASE solid = {}
  <2>1. Strip(s) = <<>>
    BY <1>3, <1>4
  <2>2. PICK t \in Seq(Text) : t = <<>> /\ Len(t) = 0
    BY EmptySeq
  <2>3. Part(t, s, 1, 0, Blanks)
    BY <1>1, <1>2, <1>4, <2>2 DEF Part
  <2>4. Core(t, s, Blanks)
    BY <2>3 DEF Core
  <2> QED
    BY <2>1, <2>2, <2>4
<1>5. CASE solid # {}
  <2>1. PICK lo \in solid : lo = Min(solid) /\ \A i \in solid : lo <= i
    <3>1. solid \subseteq Nat
      BY <1>2
    <3> QED
      BY <1>5, <3>1, LeastNatural
  <2>2. PICK hi \in solid : hi = Max(solid) /\ \A i \in solid : i <= hi
    <3>1. solid \subseteq 0 .. l
      BY <1>2
    <3> QED
      BY <1>5, <3>1, GreatestNatural
  <2>3. lo \in 1 .. l /\ hi \in lo .. l
    BY <1>2, <2>1, <2>2
  <2>4. PICK t : t = Strip(s) /\ t = SubSeq(s, lo, hi)
    BY <1>3, <1>5, <2>1, <2>2
  <2>5. /\ t \in Seq(Text) /\ Len(t) = hi - lo + 1
        /\ \A k \in 1 .. hi - lo + 1 : t[k] = s[lo + k - 1]
    <3>1. \A i \in lo .. hi : s[i] \in Text
      <4>1. \A i \in lo .. hi : i \in 1 .. Len(s)
        BY <1>1, <2>3
      <4> QED
        BY <4>1, ElementOfSeq
    <3>2. lo \in Int /\ hi \in Int /\ lo <= hi
      BY <2>3
    <3>3. /\ SubSeq(s, lo, hi) \in Seq(Text)
          /\ Len(SubSeq(s, lo, hi)) = IF lo <= hi THEN hi - lo + 1 ELSE 0
          /\ \A k \in 1 .. hi - lo + 1 : SubSeq(s, lo, hi)[k] = s[lo + k - 1]
      BY <3>1, <3>2, SubSeqProperties
    <3> QED
      BY <2>4, <3>2, <3>3
  <2>6. \A i \in 1 .. l : i < lo \/ i > hi => s[i] \in Blanks
    BY <1>2, <2>1, <2>2, <2>3
  <2>7. Part(t, s, lo, hi, Blanks)
    BY <1>1, <2>3, <2>5, <2>6 DEF Part
  <2>8. Len(t) \in Nat \ {0} /\ t[1] = s[lo] /\ t[Len(t)] = s[hi]
    <3>1. /\ 1 \in 1 .. hi - lo + 1 /\ hi - lo + 1 \in 1 .. hi - lo + 1 /\ hi - lo + 1 \in Nat \ {0}
          /\ lo + 1 - 1 = lo /\ lo + (hi - lo + 1) - 1 = hi
      BY <2>3
    <3> QED
      BY <2>5, <3>1
  <2>9. s[lo] \notin Blanks /\ s[hi] \notin Blanks
    BY <1>2, <2>3
  <2> QED
    BY <2>4, <2>5, <2>7, <2>8, <2>9 DEF Core
<1> QED
  BY <1>4, <1>5

Aside == Blanks \union {"&"}

\* What is cut off to see whether a line puts its command in the background.
LEMMA BackgroundFacts ==
  ASSUME NEW s \in Seq(Text)
  PROVE  Core(WithoutBackground(s), s, Aside)
<1> DEFINE rest == {i \in DOMAIN s : s[i] # "&"}
<1>1. PICK l \in Nat : l = Len(s) /\ DOMAIN s = 1 .. l
  BY LenProperties
<1>2. rest \subseteq 1 .. l /\ \A i \in 1 .. l : i \notin rest => s[i] \in Aside
  BY <1>1 DEF Aside
<1>3. WithoutBackground(s) = IF rest = {} THEN <<>> ELSE Strip(SubSeq(s, 1, Max(rest)))
  BY Zenon DEF WithoutBackground
<1> HIDE DEF rest
<1>4. CASE rest = {}
  <2>1. PICK t \in Seq(Text) : t = <<>> /\ Len(t) = 0
    BY EmptySeq
  <2>2. Part(t, s, 1, 0, Aside)
    BY <1>1, <1>2, <1>4, <2>1 DEF Part
  <2>3. Core(t, s, Aside)
    BY <2>2 DEF Core
  <2> QED
    BY <1>3, <1>4, <2>1, <2>3
<1>5. CASE rest # {}
  <2>1. PICK hi \in rest : hi = Max(rest) /\ \A i \in rest : i <= hi
    <3>1. rest \subseteq 0 .. l
      BY <1>2
    <3> QED
      BY <1>5, <3>1, GreatestNatural
  <2>2. hi \in 1 .. l /\ \A i \in 1 .. l : i > hi => s[i] \in Aside
    BY <1>2, <2>1
  <2>3. PICK t : t = SubSeq(s, 1, hi)
    OBVIOUS
  <2>4. /\ t \in Seq(Text) /\ Len(t) = hi
        /\ \A k \in 1 .. hi : t[k] = s[k]
    <3>1. hi \in 0 .. Len(s)
      BY <1>1, <2>2
    <3> QED
      BY <2>3, <3>1, PrefixFacts
  <2>5. Part(t, s, 1, hi, Aside)
    <3>1. \A k \in 1 .. hi : 1 + k - 1 = k
      BY <2>2
    <3>2. hi - 1 + 1 = hi /\ 1 \in 1 .. l + 1 /\ hi \in 1 - 1 .. l
      BY <2>2
    <3>3. \A i \in 1 .. l : ~(i < 1)
      OBVIOUS
    <3> QED
      BY <1>1, <2>2, <2>4, <3>1, <3>2, <3>3 DEF Part
  <2>6. Core(t, s, Aside)
    BY <2>4, <2>5 DEF Core
  <2>7. Core(Strip(t), t, Aside)
    <3>1. Blanks \subseteq Aside
      BY DEF Aside
    <3> QED
      BY <2>4, <3>1, StripFacts, CoreMonotone
  <2>8. Core(Strip(t), s, Aside)
    BY <2>6, <2>7, CoreOfCore
  <2> QED
    BY <1>3, <1>5, <2>1, <2>3, <2>8
<1> QED
  BY <1>4, <1>5

\* which characters the definitions have in common
LEMMA Characters ==
  /\ Separators \subseteq ShellMeta /\ {";", "|", "&", ">", "<"} \subseteq ShellMeta
  /\ ShellMeta \subseteq {";", "|", "&", ">", "<"} \union {"\n"}
  /\ {";", "|", "&", ">", "<"} \intersect Blanks = {}
  /\ Separators \subseteq {";", "|", "&", ">", "<"} \union Blanks
  /\ {";", "|", "\n"} \subseteq Separators /\ "&" \in Separators
  /\ Separators \subseteq {";", "|", "\n"} \union {"&"}
  /\ "\n" \in Separators
BY DEF Separators, ShellMeta, Blanks

\* the pieces that chain two commands, in the sense of run_command
LEMMA ChainsFacts ==
  ASSUME NEW s
  PROVE  Chains(s) <=> \/ Uses(s, {";", "|", "\n"})
                       \/ \E i \in DOMAIN s : s[i] = "&" /\ At(s, i + 1, {"&"})
BY Zenon DEF Chains

\* A line that chains commands uses a separator.
LEMMA ChainsUse ==
  ASSUME NEW s, Chains(s)
  PROVE  Uses(s, Separators)
BY ChainsFacts, Characters, Zenon DEF Uses

\* What a part uses, the whole line uses.
LEMMA UsesKept ==
  ASSUME NEW s \in Seq(Text), NEW t, NEW E, Core(t, s, E), NEW S, Uses(t, S)
  PROVE  Uses(s, S)
BY CoreFacts, Zenon DEF Uses

\* A character that is not cut off is in the part.
LEMMA UsesSeen ==
  ASSUME NEW s \in Seq(Text), NEW t, NEW E, Core(t, s, E), NEW S, S \intersect E = {}, Uses(s, S)
  PROVE  Uses(t, S)
<1>1. PICK i \in DOMAIN s : s[i] \in S
  BY Zenon DEF Uses
<1>2. PICK lo \in Int : Aligned(t, s, E, lo)
  BY CoreFacts, Zenon
<1>3. i <= i
  BY LenProperties
<1>4. i - lo \in DOMAIN t /\ t[i - lo] = s[i]
  <2>1. s[i] \notin E
    BY <1>1
  <2> QED
    BY <1>2, <1>3, <2>1, Zenon DEF Aligned
<1> QED
  BY <1>1, <1>4 DEF Uses

\* A line is broken only between two pieces that stay when its ends are cut.
LEMMA BreaksInside ==
  ASSUME NEW s \in Seq(Text), NEW t, NEW E, Core(t, s, E), E \subseteq Aside, NEW j \in Breaks(s)
  PROVE  /\ s[j] \in Separators /\ j \in Int
         /\ \E lo \in Int :
              /\ j - lo \in DOMAIN t /\ t[j - lo] = s[j]
              /\ At(s, j + 1, {"&"}) => At(t, j - lo + 1, {"&"})
              /\ At(s, j - 1, {"&"}) => j - 1 - lo \in DOMAIN t /\ t[j - 1 - lo] = "&"
<1>1. PICK l \in Nat : l = Len(s) /\ DOMAIN s = 1 .. l
  BY LenProperties
<1>2. /\ j \in 1 .. l /\ s[j] \in Separators
      /\ \E i, k \in 1 .. l :
           i < j /\ j < k /\ {s[i], s[k]} \intersect (Separators \union Blanks) = {}
  BY <1>1, Zenon DEF Breaks
<1>3. PICK i \in 1 .. l : \E k \in 1 .. l :
        i < j /\ j < k /\ {s[i], s[k]} \intersect (Separators \union Blanks) = {}
  BY <1>2
<1>4. PICK k \in 1 .. l : i < j /\ j < k /\ {s[i], s[k]} \intersect (Separators \union Blanks) = {}
  BY <1>3
<1>5. E \subseteq Separators \union Blanks
  BY Characters, Zenon DEF Aside
<1>6. s[i] \notin E /\ s[k] \notin E /\ s[i] # "&" /\ s[k] # "&"
  BY <1>4, <1>5, Characters, Zenon
<1>7. PICK lo \in Int : Aligned(t, s, E, lo)
  BY CoreFacts, Zenon
<1>8. ASSUME NEW m \in 1 .. l, i <= m, m <= k  PROVE m - lo \in DOMAIN t /\ t[m - lo] = s[m]
  BY <1>1, <1>6, <1>7, <1>8, Zenon DEF Aligned
<1>9. j - lo \in DOMAIN t /\ t[j - lo] = s[j]
  BY <1>2, <1>4, <1>8
<1>10. ASSUME At(s, j + 1, {"&"})  PROVE At(t, j - lo + 1, {"&"})
  <2>1. j + 1 \in 1 .. l /\ s[j + 1] = "&"
    BY <1>1, <1>10 DEF At
  <2>2. i <= j + 1 /\ j + 1 <= k
    BY <1>2, <1>4
  <2>3. PICK n \in 1 .. l : n = j + 1
    BY <2>1
  <2>4. n - lo \in DOMAIN t /\ t[n - lo] = s[n]
    BY <1>8, <2>2, <2>3, Zenon
  <2>5. n - lo = j - lo + 1
    BY <1>2, <2>3
  <2>6. j - lo + 1 \in DOMAIN t /\ t[j - lo + 1] = "&"
    BY <2>1, <2>3, <2>4, <2>5, Zenon
  <2> QED
    BY <2>6, Zenon DEF At
<1>11. ASSUME At(s, j - 1, {"&"})  PROVE j - 1 - lo \in DOMAIN t /\ t[j - 1 - lo] = "&"
  <2>1. j - 1 \in 1 .. l /\ s[j - 1] = "&"
    BY <1>1, <1>11 DEF At
  <2>2. i <= j - 1 /\ j - 1 <= k
    BY <1>2, <1>4
  <2> QED
    BY <1>8, <2>1, <2>2
<1> QED
  BY <1>2, <1>9, <1>10, <1>11

Begun(s) == \E p \in AllowShellPrefixes \union ExtraPrefixes : IsPrefix(p, Strip(s))

\* What run_shell accepts is one command in the foreground, and run_command
\* accepts it too.
LEMMA ShellAccepted ==
  ASSUME NEW s \in Seq(Text), CheckShellCommand(s)
  PROVE  /\ Breaks(s) = {} /\ ~Uses(s, {";", "|", "&", ">", "<"}) /\ Begun(s)
         /\ ~Denied(Strip(s)) /\ CheckRunCommand(s)
<1>1. PICK cmd : cmd = Strip(s)
  OBVIOUS
<1>2. cmd # <<>> /\ ~Denied(cmd) /\ ~Uses(cmd, ShellMeta) /\ Begun(s)
  BY <1>1, Zenon DEF CheckShellCommand, Begun
<1>3. Core(cmd, s, Blanks) /\ cmd \in Seq(Text)
  BY <1>1, StripFacts DEF Core
<1>4. ASSUME NEW j \in Breaks(s)  PROVE FALSE
  <2>1. s[j] \in Separators /\ \E lo \in Int : j - lo \in DOMAIN cmd /\ cmd[j - lo] = s[j]
    <3>1. Blanks \subseteq Aside
      BY DEF Aside
    <3> QED
      BY <1>3, <3>1, BreaksInside
  <2>2. Uses(cmd, ShellMeta)
    BY <2>1, Characters, Zenon DEF Uses
  <2> QED
    BY <1>2, <2>2
<1>5. ~Uses(s, {";", "|", "&", ">", "<"})
  <2>1. Uses(s, {";", "|", "&", ">", "<"}) => Uses(cmd, {";", "|", "&", ">", "<"})
    BY <1>3, Characters, UsesSeen, Zenon
  <2>2. ~Uses(cmd, {";", "|", "&", ">", "<"})
    BY <1>2, Characters, Zenon DEF Uses
  <2> QED
    BY <2>1, <2>2
<1>6. ~Chains(WithoutBackground(cmd))
  <2> SUFFICES ASSUME Chains(WithoutBackground(cmd))  PROVE FALSE
    OBVIOUS
  <2>1. Uses(cmd, Separators)
    BY <1>3, BackgroundFacts, ChainsUse, UsesKept
  <2>2. Uses(cmd, ShellMeta)
    BY <2>1, Characters, Zenon DEF Uses
  <2> QED
    BY <1>2, <2>2
<1>7. CheckRunCommand(s)
  BY <1>1, <1>2, <1>6, Zenon DEF CheckRunCommand
<1> QED
  BY <1>1, <1>2, <1>4, <1>5, <1>7

\* What run_shell refuses is not such a command, or a pattern matches it.
LEMMA ShellRefused ==
  ASSUME NEW s \in Seq(Text), ~CheckShellCommand(s), Strip(s) # <<>>, ~Denied(Strip(s)),
         Breaks(s) = {}, Begun(s)
  PROVE  Uses(s, {";", "|", "&", ">", "<"})
<1> SUFFICES ASSUME ~Uses(s, {";", "|", "&", ">", "<"})  PROVE FALSE
  OBVIOUS
<1>1. PICK cmd : cmd = Strip(s)
  OBVIOUS
<1>2. Uses(cmd, ShellMeta)
  BY <1>1, Zenon DEF CheckShellCommand, Begun
<1>3. /\ Core(cmd, s, Blanks) /\ Len(cmd) \in Nat \ {0}
      /\ cmd[1] \notin Blanks /\ cmd[Len(cmd)] \notin Blanks
  BY <1>1, StripFacts
<1>4. PICK lo, hi : Part(cmd, s, lo, hi, Blanks)
  BY <1>3 DEF Core
<1>5. PICK l \in Nat : l = Len(s) /\ DOMAIN s = 1 .. l
  BY LenProperties
<1>6. cmd \in Seq(Text) /\ cmd # <<>> /\ DOMAIN cmd = 1 .. Len(cmd)
  BY <1>1, <1>3, LenProperties DEF Core
<1>7. /\ lo \in 1 .. l /\ hi \in 1 .. l
      /\ cmd[1] = s[lo] /\ cmd[Len(cmd)] = s[hi]
      /\ \A k \in 1 .. Len(cmd) :
           /\ lo + k - 1 \in 1 .. l /\ cmd[k] = s[lo + k - 1]
           /\ k # 1 /\ k # Len(cmd) => lo < lo + k - 1 /\ lo + k - 1 < hi
  <2>1. /\ lo \in 1 .. Len(s) /\ hi \in 1 .. Len(s)
        /\ cmd[1] = s[lo] /\ cmd[Len(cmd)] = s[hi]
        /\ \A k \in 1 .. Len(cmd) :
             /\ lo + k - 1 \in 1 .. Len(s) /\ cmd[k] = s[lo + k - 1]
             /\ k # 1 /\ k # Len(cmd) => lo < lo + k - 1 /\ lo + k - 1 < hi
    BY <1>4, <1>6, PartFacts, Zenon
  <2> QED
    BY <1>5, <2>1, Zenon
<1>8. PICK k \in 1 .. Len(cmd) : cmd[k] \in ShellMeta
  BY <1>2, <1>6, Zenon DEF Uses
<1>9. lo + k - 1 \in 1 .. l /\ cmd[k] = s[lo + k - 1]
  BY <1>7, Zenon
<1>10. \A j \in 1 .. l : s[j] \notin {";", "|", "&", ">", "<"}
  BY <1>5, Zenon DEF Uses
<1>11. cmd[k] = "\n"
  BY <1>8, <1>9, <1>10, Characters, Zenon
<1>12. k # 1 /\ k # Len(cmd)
  <2>1. "\n" \in Blanks
    BY DEF Blanks
  <2> QED
    BY <1>3, <1>11, <2>1, Zenon
<1>13. lo < lo + k - 1 /\ lo + k - 1 < hi
  BY <1>7, <1>12, Zenon
<1>14. {s[lo], s[hi]} \intersect (Separators \union Blanks) = {}
  <2>1. s[lo] \notin Blanks /\ s[hi] \notin Blanks
    BY <1>3, <1>7, Zenon
  <2>2. s[lo] \notin Separators /\ s[hi] \notin Separators
    BY <1>7, <1>10, <2>1, Characters, Zenon
  <2> QED
    BY <2>1, <2>2, Zenon
<1>15. lo + k - 1 \in Breaks(s)
  BY <1>5, <1>7, <1>9, <1>11, <1>13, <1>14, Characters, Zenon DEF Breaks
<1> QED
  BY <1>15

\* In what run_command accepts, only a single "&" stands between two pieces.
LEMMA CommandAccepted ==
  ASSUME NEW s \in Seq(Text), CheckRunCommand(s), NEW j \in Breaks(s)
  PROVE  s[j] = "&" /\ ~At(s, j - 1, {"&"}) /\ ~At(s, j + 1, {"&"})
<1>1. PICK cmd : cmd = Strip(s)
  OBVIOUS
<1>2. PICK t : t = WithoutBackground(cmd)
  OBVIOUS
<1>3. ~Chains(t)
  BY <1>1, <1>2, Zenon DEF CheckRunCommand
<1>4. Core(t, s, Aside)
  <2>1. Core(cmd, s, Blanks) /\ cmd \in Seq(Text)
    BY <1>1, StripFacts DEF Core
  <2>2. Blanks \subseteq Aside
    BY DEF Aside
  <2>3. Core(cmd, s, Aside)
    BY <2>1, <2>2, CoreMonotone
  <2>4. Core(t, cmd, Aside)
    BY <1>2, <2>1, BackgroundFacts
  <2> QED
    BY <2>3, <2>4, CoreOfCore
<1>5. s[j] \in Separators /\ j \in Int
  BY <1>4, BreaksInside
<1>6. PICK lo \in Int :
        /\ j - lo \in DOMAIN t /\ t[j - lo] = s[j]
        /\ At(s, j + 1, {"&"}) => At(t, j - lo + 1, {"&"})
        /\ At(s, j - 1, {"&"}) => j - 1 - lo \in DOMAIN t /\ t[j - 1 - lo] = "&"
  BY <1>4, BreaksInside
<1>7. s[j] = "&"
  BY <1>3, <1>5, <1>6, ChainsFacts, Characters, Zenon DEF Uses
<1>8. ~At(s, j + 1, {"&"})
  BY <1>3, <1>6, <1>7, ChainsFacts, Zenon
<1>9. ~At(s, j - 1, {"&"})
  <2> SUFFICES ASSUME At(s, j - 1, {"&"})  PROVE FALSE
    OBVIOUS
  <2>1. j - 1 - lo \in DOMAIN t /\ t[j - 1 - lo] = "&"
    BY <1>6
  <2>2. (j - 1 - lo) + 1 = j - lo
    BY <1>5
  <2>3. At(t, (j - 1 - lo) + 1, {"&"})
    BY <1>6, <1>7, <2>2 DEF At
  <2> QED
    BY <1>3, <2>1, <2>3, ChainsFacts, Zenon
<1> QED
  BY <1>7, <1>8, <1>9

\* run_command refuses nothing but lines that use a separator, if no pattern
\* matches.
LEMMA CommandRefused ==
  ASSUME NEW s \in Seq(Text), ~CheckRunCommand(s), Strip(s) # <<>>, ~Denied(Strip(s))
  PROVE  Uses(Strip(s), Separators)
<1>1. PICK cmd : cmd = Strip(s)
  OBVIOUS
<1>2. cmd \in Seq(Text)
  BY <1>1, StripFacts DEF Core
<1>3. Chains(WithoutBackground(cmd))
  BY <1>1, Zenon DEF CheckRunCommand
<1>4. Uses(cmd, Separators)
  BY <1>2, <1>3, BackgroundFacts, ChainsUse, UsesKept
<1> QED
  BY <1>1, <1>4

-----------------------------------------------------------------------------
(* Ranges of flash                                                         *)

LEMMA Division ==
  ASSUME NEW x \in Int, NEW d \in Nat \ {0}
  PROVE  x \div d \in Int /\ (x \div d) * d <= x /\ x < (x \div d + 1) * d
OBVIOUS

LEMMA TimesMonotone ==
  ASSUME NEW m \in Int, NEW n \in Int, NEW d \in Nat, m <= n
  PROVE  m * d <= n * d
OBVIOUS

\* a range overlaps the n-th piece of length d exactly if n is between the
\* pieces of its first and of its last element
LEMMA Pieces ==
  ASSUME NEW first \in Int, NEW last \in Int, first <= last,
         NEW d \in Nat \ {0}, NEW n \in Int
  PROVE  n \in (first \div d) .. (last \div d) <=>
           \E x \in first .. last : n * d <= x /\ x < (n + 1) * d
<1> DEFINE lo == first \div d
           hi == last \div d
<1>1. lo \in Int /\ lo * d <= first /\ first < (lo + 1) * d
  BY Division
<1>2. hi \in Int /\ hi * d <= last /\ last < (hi + 1) * d
  BY Division
<1>3. n * d \in Int /\ (n + 1) * d = n * d + d /\ n + 1 \in Int /\ d \in Nat /\ d > 0
  OBVIOUS
<1> HIDE DEF lo, hi
<1>4. ASSUME n \in lo .. hi
      PROVE  \E x \in first .. last : n * d <= x /\ x < (n + 1) * d
  <2>1. n * d <= last
    <3>1. n * d <= hi * d
      BY <1>2, <1>4, <1>3, TimesMonotone
    <3> QED BY <1>2, <1>3, <3>1
  <2>2. first < (n + 1) * d
    <3>1. (lo + 1) * d <= (n + 1) * d
      BY <1>1, <1>4, <1>3, TimesMonotone
    <3> QED BY <1>1, <1>3, <3>1
  <2>3. CASE first <= n * d
    <3>1. n * d \in first .. last
      BY <1>3, <2>1, <2>3
    <3>2. n * d <= n * d /\ n * d < (n + 1) * d
      BY <1>3
    <3> QED BY <3>1, <3>2
  <2>4. CASE n * d < first
    BY <1>3, <2>2, <2>4
  <2> QED BY <1>3, <2>3, <2>4
<1>5. ASSUME NEW x \in first .. last, n * d <= x, x < (n + 1) * d
      PROVE  n \in lo .. hi
  <2>1. n <= hi
    <3>1. SUFFICES ASSUME hi + 1 <= n  PROVE FALSE
      BY <1>2
    <3>2. (hi + 1) * d <= n * d
      BY <1>2, <1>3, <3>1, TimesMonotone
    <3> QED BY <1>2, <1>3, <1>5, <3>2
  <2>2. lo <= n
    <3>1. SUFFICES ASSUME n + 1 <= lo  PROVE FALSE
      BY <1>1
    <3>2. (n + 1) * d <= lo * d
      BY <1>1, <1>3, <3>1, TimesMonotone
    <3> QED BY <1>1, <1>3, <1>5, <3>2
  <2> QED BY <1>1, <1>2, <2>1, <2>2
<1>6. n \in lo .. hi <=> \E x \in first .. last : n * d <= x /\ x < (n + 1) * d
  BY <1>4, <1>5
<1> QED BY <1>6 DEF lo, hi

\* what EraseCoversRange calls the sector with the number n
Sector(n) == FlashStart + n * SectorSize .. FlashStart + (n + 1) * SectorSize - 1

LEMMA SectorsOverlap ==
  ASSUME NEW addr \in Int, NEW size \in Nat \ {0}, NEW n \in Int
  PROVE  n \in Sectors(addr, size) <=>
           Sector(n) \intersect (addr .. addr + size - 1) # {}
<1> DEFINE first == addr - FlashStart
           last == addr + size - 1 - FlashStart
<1>1. /\ FlashStart \in Int /\ SectorSize \in Nat \ {0}
      /\ n * SectorSize \in Int /\ (n + 1) * SectorSize \in Int
  BY FlashAssumption
<1>2. first \in Int /\ last \in Int /\ first <= last
  BY <1>1
<1>3. n \in Sectors(addr, size) <=> n \in (first \div SectorSize) .. (last \div SectorSize)
  BY DEF Sectors
<1>4. n \in (first \div SectorSize) .. (last \div SectorSize) <=>
        \E x \in first .. last : n * SectorSize <= x /\ x < (n + 1) * SectorSize
  BY <1>1, <1>2, Pieces
<1>5. ASSUME NEW x \in first .. last, n * SectorSize <= x, x < (n + 1) * SectorSize
      PROVE  x + FlashStart \in Sector(n) \intersect (addr .. addr + size - 1)
  BY <1>1, <1>5 DEF Sector
<1>6. ASSUME NEW y \in Sector(n) \intersect (addr .. addr + size - 1)
      PROVE  /\ y - FlashStart \in first .. last
             /\ n * SectorSize <= y - FlashStart /\ y - FlashStart < (n + 1) * SectorSize
  BY <1>1, <1>6 DEF Sector
<1> QED BY <1>3, <1>4, <1>5, <1>6

\* no sector of a range below AddrMax has a number outside of this range
LEMMA SectorsBounded ==
  ASSUME NEW addr \in Int, NEW size \in Nat \ {0}, addr >= 0, addr + size <= AddrMax + 1
  PROVE  Sectors(addr, size) \subseteq -AddrMax - 1 .. AddrMax + 1
<1> DEFINE lo == (addr - FlashStart) \div SectorSize
           hi == (addr + size - 1 - FlashStart) \div SectorSize
<1>1. FlashStart \in 0 .. AddrMax /\ AddrMax \in Nat /\ SectorSize \in Nat \ {0}
  BY FlashAssumption
<1>2. lo \in Int /\ addr - FlashStart < (lo + 1) * SectorSize
  BY <1>1, Division
<1>3. hi \in Int /\ hi * SectorSize <= addr + size - 1 - FlashStart
  BY <1>1, Division
<1> HIDE DEF lo, hi
<1>4. -AddrMax - 1 <= lo
  <2>1. SUFFICES ASSUME lo + 1 <= -AddrMax - 1  PROVE FALSE
    BY <1>1, <1>2
  <2>2. (lo + 1) * SectorSize <= (-AddrMax - 1) * SectorSize
    BY <1>1, <1>2, <2>1, TimesMonotone
  <2>3. (-AddrMax - 1) * SectorSize <= -AddrMax - 1
    BY <1>1
  <2> QED BY <1>1, <1>2, <2>2, <2>3
<1>5. hi <= AddrMax + 1
  <2>1. SUFFICES ASSUME AddrMax + 1 <= hi  PROVE FALSE
    BY <1>1, <1>3
  <2>2. (AddrMax + 1) * SectorSize <= hi * SectorSize
    BY <1>1, <1>3, <2>1, TimesMonotone
  <2>3. AddrMax + 1 <= (AddrMax + 1) * SectorSize
    BY <1>1
  <2> QED BY <1>1, <1>3, <2>2, <2>3
<1> QED BY <1>1, <1>2, <1>3, <1>4, <1>5 DEF Sectors, lo, hi

\* an erase that is checked, with both of its arguments
LEMMA EraseChecked ==
  ASSUME NEW addr \in Int, NEW size \in Int
  PROVE  /\ CheckErase(addr, size) =>
              /\ addr .. addr + size - 1 # {}
              /\ addr .. addr + size - 1 \subseteq 0 .. AddrMax
              /\ Sectors(addr, size) =
                   {n \in -AddrMax - 1 .. AddrMax + 1 :
                      Sector(n) \intersect (addr .. addr + size - 1) # {}}
         /\ ~CheckErase(addr, size) =>
              \/ addr .. addr + size - 1 = {}
              \/ ~(addr .. addr + size - 1 \subseteq 0 .. AddrMax)
              \/ AddrMax \in addr .. addr + size - 1
<1> DEFINE range == addr .. addr + size - 1
<1>1. AddrMax \in Nat /\ addr # None /\ size # None
  BY FlashAssumption
<1>2. CheckErase(addr, size) <=>
        addr \in 0 .. AddrMax /\ size > 0 /\ addr + size <= AddrMax
  BY <1>1 DEF CheckErase, CheckAddr
<1>3. ASSUME CheckErase(addr, size)
      PROVE  /\ range # {} /\ range \subseteq 0 .. AddrMax
             /\ Sectors(addr, size) =
                  {n \in -AddrMax - 1 .. AddrMax + 1 : Sector(n) \intersect range # {}}
  <2>1. addr \in 0 .. AddrMax /\ size \in Nat \ {0} /\ addr + size <= AddrMax
    BY <1>2, <1>3
  <2>2. addr \in range /\ range \subseteq 0 .. AddrMax
    BY <1>1, <2>1
  <2>3. Sectors(addr, size) \subseteq -AddrMax - 1 .. AddrMax + 1
    BY <1>1, <2>1, SectorsBounded
  <2>4. \A n \in -AddrMax - 1 .. AddrMax + 1 :
          n \in Sectors(addr, size) <=> Sector(n) \intersect range # {}
    BY <1>1, <2>1, SectorsOverlap
  <2> HIDE DEF range
  <2> QED BY <2>2, <2>3, <2>4
<1>4. ASSUME ~CheckErase(addr, size), range # {}, range \subseteq 0 .. AddrMax
      PROVE  AddrMax \in range
  <2>1. size > 0
    BY <1>4
  <2>2. addr \in range /\ addr + size - 1 \in range
    BY <2>1
  <2>3. addr \in 0 .. AddrMax /\ addr + size - 1 \in 0 .. AddrMax
    BY <1>4, <2>2
  <2> QED BY <1>1, <1>2, <1>4, <2>1, <2>3
<1> QED BY <1>3, <1>4
=============================================================================
