----------------------------- MODULE ServerProofs -----------------------------
(***************************************************************************)
(* Proofs about Server: whatever the environment says, what is offered can *)
(* work and shares the transport; and whatever the memory map, an accepted *)
(* erase erases the sectors of its range.                                  *)
(***************************************************************************)
EXTENDS ArgumentProofs

LinuxTools == ReadOnly \union Writable
Started == {"capture", "linux", "mcu", "serving"}

\* what start-up has built, and from which environment, at each of its steps
WiringInv ==
  /\ phase \notin {"configure", "config error"} => ConfigOk
  /\ phase \notin Started => backends = {}
  /\ phase \in Started =>
       /\ env.transport = "adb-wifi" => env.wifi_host
       /\ env.transport # "none" => "transport" \in backends
  /\ phase \in {"linux", "mcu", "serving"} /\ env.serial_port =>
       "capture_serial" \in offered /\ capture = BuiltTransport
  /\ phase \in {"mcu", "serving"} => shell = BuiltTransport
  /\ phase \notin {"mcu", "serving"} => shell = None

\* what is offered is there for a reason
OfferedInv ==
  \A t \in offered :
    \/ t = "capture_serial" /\ env.serial_port
    \/ t \in LinuxTools /\ shell = "transport" /\ shell \in backends
    \/ t \in McuTools /\ "probe" \in backends

\* the verdict is about the call in progress
VerdictInv ==
  request # None =>
    /\ request \in Requests
    /\ verdict = IF Accepts(request.tool, request.arg) THEN "accepted" ELSE "rejected"

\* The inductive invariant
IInv == TypeOK /\ WiringInv /\ OfferedInv /\ VerdictInv

-----------------------------------------------------------------------------
(* The inductive invariant                                                 *)

LEMMA Disjoint ==
  /\ LinuxTools \intersect McuTools = {}
  /\ "capture_serial" \notin LinuxTools \union McuTools
BY DEF LinuxTools, ReadOnly, Writable, McuTools

LEMMA InitIInv == Init => IInv
<1> SUFFICES ASSUME Init  PROVE IInv
  OBVIOUS
<1>1. TypeOK
  BY DEF Init, TypeOK, Phases
<1>2. WiringInv
  BY DEF Init, WiringInv, Started
<1>3. OfferedInv /\ VerdictInv
  BY DEF Init, OfferedInv, VerdictInv
<1> QED BY <1>1, <1>2, <1>3 DEF IInv

LEMMA StepIInv == IInv /\ [Next]_vars => IInv'
<1> SUFFICES ASSUME IInv, [Next]_vars  PROVE IInv'
  OBVIOUS
<1> USE DEF IInv
<1>0. phase # "serving" => request = None
  BY DEF TypeOK
<1>1. CASE FromEnv
  <2>1. TypeOK'
    BY <1>1, <1>0 DEF FromEnv, Goto, wiring, TypeOK, Phases
  <2>2. WiringInv'
    BY <1>1 DEF FromEnv, Goto, wiring, WiringInv, Started, BuiltTransport, ConfigOk
  <2>3. OfferedInv' /\ VerdictInv'
    BY <1>1 DEF FromEnv, Goto, wiring, OfferedInv, VerdictInv
  <2> QED BY <2>1, <2>2, <2>3
<1>2. CASE BuildTransport
  <2>1. TypeOK'
    BY <1>2, <1>0 DEF BuildTransport, Goto, TypeOK, Phases
  <2>2. WiringInv'
    BY <1>2 DEF BuildTransport, Goto, WiringInv, Started, BuiltTransport, ConfigOk
  <2>3. OfferedInv' /\ VerdictInv'
    BY <1>2, ServerAssumption DEF BuildTransport, Goto, OfferedInv, VerdictInv, WiringInv, TypeOK, Started
  <2> QED BY <2>1, <2>2, <2>3
<1>3. CASE RegisterCapture
  <2>1. TypeOK'
    BY <1>3, <1>0 DEF RegisterCapture, Goto, TypeOK, Phases, BuiltTransport
  <2>2. WiringInv'
    BY <1>3 DEF RegisterCapture, Goto, WiringInv, Started, BuiltTransport, ConfigOk
  <2>3. OfferedInv' /\ VerdictInv'
    BY <1>3, ServerAssumption DEF RegisterCapture, Goto, OfferedInv, VerdictInv, WiringInv
  <2> QED BY <2>1, <2>2, <2>3
<1>4. CASE RegisterLinuxTools
  <2>1. TypeOK'
    BY <1>4, <1>0 DEF RegisterLinuxTools, Goto, TypeOK, Phases, BuiltTransport
  <2>2. WiringInv'
    <3>1. UNCHANGED <<env, backends, capture>> /\ phase = "linux" /\ phase' = "mcu"
      BY <1>4 DEF RegisterLinuxTools, Goto
    <3>2. offered \subseteq offered' /\ shell' = BuiltTransport
      BY <1>4 DEF RegisterLinuxTools
    <3> QED BY <3>1, <3>2 DEF WiringInv, Started, BuiltTransport, ConfigOk
  <2>3. OfferedInv' /\ VerdictInv'
    BY <1>4, ServerAssumption DEF RegisterLinuxTools, Goto, OfferedInv, VerdictInv, WiringInv,
       BuiltTransport, LinuxTools
  <2> QED BY <2>1, <2>2, <2>3
<1>5. CASE RegisterMcuTools
  <2>1. TypeOK'
    BY <1>5, <1>0 DEF RegisterMcuTools, Goto, TypeOK, Phases
  <2>2. WiringInv'
    BY <1>5 DEF RegisterMcuTools, Goto, WiringInv, Started, BuiltTransport, ConfigOk
  <2>3. OfferedInv' /\ VerdictInv'
    BY <1>5 DEF RegisterMcuTools, Goto, OfferedInv, VerdictInv
  <2> QED BY <2>1, <2>2, <2>3
<1>6. CASE Call
  <2>1. TypeOK' /\ VerdictInv'
    BY <1>6, ServerAssumption DEF Call, TypeOK, VerdictInv, wiring
  <2>2. WiringInv' /\ OfferedInv'
    BY <1>6 DEF Call, WiringInv, OfferedInv, wiring, BuiltTransport, ConfigOk
  <2> QED BY <2>1, <2>2
<1>7. CASE Return
  <2>1. TypeOK' /\ VerdictInv'
    BY <1>7 DEF Return, TypeOK, VerdictInv, wiring
  <2>2. WiringInv' /\ OfferedInv'
    BY <1>7 DEF Return, WiringInv, OfferedInv, wiring, BuiltTransport, ConfigOk
  <2> QED BY <2>1, <2>2
<1>8. CASE UNCHANGED vars
  BY <1>8 DEF vars, wiring, TypeOK, WiringInv, OfferedInv, VerdictInv, BuiltTransport, ConfigOk
<1> QED BY <1>1, <1>2, <1>3, <1>4, <1>5, <1>6, <1>7, <1>8 DEF Next

-----------------------------------------------------------------------------
(* Theorems                                                                *)

\* Start-up and the calls keep their wiring.
THEOREM Invariance == Spec => []IInv
BY InitIInv, StepIInv, PTL DEF Spec

\* Every variable keeps its type.
THEOREM TypeCorrect == Spec => []TypeOK
<1>1. IInv => TypeOK
  BY DEF IInv
<1> QED BY Invariance, <1>1, PTL

\* Every tool that is offered has what it needs, in every environment in which
\* main() gets as far as serving it (server.py, transports/__init__.py).
THEOREM OfferedWork == Spec => []ToolsHaveBackend
<1>1. IInv => ToolsHaveBackend
  <2> SUFFICES ASSUME IInv  PROVE ToolsHaveBackend
    OBVIOUS
  <2>1. ASSUME NEW t \in offered, t \in LinuxTools
        PROVE  /\ shell \in backends
               /\ env.transport = "serial" => env.serial_port
               /\ env.transport = "adb-wifi" => env.wifi_host
    BY <2>1, Disjoint, ServerAssumption DEF IInv, OfferedInv, WiringInv, BuiltTransport, Started, ConfigOk
  <2>2. ASSUME NEW t \in offered, t \in McuTools  PROVE "probe" \in backends
    BY <2>2, Disjoint DEF IInv, OfferedInv
  <2>3. "capture_serial" \in offered => env.serial_port
    BY Disjoint DEF IInv, OfferedInv
  <2> QED BY <2>1, <2>2, <2>3 DEF ToolsHaveBackend, LinuxTools
<1> QED BY Invariance, <1>1, PTL

\* With the shell tools on the serial port, capture_serial has their transport
\* (server.py).
THEOREM TransportShared == Spec => []CaptureSharesPort
<1>1. IInv => CaptureSharesPort
  BY ServerAssumption DEF IInv, WiringInv, CaptureSharesPort, BuiltTransport, Started, ConfigOk
<1> QED BY Invariance, <1>1, PTL

\* An accepted erase erases the sectors that its range overlaps and no other,
\* for every memory map (tools/mcu.py, probes/pyocd.py).
THEOREM EraseExact == Spec => []EraseCoversRange
<1>1. IInv => EraseCoversRange
  <2> SUFFICES ASSUME IInv, verdict # "none", request.tool = "mcu_erase",
                      None \notin Range(request.arg)
               PROVE  LET addr == request.arg[1]
                          size == request.arg[2]
                      IN  /\ verdict = "accepted" => CheckErase(addr, size)
                          /\ verdict = "rejected" => ~CheckErase(addr, size)
                          /\ addr \in Int /\ size \in Int
    BY EraseChecked DEF EraseCoversRange, Sector
  <2>1. request \in Requests
    BY DEF IInv, TypeOK, VerdictInv
  <2>2. request.arg \in (Int \union {None}) \X (Int \union {None})
    BY <2>1, ServerAssumption
  <2>3. request.arg[1] \in Int /\ request.arg[2] \in Int
    BY <2>2 DEF Range
  <2>4. Accepts(request.tool, request.arg) <=> CheckErase(request.arg[1], request.arg[2])
    BY DEF Accepts
  <2>5. verdict = IF Accepts(request.tool, request.arg) THEN "accepted" ELSE "rejected"
    BY DEF IInv, TypeOK, VerdictInv
  <2> QED BY <2>3, <2>4, <2>5
<1> QED BY Invariance, <1>1, PTL

\* The arguments of a call that is checked are of their types, and it is
\* accepted exactly if its checks say so.
LEMMA CallChecked ==
  ASSUME IInv, request # None
  PROVE  /\ verdict = "accepted" <=> Accepts(request.tool, request.arg)
         /\ verdict = "rejected" <=> ~Accepts(request.tool, request.arg)
         /\ request.tool \in {"read_sysfs", "read_proc", "list_dir", "dump_devicetree",
                              "write_sysfs", "run_shell", "run_command"} =>
              request.arg \in Seq(Text)
<1>1. request \in Requests
  BY DEF IInv, VerdictInv
<1>2. verdict = IF Accepts(request.tool, request.arg) THEN "accepted" ELSE "rejected"
  BY DEF IInv, VerdictInv
<1>3. ASSUME request.tool \in {"read_sysfs", "read_proc", "list_dir", "dump_devicetree",
                               "write_sysfs", "run_shell", "run_command"}
      PROVE  request.arg \in Seq(Text)
  <2>1. request.arg \in Seq(STRING)
    BY <1>1, <1>3, ServerAssumption
  <2> QED
    BY <2>1, TextSequence
<1> QED
  BY <1>2, <1>3

\* Whatever the path of a call is, the text of what is accepted names something
\* below the roots of its tool, and no name that is high-risk by itself, however
\* it is spelled, for a write (safety.py, tools/readonly.py, tools/writable.py).
THEOREM PathsInside == Spec => []AcceptedInside
<1>1. IInv => AcceptedInside
  <2> SUFFICES ASSUME IInv PROVE AcceptedInside
    OBVIOUS
  <2>0. verdict = "accepted" => request # None
    BY DEF IInv, TypeOK
  <2>1. ASSUME Accepted("read_sysfs") PROVE Inside(request.arg, SysfsReadRoots)
    <3>1. request.arg \in Seq(Text) /\ Accepts("read_sysfs", request.arg)
      BY <2>0, <2>1, CallChecked DEF Accepted
    <3>2. CheckPath(request.arg, SysfsReadRoots)
      BY <3>1 DEF Accepts
    <3> QED
      BY <3>1, <3>2, RootsTyped, CheckedInside
  <2>2. ASSUME Accepted("read_proc") PROVE Inside(request.arg, ProcReadRoots)
    <3>1. request.arg \in Seq(Text) /\ Accepts("read_proc", request.arg)
      BY <2>0, <2>2, CallChecked DEF Accepted
    <3>2. CheckPath(request.arg, ProcReadRoots)
      BY <3>1 DEF Accepts
    <3> QED
      BY <3>1, <3>2, RootsTyped, CheckedInside
  <2>3. ASSUME Accepted("list_dir") PROVE Inside(request.arg, ListRoots)
    <3>1. request.arg \in Seq(Text) /\ Accepts("list_dir", request.arg)
      BY <2>0, <2>3, CallChecked DEF Accepted
    <3>2. CheckPath(request.arg, ListRoots)
      BY <3>1 DEF Accepts
    <3> QED
      BY <3>1, <3>2, RootsTyped, CheckedInside
  <2>4. ASSUME Accepted("dump_devicetree")
        PROVE  Inside(DeviceTreeTarget(request.arg), {DeviceTree})
    <3>1. request.arg \in Seq(Text) /\ Accepts("dump_devicetree", request.arg)
      BY <2>0, <2>4, CallChecked DEF Accepted
    <3>2. request.arg = <<"">> \/ CheckPath(DeviceTreeTarget(request.arg), {DeviceTree})
      BY <3>1, Zenon DEF Accepts
    <3>3. ASSUME request.arg = <<"">> PROVE DeviceTreeTarget(request.arg) = DeviceTree
      BY <3>3, Zenon DEF DeviceTreeTarget
    <3>4. DeviceTreeTarget(request.arg) \in Seq(Text) /\ {DeviceTree} \subseteq Seq(Text)
      BY <3>1, TargetTyped, RootsTyped
    <3> QED
      BY <3>2, <3>3, <3>4, CheckedInside, WholeTree
  <2>5. ASSUME Accepted("write_sysfs")
        PROVE  /\ Inside(request.arg, SysfsWriteRoots)
               /\ LET path == <<"">> \o Normalised(request.arg)
                  IN  \A f \in HighRiskFragments, i \in DOMAIN path : OneName(f) => ~Occurs(f, path, i)
    <3>1. request.arg \in Seq(Text) /\ Accepts("write_sysfs", request.arg)
      BY <2>0, <2>5, CallChecked DEF Accepted
    <3>2. CheckSysfsWriteTarget(request.arg)
      BY <3>1 DEF Accepts
    <3>3. CheckPath(request.arg, SysfsWriteRoots)
      BY <3>2 DEF CheckSysfsWriteTarget
    <3>4. Inside(request.arg, SysfsWriteRoots)
      BY <3>1, <3>3, RootsTyped, CheckedInside
    <3> QED
      BY <3>1, <3>2, <3>4, CheckedTarget, Zenon
  <2> QED
    BY <2>1, <2>2, <2>3, <2>4, <2>5 DEF AcceptedInside
<1> QED BY Invariance, <1>1, PTL

\* What may be written may be read back, and the GPIO tools' own paths are
\* never the reason of a refusal (safety.py's two lists of roots).
THEOREM ListsFit == Spec => []ListsAgree
<1>1. IInv => ListsAgree
  <2> SUFFICES ASSUME IInv PROVE ListsAgree
    OBVIOUS
  <2>0. verdict \in {"accepted", "rejected"} => request # None
    BY DEF IInv, TypeOK
  <2>1. ASSUME Accepted("write_sysfs") PROVE CheckPath(request.arg, SysfsReadRoots)
    <3>1. request.arg \in Seq(Text) /\ Accepts("write_sysfs", request.arg)
      BY <2>0, <2>1, CallChecked DEF Accepted
    <3>2. CheckPath(request.arg, SysfsWriteRoots)
      BY <3>1 DEF Accepts, CheckSysfsWriteTarget
    <3> QED
      BY <3>1, <3>2, WriteBelowRead DEF CheckPath
  <2>2. ASSUME verdict = "rejected", request.tool \in {"read_gpio", "set_gpio", "export_gpio"}
        PROVE  request.arg \notin 0 .. 4096
    <3>1. ~Accepts(request.tool, request.arg)
      BY <2>0, <2>2, CallChecked
    <3>2. ~CheckGpio(request.arg)
      BY <2>2, <3>1, GpioPaths, Zenon DEF Accepts
    <3> QED
      BY <3>2 DEF CheckGpio
  <2> QED
    BY <2>1, <2>2 DEF ListsAgree
<1> QED BY Invariance, <1>1, PTL

\* Whatever the line and the extra prefixes, what the two checks let through
\* and what they refuse is limited by how a shell cuts the line (safety.py,
\* tools/writable.py).
THEOREM LinesChecked == Spec => []LinesLimited
<1>1. IInv => LinesLimited
  <2> SUFFICES ASSUME IInv, verdict # "none"
               PROVE  /\ request.tool = "run_shell" =>
                           /\ ShellLineLimited(request.arg)
                           /\ verdict = "accepted" => CheckRunCommand(request.arg)
                      /\ request.tool = "run_command" => CommandLineLimited(request.arg)
    BY Zenon DEF LinesLimited
  <2>1. request # None
    BY DEF IInv, TypeOK
  <2>2. ASSUME request.tool = "run_shell"
        PROVE  ShellLineLimited(request.arg) /\ (verdict = "accepted" => CheckRunCommand(request.arg))
    <3>1. PICK line \in Seq(Text) : line = request.arg
      BY <2>1, <2>2, CallChecked
    <3>2. verdict = "accepted" => CheckShellCommand(line)
      BY <2>1, <2>2, <3>1, CallChecked DEF Accepts
    <3>3. verdict = "rejected" => ~CheckShellCommand(line)
      BY <2>1, <2>2, <3>1, CallChecked, Zenon DEF Accepts
    <3>4. ASSUME verdict = "accepted"
          PROVE  /\ Breaks(line) = {} /\ ~Uses(line, {";", "|", "&", ">", "<"}) /\ Begun(line)
                 /\ ~Denied(Strip(line)) /\ CheckRunCommand(line)
      BY <3>2, <3>4, ShellAccepted, Zenon
    <3>5. ASSUME verdict = "rejected", Breaks(line) = {}, Begun(line), ~Denied(Strip(line)),
                 Strip(line) # <<>>
          PROVE  Uses(line, {";", "|", "&", ">", "<"})
      BY <3>3, <3>5, ShellRefused, Zenon
    <3>6. ShellLineLimited(line)
      BY <3>4, <3>5, Zenon DEF ShellLineLimited, Begun
    <3> QED
      BY <3>1, <3>4, <3>6, Zenon
  <2>3. ASSUME request.tool = "run_command"
        PROVE  CommandLineLimited(request.arg)
    <3>1. PICK line \in Seq(Text) : line = request.arg
      BY <2>1, <2>3, CallChecked
    <3>2. verdict = "accepted" => CheckRunCommand(line)
      BY <2>1, <2>3, <3>1, CallChecked DEF Accepts
    <3>3. verdict = "rejected" => ~CheckRunCommand(line)
      BY <2>1, <2>3, <3>1, CallChecked, Zenon DEF Accepts
    <3>4. CommandLineLimited(line)
      BY <3>2, <3>3, CommandAccepted, CommandRefused, Zenon DEF CommandLineLimited
    <3> QED
      BY <3>1, <3>4, Zenon
  <2> QED
    BY <2>2, <2>3
<1> QED BY Invariance, <1>1, PTL
===============================================================================
