------------------------------- MODULE Server -------------------------------
(***************************************************************************)
(* Start-up (__main__.py, config.py, the factories, server.py): what the   *)
(* environment must say for the server to run, which tools it offers then  *)
(* and what they share; and how a tool call begins, with the checks of its *)
(* arguments.  What an accepted call goes on to do is in the other modules.*)
(***************************************************************************)
EXTENDS ArgumentChecks

CONSTANTS
  Environments,  \* what the environment variables may say
  Requests       \* tool calls, [tool |-> ..., arg |-> ...]

Transports == {"ssh", "adb-usb", "adb-wifi", "serial", "none"}

\* serial_port and wifi_host: is it set; numbers: can the others be parsed
EnvironmentType ==
  [transport : Transports \union {"other"}, serial_port : BOOLEAN,
   wifi_host : BOOLEAN, probe_type : {"", "pyocd", "other"}, numbers : BOOLEAN]

ASSUME ServerAssumption ==
  /\ Environments \subseteq EnvironmentType
  /\ None # "transport" /\ None \notin Requests
  /\ \A r \in Requests :
       /\ r.tool = "mcu_erase" => r.arg \in (Int \union {None}) \X (Int \union {None})
       /\ r.tool \in {"read_sysfs", "read_proc", "list_dir", "dump_devicetree",
                      "write_sysfs", "run_shell", "run_command"} => r.arg \in Seq(STRING)

VARIABLES
  env,       \* the environment
  phase,     \* how far main() is
  offered,   \* the tools registered so far
  backends,  \* objects built so far
  capture,   \* the transport that capture_serial uses, None without one
  shell,     \* the transport that the Linux tools use
  request,   \* the call whose arguments are checked, None if there is none
  verdict    \* "none", "accepted" or "rejected"

wiring == <<offered, backends, capture, shell>>
vars == <<env, phase, wiring, request, verdict>>

ReadOnly ==
  {"board_info", "read_dmesg", "read_sysfs", "read_proc", "list_dir", "lsmod",
   "modinfo", "read_gpio", "read_iio", "dump_devicetree", "run_shell", "adb_devices"}
Writable ==
  {"install_module", "remove_module", "write_sysfs", "set_gpio", "export_gpio",
   "reboot_board", "run_command", "pull_file", "push_file"}
McuTools ==
  {"mcu_chip_info", "mcu_read_mem", "mcu_write_mem", "mcu_read_reg", "mcu_write_reg",
   "mcu_reset", "mcu_halt", "mcu_resume", "mcu_flash", "mcu_erase"}
Phases == {"configure", "connect", "capture", "linux", "mcu", "serving",
           "config error", "crashed"}

TypeOK ==
  /\ env \in Environments
  /\ phase \in Phases
  /\ offered \subseteq ReadOnly \union Writable \union McuTools \union {"capture_serial"}
  /\ backends \subseteq {"transport", "probe"}
  /\ capture \in {None, "transport"} /\ shell \in {None, "transport"}
  /\ (request = None) <=> (verdict = "none")
  /\ request # None => phase = "serving" /\ request.tool \in offered

Init ==
  /\ env \in Environments
  /\ phase = "configure"
  /\ offered = {} /\ backends = {}
  /\ capture = None /\ shell = None
  /\ request = None /\ verdict = "none"

-----------------------------------------------------------------------------
Goto(p) == phase' = p /\ UNCHANGED <<env, request, verdict>>

\* Mutant: an empty BOARD_SERIAL_PORT passes for one.
ConfigOkAnyPort == env.transport # "other" /\ env.numbers
ConfigOk ==
  /\ env.transport # "other"
  /\ env.transport = "serial" => env.serial_port
  /\ env.numbers

\* Config.from_env; main() returns 2 for its ValueError
FromEnv ==
  /\ phase = "configure"
  /\ Goto(IF ConfigOk THEN "connect" ELSE "config error")
  /\ UNCHANGED wiring

\* the missing wifi host is noticed here, where nothing catches the ValueError
BuildTransport ==
  /\ phase = "connect"
  /\ IF env.transport = "adb-wifi" /\ ~env.wifi_host
     THEN Goto("crashed") /\ UNCHANGED backends
     ELSE /\ Goto("capture")
          /\ backends' = IF env.transport = "none" THEN {} ELSE {"transport"}
  /\ UNCHANGED <<offered, capture, shell>>

BuiltTransport == IF "transport" \in backends THEN "transport" ELSE None

\* Mutant: capture_serial is left out of the sharing of the transport.
RegisterCaptureAlone ==
  /\ phase = "capture"
  /\ offered' = IF env.serial_port THEN {"capture_serial"} ELSE {}
  /\ Goto("linux")
  /\ UNCHANGED <<backends, shell, capture>>

RegisterCapture ==
  /\ phase = "capture"
  /\ IF env.serial_port
     THEN offered' = {"capture_serial"} /\ capture' = BuiltTransport
     ELSE UNCHANGED <<offered, capture>>
  /\ Goto("linux")
  /\ UNCHANGED <<backends, shell>>

RegisterLinuxTools ==
  /\ phase = "linux"
  /\ shell' = BuiltTransport
  /\ offered' = offered \union (IF shell' = None THEN {} ELSE ReadOnly \union Writable)
  /\ Goto("mcu")
  /\ UNCHANGED <<backends, capture>>

\* an unknown probe type counts as none
RegisterMcuTools ==
  /\ phase = "mcu"
  /\ IF env.probe_type = "pyocd"
     THEN /\ offered' = offered \union McuTools
          /\ backends' = backends \union {"probe"}
     ELSE UNCHANGED <<offered, backends>>
  /\ Goto("serving")
  /\ UNCHANGED <<capture, shell>>

-----------------------------------------------------------------------------
Accepts(tool, arg) ==
  \/ tool = "read_sysfs" /\ CheckPath(arg, SysfsReadRoots)
  \/ tool = "read_proc" /\ CheckPath(arg, ProcReadRoots)
  \/ tool = "list_dir" /\ CheckPath(arg, ListRoots)
  \/ /\ tool = "dump_devicetree"
     /\ arg = <<"">> \/ CheckPath(DeviceTreeTarget(arg), {DeviceTree})
  \/ tool = "write_sysfs" /\ CheckSysfsWriteTarget(arg)
  \/ tool = "read_gpio" /\ CheckGpio(arg) /\ CheckPath(GpioPath("value"), SysfsReadRoots)
  \/ tool = "set_gpio" /\ CheckGpio(arg) /\ CheckSysfsWriteTarget(GpioPath("value"))
  \/ /\ tool = "export_gpio" /\ CheckGpio(arg)
     /\ CheckSysfsWriteTarget(ExportPath)
     /\ CheckSysfsWriteTarget(GpioPath("direction"))
  \/ tool = "run_shell" /\ CheckShellCommand(arg)
  \/ tool = "run_command" /\ CheckRunCommand(arg)
  \/ tool = "mcu_erase" /\ CheckErase(arg[1], arg[2])

Call ==
  /\ phase = "serving"
  /\ request = None
  /\ \E r \in Requests :
       /\ r.tool \in offered
       /\ request' = r
       /\ verdict' = IF Accepts(r.tool, r.arg) THEN "accepted" ELSE "rejected"
  /\ UNCHANGED <<env, phase, wiring>>

\* Mutant: what was found about one call is kept for the next one.
ReturnKeepsVerdict ==
  /\ request # None
  /\ request' = None
  /\ UNCHANGED <<env, phase, wiring, verdict>>

Return ==
  /\ request # None
  /\ request' = None /\ verdict' = "none"
  /\ UNCHANGED <<env, phase, wiring>>

Next ==
  \/ FromEnv \/ BuildTransport
  \/ RegisterCapture \/ RegisterLinuxTools \/ RegisterMcuTools
  \/ Call \/ Return

Spec == Init /\ [][Next]_vars

-----------------------------------------------------------------------------
(* Properties                                                              *)

\* A tool is offered only with what it needs to reach the target: the shell
\* tools a transport whose address is configured, the MCU tools a probe, and
\* capture_serial a port.
ToolsHaveBackend ==
  /\ offered \intersect (ReadOnly \union Writable) # {} =>
       /\ shell \in backends
       /\ env.transport = "serial" => env.serial_port
       /\ env.transport = "adb-wifi" => env.wifi_host
  /\ offered \intersect McuTools # {} => "probe" \in backends
  /\ "capture_serial" \in offered => env.serial_port

\* While shell tools talk over the serial port, capture_serial knows the very
\* transport that has it open, and can make it give the port up.
CaptureSharesPort ==
  phase = "serving" /\ env.transport = "serial" =>
    "capture_serial" \in offered /\ shell # None /\ capture = shell

Accepted(tool) == verdict = "accepted" /\ request.tool = tool

\* What is left of a path when its empty segments, "." and ".." are worked out
\* in the text of it.  That is the file which it denotes, unless a symbolic link
\* is on the way: none are followed here, as none are in safety.py.
Walk(dir, segment) ==
  IF segment \in {"", "."} THEN dir
  ELSE IF segment # ".." THEN Append(dir, segment)
  ELSE IF dir = <<>> THEN dir ELSE Front(dir)
Normalised(path) ==
  LET dir[n \in 0 .. Len(path)] == IF n = 0 THEN <<>> ELSE Walk(dir[n - 1], path[n])
  IN  dir[Len(path)]
Inside(path, roots) == \E root \in roots : IsPrefix(Normalised(root), Normalised(path))

\* high-risk fragments that are, or begin, the name of one file
OneName(fragment) ==
  fragment[1] = "" /\ (Len(fragment) = 2 \/ (Len(fragment) = 3 /\ fragment[3] = ""))

\* The text of a path that is accepted names something below the roots of its
\* tool, however it is spelled; and one that is written to has no high-risk
\* name in any spelling.  Of fragments that take two names ("watchdog/disable")
\* the second part says nothing: they are found only in paths that have no
\* empty or "." segment between the two.
AcceptedInside ==
  /\ Accepted("read_sysfs") => Inside(request.arg, SysfsReadRoots)
  /\ Accepted("read_proc") => Inside(request.arg, ProcReadRoots)
  /\ Accepted("list_dir") => Inside(request.arg, ListRoots)
  /\ Accepted("dump_devicetree") =>
       Inside(DeviceTreeTarget(request.arg), {DeviceTree})
  /\ Accepted("write_sysfs") =>
       /\ Inside(request.arg, SysfsWriteRoots)
       /\ LET path == <<"">> \o Normalised(request.arg)
          IN  \A f \in HighRiskFragments, i \in DOMAIN path : OneName(f) => ~Occurs(f, path, i)

\* What may be written may be read back, and a GPIO with a valid number is
\* never refused because of the paths its tools make up.
ListsAgree ==
  /\ Accepted("write_sysfs") => CheckPath(request.arg, SysfsReadRoots)
  /\ verdict = "rejected" /\ request.tool \in {"read_gpio", "set_gpio", "export_gpio"} =>
       request.arg \notin 0 .. 4096

\* the operators at which a shell ends one command of a line and begins another
Separators == {";", "|", "&", "\n"}
Breaks(line) ==
  {j \in DOMAIN line :
     /\ line[j] \in Separators
     /\ \E i, k \in DOMAIN line :
          i < j /\ j < k /\ {line[i], line[k]} \intersect (Separators \union Blanks) = {}}

\* run_shell accepts exactly the lines of one command in the foreground, without
\* a redirection, that begin like an allowed prefix and that no deny pattern
\* matches.  To begin like one is weaker than to be that command ("dmesg2"
\* begins like "dmesg"), and the patterns do not find a command between
\* backticks.
ShellLineLimited(line) ==
  LET single == /\ Breaks(line) = {}
                /\ ~Uses(line, {";", "|", "&", ">", "<"})
                /\ \E p \in AllowShellPrefixes \union ExtraPrefixes : IsPrefix(p, Strip(line))
  IN  /\ verdict = "accepted" => single /\ ~Denied(Strip(line))
      /\ verdict = "rejected" => ~single \/ Denied(Strip(line)) \/ Strip(line) = <<>>

\* run_command accepts no line in which a command waits for the end of another
\* or for its output: only a single `&`, which puts the first of two in the
\* background, may stand between two.  It refuses no line of a single command
\* but for its deny patterns.
CommandLineLimited(line) ==
  /\ verdict = "accepted" =>
       \A j \in Breaks(line) : line[j] = "&" /\ ~At(line, j - 1, {"&"}) /\ ~At(line, j + 1, {"&"})
  /\ verdict = "rejected" =>
       Strip(line) = <<>> \/ Denied(Strip(line)) \/ Uses(Strip(line), Separators)

\* What the two checks of a command line let through and what they refuse, read
\* as a shell reads the line; and run_command accepts what run_shell accepts.
LinesLimited ==
  verdict # "none" =>
    /\ request.tool = "run_shell" =>
         /\ ShellLineLimited(request.arg)
         /\ verdict = "accepted" => CheckRunCommand(request.arg)
    /\ request.tool = "run_command" => CommandLineLimited(request.arg)

\* An accepted erase stays in the address space and erases the sectors that
\* its range overlaps and no other; of the ranges inside the address space
\* only those up to its last byte are refused.
EraseCoversRange ==
  verdict # "none" /\ request.tool = "mcu_erase" /\ None \notin Range(request.arg) =>
    LET addr == request.arg[1]
        size == request.arg[2]
        range == addr .. addr + size - 1
        sector(n) == FlashStart + n * SectorSize .. FlashStart + (n + 1) * SectorSize - 1
    IN  /\ verdict = "accepted" =>
             /\ range # {} /\ range \subseteq 0 .. AddrMax
             /\ Sectors(addr, size) =
                  {n \in -AddrMax - 1 .. AddrMax + 1 : sector(n) \intersect range # {}}
        /\ verdict = "rejected" =>
             range = {} \/ ~(range \subseteq 0 .. AddrMax) \/ AddrMax \in range
=============================================================================
