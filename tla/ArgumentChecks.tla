--------------------------- MODULE ArgumentChecks ---------------------------
(***************************************************************************)
(* What the tools check of their arguments before they do anything: paths  *)
(* and commands (safety.py, tools/readonly.py, tools/writable.py) and the  *)
(* range of an erase (tools/mcu.py), with the sectors that it erases       *)
(* (probes/pyocd.py).  A path is its path.split("/"), so that an absolute  *)
(* one begins with an empty segment.  A command line is cut into names, or *)
(* parts of them, and single other characters: "list-units" is "list", "-",*)
(* "units", and "dmesg2" is "dmesg", "2".  Pieces are as small as the lists*)
(* of prefixes and patterns tell them apart, so that str.startswith is the *)
(* prefix of a sequence.  "backquote" is the character of that name.       *)
(***************************************************************************)
EXTENDS Integers, Sequences, SequencesExt, FiniteSetsExt

CONSTANTS
  ExtraPrefixes,  \* BOARD_EXTRA_SHELL_PREFIXES
  AddrMax,        \* _ADDR_MAX
  FlashStart,     \* where the flash region starts
  SectorSize,     \* the size of its sectors
  None            \* an argument that is not given

ASSUME FlashAssumption ==
  /\ AddrMax \in Nat /\ FlashStart \in 0 .. AddrMax
  /\ SectorSize \in Nat \ {0}
  /\ None \notin Int

-----------------------------------------------------------------------------
(* Paths                                                                   *)

SysfsReadRoots ==
  {<<"", "sys", "class">>, <<"", "sys", "bus">>, <<"", "sys", "devices">>,
   <<"", "sys", "module">>, <<"", "sys", "kernel", "debug">>,
   <<"", "sys", "firmware", "devicetree">>, <<"", "proc", "device-tree">>}
ProcReadRoots == {<<"", "proc">>}
ListRoots == {<<"", d>> : d \in {"sys", "proc", "dev", "tmp", "var", "etc", "run"}}

\* Mutant: a root that nothing may read is added to the roots to write to.
WriteRootsDrifted ==
  {<<"", "sys", "class", "gpio">>, <<"", "sys", "class", "leds">>,
   <<"", "sys", "power">>, <<"", "sys", "bus", "iio", "devices">>,
   <<"", "sys", "kernel", "debug", "tracing">>}
SysfsWriteRoots ==
  {<<"", "sys", "class", "gpio">>, <<"", "sys", "class", "leds">>,
   <<"", "sys", "class", "pwm">>, <<"", "sys", "bus", "iio", "devices">>,
   <<"", "sys", "kernel", "debug", "tracing">>}

\* the string begins with the root and a slash
StartsWith(path, root) == IsStrictPrefix(root, path)

Absolute(path) == Len(path) > 1 /\ path[1] = ""
Control(path) == Contains(path, "\n")

\* Mutant: a path is only compared with the roots.
CheckPrefix(path, roots) ==
  /\ Absolute(path) /\ ~Control(path)
  /\ \E root \in roots : StartsWith(path, root)

CheckPath(path, roots) ==
  /\ Absolute(path)
  /\ ~Contains(path, "..")
  /\ ~Control(path)
  /\ \E root \in roots : StartsWith(path, root)

\* HIGH_RISK_SYSFS_FRAGMENTS, cut at their slashes like a path
HighRiskFragments ==
  {<<"", "efi", "">>, <<"", "efivars", "">>, <<"", "firmware", "efi">>, <<"", "fuse">>,
   <<"", "otp">>, <<"", "secure_boot">>, <<"", "cpufreq", "scaling_max_freq">>,
   <<"", "thermal_throttle">>, <<"watchdog", "disable">>}

\* a segment in lower case, and how it begins and ends; one name stands for
\* those in capitals, and a few for those that are longer than another
Lower(segment) == IF segment = "FUSE" THEN "fuse" ELSE segment
BeginsWith(segment, part) ==
  part \in {"", segment} \/ <<part, segment>> \in {<<"fuse", "fuses">>, <<"efi", "efivars">>}
EndsWith(segment, part) ==
  part \in {"", segment} \/ <<part, segment>> \in {<<"watchdog", "softwatchdog">>}

\* `frag in low`: the fragment's first segment may be the end of one of the
\* path's, and its last segment the beginning of one
Occurs(fragment, path, i) ==
  /\ i + Len(fragment) - 1 <= Len(path)
  /\ EndsWith(Lower(path[i]), fragment[1])
  /\ \A k \in 2 .. Len(fragment) - 1 : Lower(path[i + k - 1]) = fragment[k]
  /\ BeginsWith(Lower(path[i + Len(fragment) - 1]), fragment[Len(fragment)])
HighRisk(path) ==
  \E fragment \in HighRiskFragments : \E i \in DOMAIN path : Occurs(fragment, path, i)

\* Mutant: the fragments are forgotten.
CheckWriteRoot(path) == CheckPath(path, SysfsWriteRoots)
CheckSysfsWriteTarget(path) == CheckPath(path, SysfsWriteRoots) /\ ~HighRisk(path)

\* dump_devicetree puts what is given below a root, less its leading slashes
DeviceTree == <<"", "proc", "device-tree">>
DeviceTreeTarget(path) ==
  LET named == {i \in DOMAIN path : path[i] # ""}
  IN  IF path = <<"">> THEN DeviceTree
      ELSE IF named = {} THEN Append(DeviceTree, "")
      ELSE DeviceTree \o SubSeq(path, Min(named), Len(path))

GpioPath(file) == <<"", "sys", "class", "gpio", "gpioN", file>>
ExportPath == <<"", "sys", "class", "gpio", "export">>
CheckGpio(number) == number \in 0 .. 4096

-----------------------------------------------------------------------------
(* Commands                                                                *)

Blanks == {" ", "\n"}
\* what is no part of a name, as far as the checks look for it
Marks == {"-", "/", ";", "|", "&", ">", "<", "backquote", "$", "("}
\* is there more of a name at this place?
Name(cmd, i) == i \in DOMAIN cmd /\ cmd[i] \notin Blanks \union Marks
At(cmd, i, pieces) == i \in DOMAIN cmd /\ cmd[i] \in pieces

\* DENY_PATTERNS, where \b is a place at which a name begins or ends
Denied(cmd) ==
  \E i \in DOMAIN cmd :
    \/ /\ ~Name(cmd, i - 1)
       /\ \/ At(cmd, i, {"rm", "dd", "su"}) /\ At(cmd, i + 1, Blanks)
          \/ At(cmd, i, {"mkfs"})
          \/ /\ At(cmd, i, {"reboot", "poweroff", "shutdown", "halt", "rmmod", "insmod",
                            "modprobe", "fastboot", "fuse", "eval", "sudo"})
             /\ ~Name(cmd, i + 1)
    \/ At(cmd, i, {"backquote", "$"}) /\ At(cmd, i + 1, {"("})
    \/ /\ At(cmd, i, {">"})
       /\ \E k \in i + 1 .. Len(cmd) :
            cmd[k] = "/" /\ \A j \in i + 1 .. k - 1 : cmd[j] \in Blanks
    \/ At(cmd, i, {"-"}) /\ At(cmd, i + 1, {"exec", "delete"}) /\ ~Name(cmd, i + 2)
    \/ /\ At(cmd, i, {"-"}) /\ At(cmd, i + 1, {"-"})
       /\ \/ At(cmd, i + 2, {"vacuum"})
          \/ At(cmd, i + 2, {"rotate", "kill"}) /\ ~Name(cmd, i + 3)

\* str.strip()
Strip(cmd) ==
  LET solid == {i \in DOMAIN cmd : cmd[i] \notin Blanks}
  IN  IF solid = {} THEN <<>> ELSE SubSeq(cmd, Min(solid), Max(solid))
\* str.rstrip("&").rstrip(), of a line that does not begin with a blank
WithoutBackground(cmd) ==
  LET rest == {i \in DOMAIN cmd : cmd[i] # "&"}
  IN  IF rest = {} THEN <<>> ELSE Strip(SubSeq(cmd, 1, Max(rest)))

\* ALLOW_SHELL_PREFIXES: one for each way to end, with a name, with the second
\* of two, in the middle of a name, and in the middle of a path
AllowShellPrefixes ==
  {<<"dmesg">>, <<"systemctl", " ", "status">>, <<"systemctl", " ", "list", "-">>,
   <<"cat", " ", "/", "proc", "/">>}

\* Mutant: `&` is not looked for.
ShellMetaSeparators == {";", "|", ">", "<", "\n"}
\* "&&" and "||" are two of these
ShellMeta == {";", "|", "&", ">", "<", "\n"}
Uses(cmd, pieces) == \E i \in DOMAIN cmd : cmd[i] \in pieces

CheckShellCommand(given) ==
  LET cmd == Strip(given) IN
  /\ cmd # <<>>
  /\ ~Denied(cmd)
  /\ ~Uses(cmd, ShellMeta)
  /\ \E p \in AllowShellPrefixes \union ExtraPrefixes : IsPrefix(p, cmd)

\* Mutant: `&&` is taken for a `&`.
ChainsUnlessAnd(cmd) == Uses(cmd, {";", "|", "\n"})
\* run_command looks for "&&" but not for "&"
Chains(cmd) ==
  \/ Uses(cmd, {";", "|", "\n"})
  \/ \E i \in DOMAIN cmd : cmd[i] = "&" /\ At(cmd, i + 1, {"&"})

CheckRunCommand(given) ==
  LET cmd == Strip(given) IN
  /\ cmd # <<>>
  /\ ~Denied(cmd)
  /\ ~Chains(WithoutBackground(cmd))

-----------------------------------------------------------------------------
(* Ranges of flash                                                         *)

CheckAddr(addr) == addr # None /\ addr \in 0 .. AddrMax

\* neither, for a mass erase, or both
CheckErase(addr, size) ==
  \/ addr = None /\ size = None
  \/ /\ CheckAddr(addr)
     /\ size # None /\ size > 0
     /\ addr + size <= AddrMax

\* Mutant: the last sector is the one that the end of the range is in.
SectorsToEnd(addr, size) ==
  ((addr - FlashStart) \div SectorSize) .. ((addr + size - FlashStart) \div SectorSize)
\* the sectors that PyOCDProbe.erase erases, numbered from the flash's start
Sectors(addr, size) ==
  ((addr - FlashStart) \div SectorSize) .. ((addr + size - 1 - FlashStart) \div SectorSize)
=============================================================================
