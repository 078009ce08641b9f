------------------------------ MODULE MCServer ------------------------------
(* A small instance of Server for TLC: every environment, and requests     *)
(* around the borders of what is accepted.                                 *)
EXTENDS Server

MCExtraPrefixes == {<<"tool">>}

\* the roots, what they are below, and their neighbours, with up to two
\* segments behind them
Bases ==
  SysfsReadRoots \union SysfsWriteRoots \union ProcReadRoots \union ListRoots
    \union {<<"">>, <<"sys", "class">>, <<"", "sys", "classes">>, <<"", "sys", "power">>,
            <<"", "sys", "class", "leds", "softwatchdog">>}
Tails == BoundedSeq({"", ".", "..", "gpio", "FUSE", "fuses", "efi", "disable", "\n"}, 2)
Paths == {b \o t : b \in Bases, t \in Tails}
PathTools == {"read_sysfs", "read_proc", "list_dir", "write_sysfs"}

\* lines of up to three fragments
Fragments ==
  {<<"dmesg">>, <<"systemctl", " ", "list", "-">>, <<"tool">>, <<"2">>, <<"rm">>, <<"reboot">>,
   <<"-", "delete">>, <<" ">>, <<"\n">>, <<";">>, <<"&">>, <<"&", "2">>, <<">">>, <<"/">>,
   <<"(">>, <<"backquote">>}
Lines == {FlattenSeq(fragments) : fragments \in BoundedSeq(Fragments, 3)}

MCRequests ==
  [tool : PathTools, arg : Paths]
    \union [tool : {"dump_devicetree"}, arg : {<<"">> \o t : t \in Tails} \union Tails]
    \union [tool : {"read_gpio", "set_gpio", "export_gpio"}, arg : {-1, 0, 4096, 4097}]
    \union [tool : {"run_shell", "run_command"}, arg : Lines]
    \union [tool : {"mcu_erase"}, arg : {<<None, None>>}
              \union (({None} \union -1 .. 12) \X ({None} \union 0 .. 13))]
=============================================================================
