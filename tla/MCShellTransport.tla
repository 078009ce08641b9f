--------------------------- MODULE MCShellTransport ---------------------------
(* Small instances of ShellTransport for TLC: one call of any other tool   *)
(* while a second call runs a command.                                     *)
EXTENDS ShellTransport, TLC

CONSTANTS c1, c2

MCOffered == (c1 :> Tools \ {"command"}) @@ (c2 :> {"command"})
=============================================================================
