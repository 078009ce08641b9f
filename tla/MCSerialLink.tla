---------------------------- MODULE MCSerialLink ----------------------------
(* Small instances of SerialLink for TLC, and what a comment of the code   *)
(* says of it that the code does not do.                                   *)
EXTENDS SerialLink, TLC

\* success, and a failure whose status is printed with two digits
MCCodes == {<<0>>, <<1, 2>>}

Interchangeable == Permutations(Cmds)

\* serial.py:4: "Each command is suffixed with a unique end marker so we know
\* when output is complete": the exit status that ends it is complete.
ExitStatusComplete ==
  \A c \in Cmds : Succeeded(c) => result[c].code = status[c]
=============================================================================
