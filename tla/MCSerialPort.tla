---------------------------- MODULE MCSerialPort ----------------------------
(* Small instances of SerialPort for TLC.                                  *)
EXTENDS SerialPort, TLC

Interchangeable == Permutations(Calls)

\* readonly.py:3: "Errors are returned as strings prefixed with `ERROR:`
\* rather than raised": no tool call ends with an exception.
ToolsNeverRaise == \A c \in Calls : answer[c] # "raised"
=============================================================================
