---------------------------- MODULE MCSerialPush ----------------------------
(* Small instances of SerialPush for TLC, and what a docstring of a tool   *)
(* says of it that the code does not do.                                   *)
EXTENDS SerialPush, TLC

\* writable.py:181: "Copy a file from the developer machine to the board.": a
\* push alone on its path reports OK only for a complete copy.
PushCopiesFile ==
  [][\A c \in Calls \ met :
       tool[c] = "push" /\ answer[c] # "ok" /\ answer'[c] = "ok"
         => disk'[path[c]] = File(c)]_vars
=============================================================================
