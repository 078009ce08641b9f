------------------------------ MODULE Transport ------------------------------
(***************************************************************************)
(* What the interface of transports/base.py leaves its users to rely on,   *)
(* for every request (run, push, pull) made through it: the board executes *)
(* it at most once, also after it was given up; an answer that reports     *)
(* success is true; any other says nothing, the request may have been      *)
(* executed or may still be.  This is the life of one request; the         *)
(* transports are shown to implement it for each of theirs.                *)
(***************************************************************************)

VARIABLES
  answer,   \* "new", "asked", or what the caller was told
  executed  \* what the board did: "no" (nothing yet), "ok", "failed"

vars == <<answer, executed>>

Init == answer = "new" /\ executed = "no"

Ask ==
  /\ answer = "new"
  /\ answer' = "asked"
  /\ UNCHANGED executed

Execute ==
  /\ executed = "no"
  /\ answer \in {"asked", "failed", "error"}
  /\ executed' \in {"ok", "failed"}
  /\ UNCHANGED answer

\* "failed" is a status other than zero
Answer ==
  /\ answer = "asked"
  /\ answer' \in {"ok", "failed", "error"}
  /\ answer' = "ok" => executed = "ok"
  /\ UNCHANGED executed

Next == Ask \/ Execute \/ Answer

Spec == Init /\ [][Next]_vars
=============================================================================
