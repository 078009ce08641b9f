------------------------------ MODULE ToolCalls ------------------------------
(***************************************************************************)
(* The shell tools of tools/readonly.py and tools/writable.py: which       *)
(* requests a tool call makes of its transport, one after the other, what  *)
(* it does with each answer, and what it leaves in the audit log           *)
(* (audit.py).  Tools that do the same are one tool here.  ShellTransport  *)
(* adds the transport that answers.                                        *)
(***************************************************************************)
EXTENDS Naturals, Sequences

CONSTANTS
  Calls,   \* tool calls in progress at the same time
  Offered  \* Offered[c]: the tools that c may be for

\* What each tool asks for.  "command" is every tool that runs one command:
\* read_dmesg ... run_shell, and remove_module ... run_command.
ReadOnlyPlans ==
  [command        |-> <<"run">>,
   board_info     |-> <<"run", "run">>,   \* uname, uptime
   read_iio       |-> <<"run", "run">>,   \* look the device up, read it
   adb_devices    |-> <<"devices">>]
WritablePlans ==
  [export_gpio    |-> <<"run", "run">>,   \* export, direction
   install_module |-> <<"push", "run">>,  \* the module, insmod
   push_file      |-> <<"push">>]         \* and pull_file
Tools == DOMAIN ReadOnlyPlans \union DOMAIN WritablePlans
Plans == [t \in Tools |-> IF t \in DOMAIN ReadOnlyPlans
                          THEN ReadOnlyPlans[t] ELSE WritablePlans[t]]

ASSUME ToolAssumption == Offered \in [Calls -> SUBSET Tools]

VARIABLES
  tool,     \* the tool the call is for
  told,     \* the answers its requests have had
  records,  \* the audit records it wrote: TRUE for `ok`
  outcome,  \* "none" while in progress, or how the call ended
  logging   \* the audit file can be written (it stays as it is)

toolVars == <<tool, told, records, outcome, logging>>

Answers == {"ok", "failed", "error", "raised"}
Outcomes == {"new", "none", "returned", "rejected", "raised", "cancelled"}

ToolTypeOK ==
  /\ tool \in [Calls -> Tools]
  /\ told \in [Calls -> Seq(Answers)]
  /\ records \in [Calls -> Seq(BOOLEAN)]
  /\ outcome \in [Calls -> Outcomes]
  /\ logging \in BOOLEAN

ToolInit ==
  /\ tool = [c \in Calls |-> "command"]
  /\ told = [c \in Calls |-> <<>>]
  /\ records = [c \in Calls |-> <<>>]
  /\ outcome = [c \in Calls |-> "new"]
  /\ logging \in BOOLEAN

\* the request the call waits for is its At(c)-th one
At(c) == Len(told[c]) + 1
Op(c) == Plans[tool[c]][At(c)]
Last(c) == At(c) = Len(Plans[tool[c]])

-----------------------------------------------------------------------------
\* AuditLog.write appends a line, or swallows the OSError of the file
Audit(c, ok) ==
  records' = IF logging THEN [records EXCEPT ![c] = Append(@, ok)] ELSE records
NoAudit == UNCHANGED records

Begin(c, t, end) ==
  /\ outcome[c] = "new"
  /\ t \in Offered[c]
  /\ tool' = [tool EXCEPT ![c] = t]
  /\ outcome' = [outcome EXCEPT ![c] = end]
  /\ UNCHANGED <<told, logging>>

\* the arguments pass, and the tool makes its first request
Started(c, t) == Begin(c, t, "none") /\ NoAudit

\* A check of the arguments fails.  run_shell and write_sysfs record that,
\* the other tools return without a record.
Rejected(c, t) ==
  /\ Begin(c, t, "rejected")
  /\ NoAudit \/ (t = "command" /\ Audit(c, FALSE))

Hears(c, a) == told' = [told EXCEPT ![c] = Append(@, a)]

\* Mutant: insmod is run whether or not the push succeeded.
ProceedsAnyway(c, a) ==
  /\ ~Last(c)
  /\ a # "raised"
  /\ Hears(c, a)
  /\ IF tool[c] = "export_gpio" THEN Audit(c, a = "ok") ELSE NoAudit
  /\ UNCHANGED <<tool, outcome, logging>>

\* The tool makes its next request: only export_gpio does so after an error,
\* having recorded its first write like a write_sysfs of its own.
Proceeds(c, a) ==
  /\ ~Last(c)
  /\ a \in {"ok", "failed"} \/ (a = "error" /\ tool[c] = "export_gpio")
  /\ Hears(c, a)
  /\ IF tool[c] = "export_gpio" THEN Audit(c, a = "ok") ELSE NoAudit
  /\ UNCHANGED <<tool, outcome, logging>>

\* Mutant: `ok` says that there was an answer, not that its status was zero.
OkAnswered(c, a) == a # "error"
\* what the record says; board_info does not look at the status
Ok(c, a) == a = "ok" \/ (a = "failed" /\ tool[c] = "board_info")

\* Mutant: a TransportError is returned without a record.
MuteErrors(c, a) == a = "error" \/ (tool[c] = "read_iio" /\ ~Last(c))
\* the look-up of read_iio, which may fail or find nothing, is not recorded
Mute(c, a) == tool[c] = "read_iio" /\ ~Last(c)

\* the tool records the answer and returns
Returns(c, a) ==
  /\ a # "raised"
  /\ Last(c) \/ (a = "error" /\ tool[c] # "export_gpio") \/ tool[c] = "read_iio"
  /\ Hears(c, a)
  /\ outcome' = [outcome EXCEPT ![c] = "returned"]
  /\ IF Mute(c, a) THEN NoAudit ELSE Audit(c, Ok(c, a))
  /\ UNCHANGED <<tool, logging>>

\* an exception that is no TransportError leaves the tool, without a record
Raises(c, a) ==
  /\ a = "raised"
  /\ Hears(c, a)
  /\ outcome' = [outcome EXCEPT ![c] = "raised"]
  /\ NoAudit
  /\ UNCHANGED <<tool, logging>>

\* the client cancels the call: CancelledError at the await it is in
Cancelled(c) ==
  /\ outcome' = [outcome EXCEPT ![c] = "cancelled"]
  /\ NoAudit
  /\ UNCHANGED <<tool, told, logging>>
=============================================================================
