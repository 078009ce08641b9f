------------------------- MODULE ShellTransportProofs -------------------------
(***************************************************************************)
(* Proofs about ShellTransport, for any number of calls of any tools: the  *)
(* safety properties of its run, and that every request of every call is   *)
(* a behaviour of Transport.                                               *)
(***************************************************************************)
EXTENDS ShellTransport, TLAPS

\* how far a call is; what it heard first decides whether it is at its second
\* request
Progressing(c) ==
  /\ outcome[c] \in {"new", "rejected"} => told[c] = <<>>
  /\ outcome[c] = "new" => left[c] = "none" /\ records[c] = <<>>
  /\ Len(told[c]) <= Len(Plans[tool[c]])
  /\ outcome[c] \in {"none", "cancelled"} => Len(told[c]) < Len(Plans[tool[c]])
  /\ outcome[c] \in {"none", "cancelled"} /\ Len(told[c]) = 1 =>
       /\ told[c][1] \in {"ok", "failed", "error"}
       /\ tool[c] = "install_module" => told[c][1] = "ok"

\* what is on its way to the board was asked for, and was not answered with
\* success before it was executed; the second request is behind the first one
Ordered(c) ==
  /\ \A i \in 1 .. 2 :
       /\ wire[c][i] # "none" =>
            /\ tool[c] # "adb_devices"
            /\ outcome[c] \notin {"new", "rejected"}
            /\ i <= Len(told[c]) + 1
            /\ i = Len(told[c]) + 1 => outcome[c] \in {"none", "cancelled"}
       /\ tool[c] # "adb_devices" /\ i <= Len(told[c]) /\ told[c][i] = "ok" =>
            wire[c][i] = "ok"
  /\ wire[c][2] # "none" =>
       /\ wire[c][1] \in {"ok", "failed"} \/ told[c][1] \in {"failed", "error"}
       /\ tool[c] = "install_module" => wire[c][1] = "ok"

\* the client left behind by a cancelled call is that of its last request
Left(c) ==
  /\ left[c] # "none" => outcome[c] = "cancelled" \/ tool[c] = "adb_devices"
  /\ left[c] = "command" => outcome[c] = "cancelled" /\ tool[c] # "adb_devices"

\* the records of a call, complete and true at each of its requests
Recorded(c) ==
  /\ outcome[c] = "none" =>
       Len(records[c]) = IF tool[c] = "export_gpio" /\ logging THEN Len(told[c]) ELSE 0
  /\ outcome[c] = "returned" /\ logging
       /\ ~(tool[c] = "read_iio" /\ Len(told[c]) = 1)
     => Len(records[c]) = IF tool[c] = "export_gpio" THEN 2 ELSE 1
  /\ \A i \in 1 .. 2 :
       /\ tool[c] \notin {"board_info", "adb_devices"}
       /\ i <= Len(records[c]) /\ records[c][i]
       => wire[c][IF tool[c] = "export_gpio" THEN i ELSE Len(Plans[tool[c]])] = "ok"

\* who is past `adb connect` knows of a success of it
Introduced(c) ==
  Wifi =>
    /\ place[c] # "open"
    /\ place[c] = "wait" => introduced
    /\ place[c] = "command" => tool[c] = "adb_devices" \/ introduced

CallInv(c) ==
  Progressing(c) /\ Ordered(c) /\ Left(c) /\ Recorded(c) /\ Introduced(c)

FlagInv == Wifi /\ connected => introduced

\* The inductive invariant: what a call has asked, been told, recorded and left
\* behind fits together, and the flag knows of a success.
IInv == TypeOK /\ FlagInv /\ \A c \in Calls : CallInv(c)

-----------------------------------------------------------------------------
(* Facts about the plans of the tools                                      *)

LEMMA ToolsAre ==
  Tools = {"command", "board_info", "read_iio", "adb_devices",
           "export_gpio", "install_module", "push_file"}
BY DEF Tools, ReadOnlyPlans, WritablePlans

LEMMA PlansAre ==
  /\ Plans["command"] = <<"run">>
  /\ Plans["board_info"] = <<"run", "run">>
  /\ Plans["read_iio"] = <<"run", "run">>
  /\ Plans["adb_devices"] = <<"devices">>
  /\ Plans["export_gpio"] = <<"run", "run">>
  /\ Plans["install_module"] = <<"push", "run">>
  /\ Plans["push_file"] = <<"push">>
<1>1. /\ DOMAIN ReadOnlyPlans = {"command", "board_info", "read_iio", "adb_devices"}
      /\ ReadOnlyPlans["command"] = <<"run">>
      /\ ReadOnlyPlans["board_info"] = <<"run", "run">>
      /\ ReadOnlyPlans["read_iio"] = <<"run", "run">>
      /\ ReadOnlyPlans["adb_devices"] = <<"devices">>
  BY DEF ReadOnlyPlans
<1>2. /\ DOMAIN WritablePlans = {"export_gpio", "install_module", "push_file"}
      /\ WritablePlans["export_gpio"] = <<"run", "run">>
      /\ WritablePlans["install_module"] = <<"push", "run">>
      /\ WritablePlans["push_file"] = <<"push">>
  BY DEF WritablePlans
<1> QED BY <1>1, <1>2 DEF Plans, Tools

LEMMA PlanFacts ==
  ASSUME NEW t \in Tools
  PROVE  /\ Len(Plans[t]) \in 1 .. 2
         /\ t \in {"command", "adb_devices", "push_file"} => Len(Plans[t]) = 1
         /\ t \in {"export_gpio", "read_iio", "install_module"} => Len(Plans[t]) = 2
         /\ (t = "adb_devices") <=> (Plans[t][1] = "devices")
         /\ Len(Plans[t]) = 2 => Plans[t][2] = "run"
         /\ t = "install_module" => Plans[t][1] = "push"
BY ToolsAre, PlansAre

\* the request that a call in progress, or one that was cancelled, is at
LEMMA Position ==
  ASSUME IInv, NEW c \in Calls, outcome[c] \in {"none", "cancelled"}
  PROVE  /\ At(c) \in 1 .. 2 /\ Len(told[c]) = At(c) - 1
         /\ At(c) <= Len(Plans[tool[c]]) /\ Len(Plans[tool[c]]) \in 1 .. 2
         /\ Last(c) <=> Len(Plans[tool[c]]) = At(c)
         /\ ~Last(c) => At(c) = 1 /\ Len(Plans[tool[c]]) = 2
         /\ (Op(c) = "devices") <=> (tool[c] = "adb_devices")
         /\ At(c) = 2 => Op(c) = "run" /\ tool[c] # "adb_devices"
         /\ tool[c] = "install_module" /\ At(c) = 1 => Op(c) = "push"
<1>1. tool[c] \in Tools /\ told[c] \in Seq(Answers) /\ Len(told[c]) \in Nat
  BY DEF IInv, TypeOK, ToolTypeOK
<1>2. Len(told[c]) < Len(Plans[tool[c]])
  BY DEF IInv, CallInv, Progressing
<1>3. /\ Len(Plans[tool[c]]) \in 1 .. 2
      /\ (tool[c] = "adb_devices") <=> (Plans[tool[c]][1] = "devices")
      /\ tool[c] = "adb_devices" => Len(Plans[tool[c]]) = 1
      /\ Len(Plans[tool[c]]) = 2 => Plans[tool[c]][2] = "run"
      /\ tool[c] = "install_module" => Plans[tool[c]][1] = "push"
  BY <1>1, PlanFacts
<1>4. At(c) = Len(told[c]) + 1 /\ Op(c) = Plans[tool[c]][At(c)]
  BY DEF At, Op
<1>5. At(c) \in 1 .. 2 /\ At(c) <= Len(Plans[tool[c]]) /\ Len(told[c]) = At(c) - 1
  BY <1>1, <1>2, <1>3, <1>4
<1>6. /\ Last(c) <=> Len(Plans[tool[c]]) = At(c)
      /\ ~Last(c) => At(c) = 1 /\ Len(Plans[tool[c]]) = 2
  <2>1. \A m, n \in 1 .. 2 : m <= n /\ m # n => m = 1 /\ n = 2
    OBVIOUS
  <2> QED BY <1>3, <1>5, <2>1, Zenon DEF Last
<1>7. (Op(c) = "devices") <=> (tool[c] = "adb_devices")
  BY <1>3, <1>4, <1>5
<1> QED BY <1>3, <1>4, <1>5, <1>6, <1>7

LEMMA Appended ==
  ASSUME NEW s \in Seq(BOOLEAN), NEW e \in BOOLEAN
  PROVE  /\ Append(s, e) \in Seq(BOOLEAN) /\ Len(Append(s, e)) = Len(s) + 1
         /\ Append(s, e)[Len(s) + 1] = e
         /\ \A i \in 1 .. Len(s) : Append(s, e)[i] = s[i]
<1>1. Append(s, e) \in Seq(BOOLEAN) /\ Len(Append(s, e)) = Len(s) + 1
  OBVIOUS
<1>2. /\ Append(s, e)[Len(s) + 1] = e
      /\ \A i \in 1 .. Len(s) : Append(s, e)[i] = s[i]
  OBVIOUS
<1> QED BY <1>1, <1>2, Zenon

\* a record is added behind the others, or the audit file cannot be written
LEMMA AuditAppends ==
  ASSUME IInv, NEW c \in Calls, NEW ok \in BOOLEAN, Audit(c, ok)
  PROVE  /\ records' \in [Calls -> Seq(BOOLEAN)]
         /\ \A d \in Calls \ {c} : records'[d] = records[d]
         /\ ~logging => records'[c] = records[c]
         /\ logging =>
              /\ Len(records'[c]) = Len(records[c]) + 1
              /\ records'[c][Len(records[c]) + 1] = ok
              /\ \A i \in 1 .. Len(records[c]) : records'[c][i] = records[c][i]
<1> DEFINE longer == Append(records[c], ok)
<1>1. records \in [Calls -> Seq(BOOLEAN)]
  BY DEF IInv, TypeOK, ToolTypeOK
<1>2. /\ longer \in Seq(BOOLEAN) /\ Len(longer) = Len(records[c]) + 1
      /\ longer[Len(records[c]) + 1] = ok
      /\ \A i \in 1 .. Len(records[c]) : longer[i] = records[c][i]
  <2>1. records[c] \in Seq(BOOLEAN)
    BY <1>1
  <2> QED BY <2>1, Appended, Zenon
<1>3. CASE logging
  <2>1. records' = [records EXCEPT ![c] = longer]
    BY <1>3 DEF Audit
  <2> HIDE DEF longer
  <2>2. records'[c] = longer /\ records' \in [Calls -> Seq(BOOLEAN)]
        /\ \A d \in Calls \ {c} : records'[d] = records[d]
    BY <1>1, <1>2, <2>1, Zenon
  <2> QED BY <1>2, <1>3, <2>2, Zenon
<1>4. CASE ~logging
  <2>1. records' = records
    BY <1>4 DEF Audit
  <2> QED BY <1>1, <1>4, <2>1, Zenon
<1> QED BY <1>3, <1>4

\* what a call's own invariant reads, of the other calls
Same(c) ==
  \A d \in Calls \ {c} :
    /\ tool'[d] = tool[d] /\ told'[d] = told[d] /\ records'[d] = records[d]
    /\ outcome'[d] = outcome[d]
    /\ place'[d] = place[d] /\ wire'[d] = wire[d] /\ left'[d] = left[d]
Kept ==
  /\ kind' = kind /\ logging' = logging
  /\ introduced => introduced'
  /\ Wifi /\ connected' => introduced'

LEMMA Frame ==
  ASSUME IInv, NEW c \in Calls, TypeOK', Same(c), Kept, CallInv(c)'
  PROVE  IInv'
<1>1. FlagInv'
  BY DEF Kept, FlagInv, Wifi
<1>2. ASSUME NEW d \in Calls, d # c  PROVE CallInv(d)'
  <2> USE <1>2 DEF IInv, CallInv, Same, Kept, Wifi
  <2>1. Progressing(d)'
    BY DEF Progressing
  <2>2. Ordered(d)'
    BY DEF Ordered
  <2>3. Left(d)'
    BY DEF Left
  <2>4. Recorded(d)'
    BY DEF Recorded
  <2>5. Introduced(d)'
    BY DEF Introduced
  <2> QED BY <2>1, <2>2, <2>3, <2>4, <2>5
<1> QED BY <1>1, <1>2 DEF IInv

-----------------------------------------------------------------------------
(* A call begins                                                           *)

LEMMA BeginKeeps ==
  ASSUME IInv, NEW c \in Calls, NEW t \in Tools, Invoke(c, t) \/ Reject(c, t)
  PROVE  IInv' /\ Same(c)
<1>1. /\ outcome[c] = "new" /\ tool' = [tool EXCEPT ![c] = t]
      /\ UNCHANGED <<told, logging, kind, connected, wire, left, board, known, introduced>>
  BY DEF Invoke, Reject, Started, Rejected, Begin, envVars
<1>2. \/ /\ outcome' = [outcome EXCEPT ![c] = "none"]
         /\ UNCHANGED records
         /\ place' = [place EXCEPT ![c] = Entry(Plans[t][1])]
      \/ /\ outcome' = [outcome EXCEPT ![c] = "rejected"]
         /\ UNCHANGED place
         /\ records' = records \/ Audit(c, FALSE)
  BY DEF Invoke, Reject, Started, Rejected, Begin, Goto, NoAudit
<1>3. /\ told[c] = <<>> /\ records[c] = <<>> /\ left[c] = "none"
      /\ \A i \in 1 .. 2 : wire[c][i] = "none"
  BY <1>1 DEF IInv, CallInv, Progressing, Ordered
<1>4. Entry(Plans[t][1]) \in Places \ {"idle"}
  BY DEF Entry, Places
<1>5. place[c] = "idle"
  BY <1>1 DEF IInv, TypeOK
<1>6. /\ tool' \in [Calls -> Tools] /\ outcome' \in [Calls -> Outcomes]
      /\ place' \in [Calls -> Places]
  BY <1>1, <1>2, <1>4 DEF IInv, TypeOK, ToolTypeOK, Outcomes
<1>7. /\ records' \in [Calls -> Seq(BOOLEAN)]
      /\ \A d \in Calls \ {c} : records'[d] = records[d]
      /\ Len(records'[c]) = 0 \/ (Len(records'[c]) = 1 /\ records'[c][1] = FALSE)
  <2>1. records \in [Calls -> Seq(BOOLEAN)] /\ Len(records[c]) = 0
    BY <1>3 DEF IInv, TypeOK, ToolTypeOK
  <2>2. CASE records' = records
    BY <2>1, <2>2
  <2>3. CASE Audit(c, FALSE)
    <3>1. 1 = Len(records[c]) + 1
      BY <2>1
    <3> QED BY <2>1, <2>3, <3>1, AuditAppends, Zenon
  <2> QED BY <1>2, <2>2, <2>3
<1>8. \A d \in Calls : (place'[d] # "idle") <=> (outcome'[d] = "none")
  BY <1>1, <1>2, <1>4, <1>5 DEF IInv, TypeOK, ToolTypeOK
<1>9. TypeOK'
  BY <1>1, <1>6, <1>7, <1>8 DEF IInv, TypeOK, ToolTypeOK
<1>10. Same(c) /\ Kept
  BY <1>1, <1>2, <1>7 DEF IInv, TypeOK, ToolTypeOK, Same, Kept, FlagInv, Wifi
<1>11. /\ tool'[c] = t /\ told'[c] = <<>> /\ left'[c] = "none" /\ introduced' = introduced
       /\ \A i \in 1 .. 2 : wire'[c][i] = "none"
  BY <1>1, <1>3 DEF IInv, TypeOK, ToolTypeOK
<1>12. \/ outcome'[c] = "none" /\ records'[c] = <<>> /\ place'[c] = Entry(Plans[t][1])
       \/ outcome'[c] = "rejected" /\ place'[c] = "idle"
  BY <1>1, <1>2, <1>3, <1>5 DEF IInv, TypeOK, ToolTypeOK
<1>13. Progressing(c)'
  BY <1>11, <1>12, PlanFacts DEF Progressing
<1>14. Ordered(c)' /\ Left(c)'
  BY <1>11, <1>12 DEF Ordered, Left
<1>15. Recorded(c)'
  BY <1>7, <1>11, <1>12 DEF Recorded
<1>16. Introduced(c)'
  <2>1. CASE outcome'[c] = "none"
    BY <2>1, <1>1, <1>11, <1>12, PlanFacts DEF Introduced, Entry, Wifi, IInv, FlagInv
  <2>2. CASE place'[c] = "idle"
    BY <2>2 DEF Introduced
  <2> QED BY <1>12, <2>1, <2>2
<1> QED BY <1>9, <1>10, <1>13, <1>14, <1>15, <1>16, Frame DEF CallInv

-----------------------------------------------------------------------------
(* A request is answered                                                   *)

\* what all steps that end a request have in common
Answered(c, a) ==
  /\ place[c] # "idle"
  /\ Answer(c, a)
  /\ a \in Answers
  /\ a = "ok" => tool[c] = "adb_devices" \/ wire[c][At(c)] = "ok"
  /\ a = "failed" => Op(c) = "run"
  /\ UNCHANGED <<kind, connected, wire, board, known, introduced>>
  /\ \/ left' = left
     \/ tool[c] = "adb_devices" /\ left' = [left EXCEPT ![c] = "helper"]

Ends(c) ==
  \/ SshOpenFails(c) \/ AdbHelperFails(c) \/ Reply(c) \/ Listed(c)
  \/ ClientFails(c) \/ Reaped(c) \/ DevicesTimeout(c)

LEMMA EndsAnswer ==
  ASSUME IInv, NEW c \in Calls, Ends(c)
  PROVE  \E a : Answered(c, a)
<1> USE DEF Answered, envVars, Answers
<1>1. place[c] # "idle" => (Op(c) = "devices" <=> tool[c] = "adb_devices")
  BY Position DEF IInv, TypeOK
<1>2. CASE SshOpenFails(c)
  BY <1>2 DEF SshOpenFails
<1>3. CASE AdbHelperFails(c)
  BY <1>3 DEF AdbHelperFails
<1>4. CASE Reply(c)
  BY <1>4 DEF Reply
<1>5. CASE Listed(c)
  BY <1>1, <1>5 DEF Listed
<1>6. CASE ClientFails(c)
  BY <1>6 DEF ClientFails, Failures
<1>7. CASE Reaped(c)
  BY <1>7 DEF Reaped
<1>8. CASE DevicesTimeout(c)
  BY <1>1, <1>8 DEF DevicesTimeout
<1> QED BY <1>2, <1>3, <1>4, <1>5, <1>6, <1>7, <1>8 DEF Ends

\* what the caller knows after the answer
LEMMA AnsweredTells ==
  ASSUME IInv, NEW c \in Calls, NEW a, Answered(c, a)
  PROVE  /\ outcome[c] = "none" /\ tool' = tool /\ logging' = logging
         /\ told' \in [Calls -> Seq(Answers)]
         /\ \A d \in Calls \ {c} : told'[d] = told[d]
         /\ Len(told'[c]) = At(c) /\ told'[c][At(c)] = a
         /\ \A i \in 1 .. At(c) - 1 : told'[c][i] = told[c][i]
<1>1. outcome[c] = "none"
  BY DEF Answered, IInv, TypeOK
<1>2. told' = [told EXCEPT ![c] = Append(@, a)] /\ tool' = tool /\ logging' = logging
  BY DEF Answered, Answer, Proceeds, Returns, Raises, Hears
<1>3. told \in [Calls -> Seq(Answers)] /\ a \in Answers
  BY DEF Answered, IInv, TypeOK, ToolTypeOK
<1> QED BY <1>1, <1>2, <1>3 DEF At

\* ... and the three ways the tool goes on
GoesOn(c, a) ==
  /\ At(c) = 1 /\ ~Last(c)
  /\ a \in {"ok", "failed"} \/ (a = "error" /\ tool[c] = "export_gpio")
  /\ outcome' = outcome
  /\ place' = [place EXCEPT ![c] = Entry("run")]
  /\ IF tool[c] = "export_gpio" THEN Audit(c, a = "ok") ELSE records' = records
Finishes(c, a) ==
  /\ a # "raised"
  /\ outcome' = [outcome EXCEPT ![c] = "returned"]
  /\ place' = [place EXCEPT ![c] = "idle"]
  /\ \/ /\ tool[c] = "read_iio" /\ At(c) = 1
        /\ records' = records
     \/ /\ Last(c) \/ (a = "error" /\ tool[c] # "export_gpio")
        /\ Audit(c, Ok(c, a))
Breaks(c, a) ==
  /\ a = "raised"
  /\ outcome' = [outcome EXCEPT ![c] = "raised"]
  /\ place' = [place EXCEPT ![c] = "idle"]
  /\ records' = records

LEMMA AnsweredWays ==
  ASSUME IInv, NEW c \in Calls, NEW a, Answered(c, a)
  PROVE  GoesOn(c, a) \/ Finishes(c, a) \/ Breaks(c, a)
<1>1. outcome[c] = "none"
  BY DEF Answered, IInv, TypeOK
<1>2. /\ At(c) \in 1 .. 2 /\ (Last(c) <=> Len(Plans[tool[c]]) = At(c))
      /\ At(c) <= Len(Plans[tool[c]]) /\ Len(Plans[tool[c]]) \in 1 .. 2
      /\ ~Last(c) => At(c) = 1 /\ Len(Plans[tool[c]]) = 2
  BY <1>1, Position
<1>3. CASE Proceeds(c, a) /\ Goto(c, Entry(Plans[tool[c]][At(c) + 1]))
  <2>1. ~Last(c) /\ At(c) = 1 /\ Len(Plans[tool[c]]) = 2
    BY <1>2, <1>3 DEF Proceeds
  <2>2. Plans[tool[c]][At(c) + 1] = "run"
    BY <2>1, PlanFacts DEF IInv, TypeOK, ToolTypeOK
  <2> QED BY <1>3, <2>1, <2>2 DEF Proceeds, Goto, GoesOn, NoAudit
<1>4. CASE Returns(c, a) /\ Goto(c, "idle")
  <2>1. ASSUME Mute(c, a)  PROVE tool[c] = "read_iio" /\ At(c) = 1
    <3>1. tool[c] = "read_iio" /\ ~Last(c)
      BY <2>1 DEF Mute
    <3> QED BY <1>2, <3>1
  <2>2. ~Mute(c, a) => Last(c) \/ (a = "error" /\ tool[c] # "export_gpio")
    BY <1>4 DEF Mute, Returns
  <2> QED BY <1>4, <2>1, <2>2 DEF Returns, Goto, Finishes, NoAudit
<1>5. CASE Raises(c, a) /\ Goto(c, "idle")
  BY <1>5 DEF Raises, Goto, Breaks, NoAudit
<1> QED BY <1>3, <1>4, <1>5 DEF Answered, Answer

\* the records after the answer: as before, or one more
LEMMA AnsweredRecords ==
  ASSUME IInv, NEW c \in Calls, NEW a, Answered(c, a)
  PROVE  /\ records' \in [Calls -> Seq(BOOLEAN)]
         /\ \A d \in Calls \ {c} : records'[d] = records[d]
<1>1. (a = "ok") \in BOOLEAN /\ Ok(c, a) \in BOOLEAN
  BY DEF Ok
<1>2. records \in [Calls -> Seq(BOOLEAN)]
  BY DEF IInv, TypeOK, ToolTypeOK
<1>3. records' = records \/ Audit(c, a = "ok") \/ Audit(c, Ok(c, a))
  BY AnsweredWays DEF GoesOn, Finishes, Breaks
<1>4. CASE records' = records
  BY <1>2, <1>4
<1>5. CASE Audit(c, a = "ok")
  BY <1>1, <1>5, AuditAppends, Zenon
<1>6. CASE Audit(c, Ok(c, a))
  BY <1>1, <1>6, AuditAppends, Zenon
<1> QED BY <1>3, <1>4, <1>5, <1>6

LEMMA AnsweredTypes ==
  ASSUME IInv, NEW c \in Calls, NEW a, Answered(c, a)
  PROVE  TypeOK' /\ Same(c) /\ Kept
<1>1. Entry("run") \in Places \ {"idle"} /\ "idle" \in Places
  BY DEF Entry, Places
<1>2. UNCHANGED <<kind, connected, wire, board, known, introduced>>
  BY DEF Answered
<1>3. place[c] # "idle" /\ outcome[c] = "none"
  BY AnsweredTells DEF Answered
<1>4. /\ left' \in [Calls -> {"none", "helper", "command"}]
      /\ \A d \in Calls \ {c} : left'[d] = left[d]
  BY DEF Answered, IInv, TypeOK
<1>5. /\ \/ outcome' = outcome /\ place' = [place EXCEPT ![c] = Entry("run")]
         \/ outcome' = [outcome EXCEPT ![c] = "returned"] /\ place' = [place EXCEPT ![c] = "idle"]
         \/ outcome' = [outcome EXCEPT ![c] = "raised"] /\ place' = [place EXCEPT ![c] = "idle"]
  BY AnsweredWays DEF GoesOn, Finishes, Breaks
<1>6. outcome' \in [Calls -> Outcomes] /\ place' \in [Calls -> Places]
  BY <1>1, <1>5 DEF IInv, TypeOK, ToolTypeOK, Outcomes
<1>7. \A d \in Calls : (place'[d] # "idle") <=> (outcome'[d] = "none")
  BY <1>1, <1>3, <1>5 DEF IInv, TypeOK, ToolTypeOK
<1>8. TypeOK'
  BY <1>2, <1>4, <1>6, <1>7, AnsweredTells, AnsweredRecords DEF IInv, TypeOK, ToolTypeOK
<1>9. Same(c)
  BY <1>2, <1>4, <1>5, AnsweredTells, AnsweredRecords DEF IInv, TypeOK, ToolTypeOK, Same
<1>10. Kept
  BY <1>2, AnsweredTells DEF Kept, IInv, FlagInv, Wifi
<1> QED BY <1>8, <1>9, <1>10

LEMMA AnsweredKeeps ==
  ASSUME IInv, NEW c \in Calls, NEW a, Answered(c, a)
  PROVE  IInv' /\ Same(c)
<1>1. /\ outcome[c] = "none" /\ tool' = tool /\ logging' = logging /\ wire' = wire
      /\ Len(told'[c]) = At(c) /\ told'[c][At(c)] = a
      /\ \A i \in 1 .. At(c) - 1 : told'[c][i] = told[c][i]
      /\ kind' = kind /\ introduced' = introduced
  BY AnsweredTells DEF Answered
<1>2. /\ At(c) \in 1 .. 2 /\ Len(told[c]) = At(c) - 1
      /\ At(c) <= Len(Plans[tool[c]]) /\ Len(Plans[tool[c]]) \in 1 .. 2
      /\ ~Last(c) => At(c) = 1 /\ Len(Plans[tool[c]]) = 2
  BY <1>1, Position
<1>3. /\ tool[c] \in Tools /\ outcome'[c] \in {"none", "returned", "raised"}
      /\ outcome'[c] = "none" => GoesOn(c, a)
  BY <1>1, AnsweredWays DEF GoesOn, Finishes, Breaks, IInv, TypeOK, ToolTypeOK
<1>4. Progressing(c)'
  <2>1. CASE outcome'[c] = "none"
    <3>1. GoesOn(c, a) /\ At(c) = 1 /\ Len(Plans[tool[c]]) = 2
      BY <1>2, <1>3, <2>1 DEF GoesOn
    <3>2. a \in {"ok", "failed", "error"} /\ (tool[c] = "install_module" => a = "ok")
      BY <1>1, <3>1, Position DEF GoesOn, Answered
    <3> QED BY <1>1, <1>2, <2>1, <3>1, <3>2 DEF Progressing
  <2>2. CASE outcome'[c] \in {"returned", "raised"}
    BY <1>1, <1>2, <2>2 DEF Progressing
  <2> QED BY <1>3, <2>1, <2>2
<1>5. Ordered(c)'
  <2>1. Ordered(c) /\ Progressing(c)
    BY DEF IInv, CallInv
  <2>2. a = "ok" => tool[c] = "adb_devices" \/ wire[c][At(c)] = "ok"
    BY DEF Answered
  <2>3. CASE At(c) = 1
    BY <1>1, <1>2, <1>3, <2>1, <2>2, <2>3 DEF Ordered
  <2>4. CASE At(c) = 2
    BY <1>1, <1>2, <1>3, <2>1, <2>2, <2>4 DEF Ordered
  <2> QED BY <1>2, <2>3, <2>4
<1>6. Left(c)'
  BY <1>1 DEF Answered, IInv, CallInv, Left, TypeOK
<1>7. Introduced(c)'
  <2>1. CASE GoesOn(c, a)
    BY <1>1, <2>1 DEF GoesOn, Introduced, Entry, Wifi, IInv, TypeOK, FlagInv
  <2>2. CASE Finishes(c, a) \/ Breaks(c, a)
    BY <2>2 DEF Finishes, Breaks, Introduced, IInv, TypeOK
  <2> QED BY <2>1, <2>2, AnsweredWays
<1>8. Recorded(c)'
  <2>1. Recorded(c) /\ Ordered(c)
    BY DEF IInv, CallInv
  <2>2. Len(records[c]) = IF tool[c] = "export_gpio" /\ logging THEN Len(told[c]) ELSE 0
    BY <1>1, <2>1 DEF Recorded
  <2>3. tool[c] = "export_gpio" => Len(Plans[tool[c]]) = 2
    BY <1>3, PlanFacts
  <2>4. ASSUME NEW ok \in BOOLEAN, Audit(c, ok), logging
        PROVE  /\ Len(records'[c]) = Len(records[c]) + 1
               /\ records'[c][Len(records[c]) + 1] = ok
               /\ \A i \in 1 .. Len(records[c]) : records'[c][i] = records[c][i]
    BY <2>4, AuditAppends, Zenon
  <2>5. ASSUME NEW ok \in BOOLEAN, Audit(c, ok), ~logging
        PROVE  records' = records
    BY <2>5 DEF Audit
  <2>6. CASE GoesOn(c, a)
    <3>1. At(c) = 1 /\ outcome'[c] = "none" /\ Len(told[c]) = 0
      BY <1>1, <1>2, <2>6 DEF GoesOn
    <3>2. CASE tool[c] = "export_gpio" /\ logging
      <4>1. (a = "ok") \in BOOLEAN /\ Audit(c, a = "ok")
        BY <2>6, <3>2 DEF GoesOn
      <4>2. Len(records[c]) = 0 /\ 0 + 1 = 1
        BY <2>2, <3>1, <3>2
      <4>3. Len(records'[c]) = 1 /\ records'[c][1] = (a = "ok")
        BY <2>4, <3>2, <4>1, <4>2, Zenon
      <4>4. a = "ok" => wire[c][1] = "ok"
        BY <3>1, <3>2 DEF Answered
      <4>5. records'[c][1] => wire'[c][1] = "ok"
        BY <1>1, <4>3, <4>4, Zenon
      <4> QED BY <1>1, <3>1, <3>2, <4>3, <4>5 DEF Recorded
    <3>3. CASE ~(tool[c] = "export_gpio" /\ logging)
      <4>1. records' = records
        BY <2>5, <2>6, <3>3 DEF GoesOn
      <4> QED BY <1>1, <2>1, <2>2, <3>1, <3>3, <4>1 DEF Recorded
    <3> QED BY <3>2, <3>3
  <2>7. CASE Finishes(c, a)
    <3>1. outcome'[c] = "returned"
      BY <2>7 DEF Finishes, IInv, TypeOK, ToolTypeOK
    <3>2. CASE records' = records /\ (logging => tool[c] = "read_iio" /\ At(c) = 1)
      BY <1>1, <2>1, <3>1, <3>2 DEF Recorded
    <3>3. CASE /\ logging /\ Audit(c, Ok(c, a))
               /\ Last(c) \/ (a = "error" /\ tool[c] # "export_gpio")
      <4>1. Ok(c, a) \in BOOLEAN
        BY DEF Ok
      <4>2. /\ Len(records'[c]) = Len(records[c]) + 1
            /\ records'[c][Len(records[c]) + 1] = Ok(c, a)
            /\ \A i \in 1 .. Len(records[c]) : records'[c][i] = records[c][i]
        BY <2>4, <3>3, <4>1, Zenon
      <4>3. ASSUME Ok(c, a), tool[c] \notin {"board_info", "adb_devices"}
            PROVE  /\ wire'[c][At(c)] = "ok"
                   /\ At(c) = Len(Plans[tool[c]])
        <5>1. a = "ok"
          BY <4>3 DEF Ok
        <5> QED BY <1>1, <1>2, <3>3, <4>3, <5>1, Position DEF Answered
      <4>4. CASE tool[c] = "export_gpio"
        <5>1. At(c) = 2 /\ Len(records[c]) = 1 /\ 1 + 1 = 2
          <6>1. Last(c) /\ Len(Plans[tool[c]]) = 2
            BY <2>3, <3>3, <4>4
          <6>2. At(c) = 2
            BY <6>1 DEF Last
          <6>3. Len(told[c]) = 1
            BY <1>2, <6>2
          <6> QED BY <2>2, <3>3, <4>4, <6>2, <6>3
        <5>2. Len(records'[c]) = 2 /\ records'[c][2] = Ok(c, a) /\ records'[c][1] = records[c][1]
          BY <4>2, <5>1
        <5>3. records'[c][2] => wire'[c][2] = "ok"
          BY <4>3, <4>4, <5>1, <5>2
        <5>4. records'[c][1] => wire'[c][1] = "ok"
          <6>1. records[c][1] => wire[c][1] = "ok"
            BY <2>1, <4>4, <5>1 DEF Recorded
          <6> QED BY <1>1, <5>2, <6>1, Zenon
        <5> QED BY <1>1, <3>1, <4>4, <5>2, <5>3, <5>4 DEF Recorded
      <4>5. CASE tool[c] # "export_gpio"
        <5>1. Len(records[c]) = 0 /\ 0 + 1 = 1
          BY <2>2, <4>5
        <5>2. Len(records'[c]) = 1 /\ records'[c][1] = Ok(c, a)
          BY <4>2, <5>1, Zenon
        <5>3. records'[c][1] /\ tool[c] \notin {"board_info", "adb_devices"} =>
                wire'[c][Len(Plans[tool[c]])] = "ok"
          BY <4>3, <5>2
        <5> QED BY <1>1, <3>1, <4>5, <5>2, <5>3 DEF Recorded
      <4> QED BY <4>4, <4>5
    <3>4. CASE ~logging /\ Audit(c, Ok(c, a))
      BY <2>5, <3>2, <3>4 DEF Ok
    <3> QED BY <2>7, <3>2, <3>3, <3>4 DEF Finishes
  <2>8. CASE Breaks(c, a)
    <3>1. outcome'[c] = "raised" /\ records' = records
      BY <2>8 DEF Breaks, IInv, TypeOK, ToolTypeOK
    <3> QED BY <1>1, <2>1, <3>1 DEF Recorded
  <2> QED BY <2>6, <2>7, <2>8, AnsweredWays
<1> QED BY <1>4, <1>5, <1>6, <1>7, <1>8, AnsweredTypes, Frame DEF CallInv

-----------------------------------------------------------------------------
(* The other steps                                                         *)

LEMMA MovesKeep ==
  ASSUME IInv, NEW c \in Calls,
         SshOpens(c) \/ AdbConnects(c) \/ AdbWaited(c) \/ Timeout(c)
  PROVE  IInv' /\ Same(c)
<1>1. /\ UNCHANGED <<tool, told, records, outcome, logging, kind, wire, left>>
      /\ place[c] # "idle" /\ (introduced => introduced')
      /\ known' \in BOOLEAN /\ board' \in BOOLEAN /\ introduced' \in BOOLEAN
      /\ connected' \in BOOLEAN
  BY DEF SshOpens, AdbConnects, AdbWaited, Timeout, toolVars, envVars, IInv, TypeOK
<1>2. PICK p \in {"command", "wait", "reap"} :
        place' = [place EXCEPT ![c] = p] /\ (Wifi => p = "reap" \/ introduced')
  <2>1. CASE SshOpens(c)
    BY <2>1 DEF SshOpens, Goto, IInv, CallInv, Introduced
  <2>2. CASE AdbConnects(c)
    BY <2>2 DEF AdbConnects, Goto
  <2>3. CASE AdbWaited(c)
    BY <2>3 DEF AdbWaited, Goto, IInv, CallInv, Introduced, envVars
  <2>4. CASE Timeout(c)
    BY <2>4 DEF Timeout, Goto
  <2> QED BY <2>1, <2>2, <2>3, <2>4
<1>3. Wifi /\ connected' => introduced'
  BY DEF SshOpens, AdbConnects, AdbWaited, Timeout, Wifi, IInv, CallInv,
         Introduced, FlagInv, envVars
<1>4. /\ place' \in [Calls -> Places] /\ place'[c] = p
      /\ \A d \in Calls \ {c} : place'[d] = place[d]
  <2>1. place \in [Calls -> Places] /\ p \in Places
    BY DEF IInv, TypeOK, Places
  <2> QED BY <1>2, <2>1
<1>5. TypeOK' /\ Same(c) /\ Kept
  <2>1. \A d \in Calls : (place'[d] # "idle") <=> (outcome'[d] = "none")
    BY <1>1, <1>2, <1>4 DEF IInv, TypeOK
  <2> QED BY <1>1, <1>3, <1>4, <2>1 DEF IInv, TypeOK, ToolTypeOK, Same, Kept
<1>6. Progressing(c)' /\ Ordered(c)' /\ Left(c)' /\ Recorded(c)'
  BY <1>1 DEF IInv, CallInv, Progressing, Ordered, Left, Recorded
<1>7. Introduced(c)'
  BY <1>1, <1>2, <1>4 DEF Introduced, Wifi
<1> QED BY <1>5, <1>6, <1>7, Frame DEF CallInv

LEMMA TransmitKeeps ==
  ASSUME IInv, NEW c \in Calls, Transmit(c)
  PROVE  IInv' /\ Same(c)
<1>1. /\ UNCHANGED <<tool, told, records, outcome, logging, kind, place, connected, left>>
      /\ UNCHANGED <<board, known, introduced>>
      /\ wire' = [wire EXCEPT ![c][At(c)] = "sent"]
      /\ wire[c][At(c)] = "none" /\ Op(c) # "devices"
  BY DEF Transmit, toolVars, envVars
<1>2. outcome[c] \in {"none", "cancelled"}
  BY DEF Transmit, IInv, TypeOK, CallInv, Left
<1>3. /\ At(c) \in 1 .. 2 /\ Len(told[c]) = At(c) - 1 /\ tool[c] # "adb_devices"
      /\ At(c) <= Len(Plans[tool[c]]) /\ Len(Plans[tool[c]]) \in 1 .. 2
  BY <1>1, <1>2, Position
<1>4. /\ wire' \in [Calls -> [1 .. 2 -> Progress]]
      /\ wire'[c][At(c)] = "sent"
      /\ \A i \in 1 .. 2 : i # At(c) => wire'[c][i] = wire[c][i]
      /\ \A d \in Calls \ {c} : wire'[d] = wire[d]
  BY <1>1, <1>3 DEF IInv, TypeOK, Progress
<1>5. TypeOK'
  BY <1>1, <1>4 DEF IInv, TypeOK, ToolTypeOK
<1>6. Same(c) /\ Kept
  BY <1>1, <1>4 DEF Same, Kept, IInv, FlagInv, Wifi
<1>7. Progressing(c) /\ Ordered(c) /\ Left(c) /\ Recorded(c) /\ Introduced(c)
  BY DEF IInv, CallInv
<1>8. Progressing(c)' /\ Left(c)' /\ Introduced(c)'
  BY <1>1, <1>7 DEF Progressing, Left, Introduced, Wifi
<1>9. Ordered(c)'
  <2>1. CASE At(c) = 1
    BY <1>1, <1>2, <1>3, <1>4, <1>7, <2>1 DEF Ordered
  <2>2. CASE At(c) = 2
    BY <1>1, <1>2, <1>3, <1>4, <1>7, <2>2 DEF Ordered, Progressing
  <2> QED BY <1>3, <2>1, <2>2
<1>10. Recorded(c)'
  <2>1. \A i \in 1 .. 2 : wire[c][i] = "ok" => wire'[c][i] = "ok"
    BY <1>1, <1>4
  <2>2. (IF tool[c] = "export_gpio" THEN 1 ELSE Len(Plans[tool[c]])) \in 1 .. 2
    BY <1>3
  <2> QED BY <1>1, <1>3, <1>7, <2>1, <2>2 DEF Recorded
<1> QED BY <1>5, <1>6, <1>8, <1>9, <1>10, Frame DEF CallInv

LEMMA ExecuteKeeps ==
  ASSUME IInv, NEW c \in Calls, NEW j \in 1 .. 2, Execute(c, j)
  PROVE  IInv' /\ Same(c)
<1>1. /\ UNCHANGED <<tool, told, records, outcome, logging, kind, place, connected, left>>
      /\ UNCHANGED <<board, known, introduced>>
      /\ wire[c][j] = "sent"
  BY DEF Execute, toolVars, envVars
<1>2. /\ wire' \in [Calls -> [1 .. 2 -> Progress]]
      /\ wire'[c][j] \in {"ok", "failed"}
      /\ \A i \in 1 .. 2 : i # j => wire'[c][i] = wire[c][i]
      /\ \A d \in Calls \ {c} : wire'[d] = wire[d]
  BY DEF Execute, IInv, TypeOK, Progress
<1>3. TypeOK'
  BY <1>1, <1>2 DEF IInv, TypeOK, ToolTypeOK
<1>4. Same(c) /\ Kept
  BY <1>1, <1>2 DEF Same, Kept, IInv, FlagInv, Wifi
<1>5. Progressing(c) /\ Ordered(c) /\ Left(c) /\ Recorded(c) /\ Introduced(c)
  BY DEF IInv, CallInv
<1>6. Progressing(c)' /\ Left(c)' /\ Introduced(c)'
  BY <1>1, <1>5 DEF Progressing, Left, Introduced, Wifi
<1>7. Ordered(c)'
  BY <1>1, <1>2, <1>5 DEF Ordered
<1>8. Recorded(c)'
  <2>1. \A i \in 1 .. 2 : wire[c][i] = "ok" => wire'[c][i] = "ok"
    BY <1>1, <1>2
  <2>2. Len(Plans[tool[c]]) \in 1 .. 2
    BY PlanFacts DEF IInv, TypeOK, ToolTypeOK
  <2> QED BY <1>1, <1>5, <2>1, <2>2 DEF Recorded
<1> QED BY <1>3, <1>4, <1>6, <1>7, <1>8, Frame DEF CallInv

LEMMA CancelKeeps ==
  ASSUME IInv, NEW c \in Calls, Cancel(c)
  PROVE  IInv' /\ Same(c)
<1>1. /\ UNCHANGED <<tool, told, records, logging, kind, connected, wire>>
      /\ UNCHANGED <<board, known, introduced>>
      /\ outcome' = [outcome EXCEPT ![c] = "cancelled"]
      /\ place' = [place EXCEPT ![c] = "idle"]
  BY DEF Cancel, Cancelled, NoAudit, Goto, envVars
<1>2. outcome[c] = "none"
  BY DEF Cancel, IInv, TypeOK
<1>3. /\ left' \in [Calls -> {"none", "helper", "command"}]
      /\ \A d \in Calls \ {c} : left'[d] = left[d]
      /\ left'[c] = "command" => tool[c] # "adb_devices"
  BY <1>2, Position DEF Cancel, IInv, TypeOK
<1>4. TypeOK'
  BY <1>1, <1>3 DEF IInv, TypeOK, ToolTypeOK, Places, Outcomes
<1>5. Same(c) /\ Kept
  BY <1>1, <1>3 DEF Same, Kept, IInv, TypeOK, ToolTypeOK, FlagInv, Wifi
<1>6. outcome'[c] = "cancelled" /\ place'[c] = "idle"
  BY <1>1 DEF IInv, TypeOK, ToolTypeOK
<1>7. Progressing(c) /\ Ordered(c) /\ Recorded(c)
  BY DEF IInv, CallInv
<1>8. Progressing(c)' /\ Left(c)' /\ Introduced(c)'
  BY <1>1, <1>2, <1>3, <1>6, <1>7 DEF Progressing, Left, Introduced
<1>9. Ordered(c)' /\ Recorded(c)'
  BY <1>1, <1>2, <1>6, <1>7 DEF Ordered, Recorded
<1> QED BY <1>4, <1>5, <1>8, <1>9, Frame DEF CallInv

LEMMA LeftoverKeeps ==
  ASSUME IInv, NEW c \in Calls, LeftoverExits(c)
  PROVE  IInv' /\ Same(c)
<1>1. /\ UNCHANGED <<tool, told, records, outcome, logging, kind, place, connected, wire>>
      /\ UNCHANGED <<board, known, introduced>>
      /\ left' = [left EXCEPT ![c] = "none"]
  BY DEF LeftoverExits, toolVars, envVars
<1>2. TypeOK'
  BY <1>1 DEF IInv, TypeOK, ToolTypeOK
<1>3. Same(c) /\ Kept /\ left'[c] = "none"
  BY <1>1 DEF Same, Kept, IInv, TypeOK, FlagInv, Wifi
<1>4. CallInv(c)'
  BY <1>1, <1>3 DEF IInv, CallInv, Progressing, Ordered, Left, Recorded, Introduced, Wifi
<1> QED BY <1>2, <1>3, <1>4, Frame

LEMMA WorldKeeps ==
  ASSUME IInv, BoardDown \/ BoardUp \/ ServerChanges \/ UNCHANGED vars
  PROVE  IInv' /\ UNCHANGED <<tool, told, outcome, wire>>
<1>1. /\ UNCHANGED <<tool, told, records, outcome, logging, kind, place, connected>>
      /\ UNCHANGED <<wire, left, introduced>>
      /\ board' \in BOOLEAN /\ known' \in BOOLEAN
  BY DEF BoardDown, BoardUp, ServerChanges, vars, toolVars, envVars, IInv, TypeOK
<1>2. TypeOK' /\ FlagInv'
  BY <1>1 DEF IInv, TypeOK, ToolTypeOK, FlagInv, Wifi
<1>3. ASSUME NEW c \in Calls  PROVE CallInv(c)'
  BY <1>1 DEF IInv, CallInv, Progressing, Ordered, Left, Recorded, Introduced, Wifi
<1> QED BY <1>1, <1>2, <1>3 DEF IInv

-----------------------------------------------------------------------------
LEMMA InitIInv == Init => IInv
<1> SUFFICES ASSUME Init  PROVE IInv
  OBVIOUS
<1>1. TypeOK
  <2>1. ToolTypeOK
    BY ToolsAre DEF Init, ToolInit, ToolTypeOK, Outcomes
  <2>2. wire \in [Calls -> [1 .. 2 -> Progress]]
    BY DEF Init, Progress
  <2>3. place \in [Calls -> Places] /\ left \in [Calls -> {"none", "helper", "command"}]
    BY DEF Init, Places
  <2> QED BY <2>1, <2>2, <2>3 DEF Init, ToolInit, TypeOK
<1>2. ASSUME NEW c \in Calls  PROVE CallInv(c)
  BY ToolsAre, PlanFacts DEF Init, ToolInit, CallInv, Progressing, Ordered, Left,
     Recorded, Introduced
<1> QED BY <1>1, <1>2 DEF IInv, FlagInv, Init

LEMMA StepIInv == IInv /\ [Next]_vars => IInv'
<1> SUFFICES ASSUME IInv, [Next]_vars  PROVE IInv'
  OBVIOUS
<1>1. ASSUME NEW c \in Calls, NEW t \in Tools, Invoke(c, t) \/ Reject(c, t)
      PROVE  IInv'
  BY <1>1, BeginKeeps
<1>2. ASSUME NEW c \in Calls, Ends(c)  PROVE IInv'
  BY <1>2, EndsAnswer, AnsweredKeeps
<1>3. ASSUME NEW c \in Calls,
             SshOpens(c) \/ AdbConnects(c) \/ AdbWaited(c) \/ Timeout(c)
      PROVE  IInv'
  BY <1>3, MovesKeep
<1>4. ASSUME NEW c \in Calls, NEW i \in 1 .. 2, Transmit(c) \/ Execute(c, i)
      PROVE  IInv'
  BY <1>4, TransmitKeeps, ExecuteKeeps
<1>5. ASSUME NEW c \in Calls, Cancel(c) \/ LeftoverExits(c)  PROVE IInv'
  BY <1>5, CancelKeeps, LeftoverKeeps
<1> QED BY <1>1, <1>2, <1>3, <1>4, <1>5, WorldKeeps DEF Next, Resume, Ends

-----------------------------------------------------------------------------
(* Every request implements Transport                                      *)

Executed(c, i) == IF Happened(c, i) THEN wire[c][i] ELSE "no"
Maps(c, i) == Interface(c, i)!Next \/ UNCHANGED Interface(c, i)!vars

\* a step of the interface, in terms of what is substituted for its variables
LEMMA MapsTo ==
  ASSUME NEW c, NEW i,
         \/ AnswerOf(c, i)' = AnswerOf(c, i) /\ Executed(c, i)' = Executed(c, i)
         \/ /\ AnswerOf(c, i) = "new" /\ AnswerOf(c, i)' = "asked"
            /\ Executed(c, i)' = Executed(c, i)
         \/ /\ Executed(c, i) = "no" /\ AnswerOf(c, i) \in {"asked", "failed", "error"}
            /\ Executed(c, i)' \in {"ok", "failed"}
            /\ AnswerOf(c, i)' = AnswerOf(c, i)
         \/ /\ AnswerOf(c, i) = "asked"
            /\ AnswerOf(c, i)' \in {"ok", "failed", "error"}
            /\ AnswerOf(c, i)' = "ok" => Executed(c, i) = "ok"
            /\ Executed(c, i)' = Executed(c, i)
  PROVE  Maps(c, i)
BY DEF Maps, Executed, Interface!Next, Interface!Ask, Interface!Execute,
       Interface!Answer, Interface!vars

LEMMA OthersMap ==
  ASSUME IInv, NEW c \in Calls, Same(c), NEW d \in Calls \ {c}, NEW i \in 1 .. 2
  PROVE  Maps(d, i)
<1>1. AnswerOf(d, i)' = AnswerOf(d, i) /\ Executed(d, i)' = Executed(d, i)
  BY DEF Same, AnswerOf, At, Executed, Happened
<1> QED BY <1>1, MapsTo

\* AnswerOf, request by request
LEMMA AnswerAt ==
  ASSUME TypeOK, NEW c \in Calls, NEW i \in 1 .. 2
  PROVE  /\ tool[c] = "adb_devices" => AnswerOf(c, i) = "new"
         /\ tool[c] # "adb_devices" =>
              /\ i <= Len(told[c]) =>
                   AnswerOf(c, i) = IF told[c][i] = "raised" THEN "error" ELSE told[c][i]
              /\ i > Len(told[c]) + 1 => AnswerOf(c, i) = "new"
              /\ i = Len(told[c]) + 1 =>
                   AnswerOf(c, i) = IF outcome[c] = "none" THEN "asked"
                                    ELSE IF outcome[c] = "cancelled" THEN "error"
                                    ELSE "new"
<1>1. told[c] \in Seq(Answers) /\ outcome[c] \in Outcomes
  BY DEF TypeOK, ToolTypeOK
<1>2. DOMAIN told[c] = 1 .. Len(told[c]) /\ Len(told[c]) \in Nat
  BY <1>1
<1> QED BY <1>1, <1>2 DEF AnswerOf, At, Outcomes

\* ... and after a step
LEMMA AnswerNext ==
  ASSUME TypeOK', NEW c \in Calls, NEW i \in 1 .. 2
  PROVE  /\ tool'[c] = "adb_devices" => AnswerOf(c, i)' = "new"
         /\ tool'[c] # "adb_devices" =>
              /\ i <= Len(told'[c]) =>
                   AnswerOf(c, i)' = IF told'[c][i] = "raised" THEN "error" ELSE told'[c][i]
              /\ i > Len(told'[c]) + 1 => AnswerOf(c, i)' = "new"
              /\ i = Len(told'[c]) + 1 =>
                   AnswerOf(c, i)' = IF outcome'[c] = "none" THEN "asked"
                                     ELSE IF outcome'[c] = "cancelled" THEN "error"
                                     ELSE "new"
<1>1. told'[c] \in Seq(Answers) /\ outcome'[c] \in Outcomes
  BY DEF TypeOK, ToolTypeOK
<1>2. DOMAIN told'[c] = 1 .. Len(told'[c]) /\ Len(told'[c]) \in Nat
  BY <1>1
<1> QED BY <1>1, <1>2 DEF AnswerOf, At, Outcomes

LEMMA BeginMaps ==
  ASSUME IInv, NEW c \in Calls, NEW t \in Tools, Invoke(c, t) \/ Reject(c, t),
         NEW i \in 1 .. 2
  PROVE  Maps(c, i)
<1>1. /\ outcome[c] = "new" /\ tool' = [tool EXCEPT ![c] = t]
      /\ UNCHANGED <<told, wire>>
      /\ \/ outcome' = [outcome EXCEPT ![c] = "none"]
         \/ outcome' = [outcome EXCEPT ![c] = "rejected"]
  BY DEF Invoke, Reject, Started, Rejected, Begin
<1>2. Len(told[c]) = 0 /\ TypeOK /\ TypeOK'
  BY <1>1, BeginKeeps DEF IInv, CallInv, Progressing
<1>3. Executed(c, i)' = Executed(c, i)
  BY <1>1 DEF Executed, Happened
<1>4. AnswerOf(c, i) = "new"
  BY <1>1, <1>2, AnswerAt
<1>5. outcome'[c] \in {"none", "rejected"} /\ Len(told'[c]) = 0
  BY <1>1, <1>2 DEF TypeOK, ToolTypeOK
<1>6. AnswerOf(c, i)' \in {"new", "asked"}
  BY <1>2, <1>5, AnswerNext
<1> QED BY <1>3, <1>4, <1>6, MapsTo

LEMMA AnsweredMaps ==
  ASSUME IInv, NEW c \in Calls, NEW a, Answered(c, a), NEW i \in 1 .. 2
  PROVE  Maps(c, i)
<1>1. /\ outcome[c] = "none" /\ tool' = tool /\ TypeOK /\ TypeOK'
      /\ Len(told'[c]) = At(c) /\ told'[c][At(c)] = a
      /\ \A k \in 1 .. At(c) - 1 : told'[c][k] = told[c][k]
  BY AnsweredTells, AnsweredTypes DEF IInv
<1>2. At(c) \in 1 .. 2 /\ Len(told[c]) = At(c) - 1
  BY <1>1, Position
<1>3. Executed(c, i)' = Executed(c, i)
  BY DEF Answered, Executed, Happened
<1>4. CASE tool[c] = "adb_devices"
  <2>1. AnswerOf(c, i) = "new" /\ AnswerOf(c, i)' = "new"
    BY <1>1, <1>4, AnswerAt, AnswerNext
  <2> QED BY <1>3, <2>1, MapsTo
<1>5. CASE tool[c] # "adb_devices" /\ i < At(c)
  <2>1. i = 1 /\ At(c) = 2 /\ Len(told[c]) = 1 /\ Len(told'[c]) = 2
    BY <1>1, <1>2, <1>5
  <2>2. told'[c][i] = told[c][i]
    BY <1>1, <2>1
  <2>3. AnswerOf(c, i) = IF told[c][i] = "raised" THEN "error" ELSE told[c][i]
    BY <1>1, <1>5, <2>1, AnswerAt
  <2>4. AnswerOf(c, i)' = IF told[c][i] = "raised" THEN "error" ELSE told[c][i]
    BY <1>1, <1>5, <2>1, <2>2, AnswerNext
  <2> QED BY <1>3, <2>3, <2>4, MapsTo
<1>6. CASE tool[c] # "adb_devices" /\ i = At(c)
  <2>1. AnswerOf(c, i) = "asked"
    BY <1>1, <1>2, <1>6, AnswerAt
  <2>2. AnswerOf(c, i)' = IF a = "raised" THEN "error" ELSE a
    BY <1>1, <1>2, <1>6, AnswerNext
  <2>3. a = "ok" => Executed(c, i) = "ok"
    BY <1>6 DEF Answered, Executed, Happened
  <2>4. a \in Answers
    BY DEF Answered
  <2> QED BY <1>3, <2>1, <2>2, <2>3, <2>4, MapsTo DEF Answers
<1>7. CASE tool[c] # "adb_devices" /\ i > At(c)
  <2>1. i = 2 /\ At(c) = 1
    BY <1>2, <1>7
  <2>2. AnswerOf(c, i) = "new"
    BY <1>1, <1>2, <1>7, <2>1, AnswerAt
  <2>3. outcome'[c] \in {"none", "returned", "raised"}
    BY <1>1, AnsweredWays DEF GoesOn, Finishes, Breaks, TypeOK, ToolTypeOK
  <2>4. AnswerOf(c, i)' \in {"new", "asked"}
    <3>1. i = Len(told'[c]) + 1 /\ tool'[c] # "adb_devices"
      BY <1>1, <1>7, <2>1
    <3> QED BY <1>1, <2>3, <3>1, AnswerNext
  <2> QED BY <1>3, <2>2, <2>4, MapsTo
<1> QED BY <1>2, <1>4, <1>5, <1>6, <1>7

LEMMA ExecuteMaps ==
  ASSUME IInv, NEW c \in Calls, NEW j \in 1 .. 2, Execute(c, j), NEW i \in 1 .. 2
  PROVE  Maps(c, i)
<1>1. /\ UNCHANGED <<tool, told, outcome>>
      /\ wire[c][j] = "sent" /\ wire'[c][j] \in {"ok", "failed"}
      /\ \A k \in 1 .. 2 : k # j => wire'[c][k] = wire[c][k]
  BY DEF Execute, toolVars, IInv, TypeOK
<1>2. AnswerOf(c, i)' = AnswerOf(c, i)
  BY <1>1 DEF AnswerOf, At
<1>3. CASE i # j
  BY <1>1, <1>2, <1>3, MapsTo DEF Executed, Happened
<1>4. CASE i = j
  <2>1. Executed(c, i) = "no" /\ Executed(c, i)' \in {"ok", "failed"}
    BY <1>1, <1>4 DEF Executed, Happened
  <2>2. /\ tool[c] # "adb_devices" /\ i <= Len(told[c]) + 1
        /\ i = Len(told[c]) + 1 => outcome[c] \in {"none", "cancelled"}
        /\ i <= Len(told[c]) => told[c][i] # "ok"
    BY <1>1, <1>4 DEF IInv, CallInv, Ordered
  <2>3. /\ Len(told[c]) \in Nat
        /\ i <= Len(told[c]) => told[c][i] \in Answers
    BY DEF IInv, TypeOK, ToolTypeOK
  <2>4. AnswerOf(c, i) \in {"asked", "failed", "error"}
    BY <2>2, <2>3, AnswerAt DEF IInv, Answers
  <2> QED BY <1>2, <2>1, <2>4, MapsTo
<1> QED BY <1>3, <1>4

LEMMA CancelMaps ==
  ASSUME IInv, NEW c \in Calls, Cancel(c), NEW i \in 1 .. 2
  PROVE  Maps(c, i)
<1>1. /\ UNCHANGED <<tool, told, wire>> /\ outcome[c] = "none"
      /\ outcome'[c] = "cancelled" /\ TypeOK /\ TypeOK'
  BY CancelKeeps DEF Cancel, Cancelled, IInv, TypeOK, ToolTypeOK
<1>2. Executed(c, i)' = Executed(c, i)
  BY <1>1 DEF Executed, Happened
<1>3. \/ AnswerOf(c, i)' = AnswerOf(c, i)
      \/ AnswerOf(c, i) = "asked" /\ AnswerOf(c, i)' = "error"
  <2>1. Len(told[c]) \in Nat
    BY <1>1 DEF TypeOK, ToolTypeOK
  <2> QED BY <1>1, <2>1, AnswerAt, AnswerNext
<1> QED BY <1>2, <1>3, MapsTo

\* the steps that change nothing of what the interface sees of c
LEMMA QuietMaps ==
  ASSUME IInv, NEW c \in Calls, NEW i \in 1 .. 2,
         \/ SshOpens(c) \/ AdbConnects(c) \/ AdbWaited(c) \/ Timeout(c)
         \/ Transmit(c) \/ LeftoverExits(c)
  PROVE  Maps(c, i)
<1>1. UNCHANGED <<tool, told, outcome>>
  BY DEF SshOpens, AdbConnects, AdbWaited, Timeout, Transmit, LeftoverExits, toolVars
<1>2. AnswerOf(c, i)' = AnswerOf(c, i)
  BY <1>1 DEF AnswerOf, At
<1>3. Executed(c, i)' = Executed(c, i)
  <2>1. CASE Transmit(c)
    BY <2>1 DEF Transmit, Executed, Happened, IInv, TypeOK
  <2>2. CASE UNCHANGED wire
    BY <2>2 DEF Executed, Happened
  <2> QED BY <2>1, <2>2 DEF SshOpens, AdbConnects, AdbWaited, Timeout, LeftoverExits
<1> QED BY <1>2, <1>3, MapsTo

LEMMA StepMaps ==
  ASSUME IInv, [Next]_vars, NEW d \in Calls, NEW i \in 1 .. 2
  PROVE  Maps(d, i)
<1>1. ASSUME NEW c \in Calls, NEW t \in Tools, Invoke(c, t) \/ Reject(c, t)
      PROVE  Maps(d, i)
  BY <1>1, BeginKeeps, BeginMaps, OthersMap
<1>2. ASSUME NEW c \in Calls, Ends(c)  PROVE Maps(d, i)
  <2>1. PICK a : Answered(c, a)
    BY <1>2, EndsAnswer
  <2> QED BY <2>1, AnsweredKeeps, AnsweredMaps, OthersMap
<1>3. ASSUME NEW c \in Calls,
             SshOpens(c) \/ AdbConnects(c) \/ AdbWaited(c) \/ Timeout(c)
      PROVE  Maps(d, i)
  BY <1>3, MovesKeep, QuietMaps, OthersMap
<1>4. ASSUME NEW c \in Calls, Transmit(c) \/ LeftoverExits(c)  PROVE Maps(d, i)
  BY <1>4, TransmitKeeps, LeftoverKeeps, QuietMaps, OthersMap
<1>5. ASSUME NEW c \in Calls, NEW j \in 1 .. 2, Execute(c, j)  PROVE Maps(d, i)
  BY <1>5, ExecuteKeeps, ExecuteMaps, OthersMap
<1>6. ASSUME NEW c \in Calls, Cancel(c)  PROVE Maps(d, i)
  BY <1>6, CancelKeeps, CancelMaps, OthersMap
<1>7. CASE BoardDown \/ BoardUp \/ ServerChanges \/ UNCHANGED vars
  <2>1. AnswerOf(d, i)' = AnswerOf(d, i) /\ Executed(d, i)' = Executed(d, i)
    BY <1>7, WorldKeeps DEF AnswerOf, At, Executed, Happened
  <2> QED BY <2>1, MapsTo
<1> QED BY <1>1, <1>2, <1>3, <1>4, <1>5, <1>6, <1>7 DEF Next, Resume, Ends

LEMMA InitMaps ==
  ASSUME Init, NEW c \in Calls, NEW i \in 1 .. 2
  PROVE  Interface(c, i)!Init
<1>1. TypeOK /\ tool[c] = "command" /\ outcome[c] = "new" /\ told[c] = <<>> /\ wire[c][i] = "none"
  BY InitIInv DEF IInv, Init, ToolInit
<1>2. AnswerOf(c, i) = "new"
  BY <1>1, AnswerAt
<1> QED BY <1>1, <1>2 DEF Interface!Init, Happened

-----------------------------------------------------------------------------
(* Theorems                                                                *)

\* What a call has asked, heard and recorded always fits together.
THEOREM Invariance == Spec => []IInv
BY InitIInv, StepIInv, PTL DEF Spec

\* Every variable keeps its type, in particular a call waits somewhere exactly
\* while it is in progress.
THEOREM TypeCorrect == Spec => []TypeOK
<1>1. IInv => TypeOK
  BY DEF IInv
<1> QED BY Invariance, <1>1, PTL

\* A call that returns has left its records, whatever its transport did to it
\* (audit.py, the returns of tools/readonly.py and tools/writable.py).
THEOREM RecordsComplete == Spec => []EveryReturnRecorded
<1>1. IInv => EveryReturnRecorded
  BY DEF IInv, CallInv, Recorded, EveryReturnRecorded
<1> QED BY Invariance, <1>1, PTL

\* A record of success is of a command that was executed successfully.
THEOREM OkRecordsTrue == Spec => []OkRecordIsReal
<1>1. IInv => OkRecordIsReal
  <2> SUFFICES ASSUME IInv, NEW c \in Calls, NEW i \in 1 .. 2,
                      tool[c] \notin {"board_info", "adb_devices"},
                      i \in DOMAIN records[c], records[c][i]
               PROVE  wire[c][IF tool[c] = "export_gpio" THEN i
                              ELSE Len(Plans[tool[c]])] = "ok"
    BY DEF OkRecordIsReal
  <2>1. i <= Len(records[c])
    BY DEF IInv, TypeOK, ToolTypeOK
  <2> QED BY <2>1 DEF IInv, CallInv, Recorded
<1> QED BY Invariance, <1>1, PTL

\* The requests of a call are executed in their order, and insmod after a push
\* that succeeded (install_module).
THEOREM RequestsOrdered == Spec => []StepsInOrder
<1>1. IInv => StepsInOrder
  BY DEF IInv, CallInv, Ordered, StepsInOrder, Happened
<1> QED BY Invariance, <1>1, PTL

\* The adb server is told of a wifi target before any command for it, although
\* the flag that says so is not protected (_ensure_connected).
THEOREM ServerToldFirst == Spec => []TargetToldFirst
<1>1. IInv => TargetToldFirst
  <2> SUFFICES ASSUME IInv, NEW c \in Calls, place[c] = "command", Wifi, Op(c) # "devices"
               PROVE  introduced
    BY DEF TargetToldFirst
  <2>1. tool[c] # "adb_devices"
    BY Position DEF IInv, TypeOK
  <2> QED BY <2>1 DEF IInv, CallInv, Introduced
<1> QED BY Invariance, <1>1, PTL

\* No client outlives a call that returned, except for the one of
\* list_devices().
THEOREM ClientsReaped == Spec => []NothingLeftRunning
<1>1. IInv => NothingLeftRunning
  BY DEF IInv, CallInv, Left, NothingLeftRunning
<1> QED BY Invariance, <1>1, PTL

\* Every request made over ssh or adb is a behaviour of Transport: executed at
\* most once, and not reported as a success unless it was one.
THEOREM TransportImplemented == Spec => ImplementsTransport
<1>1. Init => \A c \in Calls, i \in 1 .. 2 : Interface(c, i)!Init
  BY InitMaps
<1>2. IInv /\ [Next]_vars =>
        [\A c \in Calls, i \in 1 .. 2 :
           Interface(c, i)!Next \/ UNCHANGED Interface(c, i)!vars]_vars
  BY StepMaps DEF Maps
<1> QED BY Invariance, <1>1, <1>2, PTL DEF Spec, ImplementsTransport
===============================================================================
