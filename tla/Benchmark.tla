----------------------------- MODULE Benchmark -----------------------------
(***************************************************************************)
(* One benchmark run: its row, the manager's thread that follows it        *)
(* (executeRun, or reconcileStaleRuns after a restart of the manager), the *)
(* capability calls to the eval node's agent, and the job itself, a        *)
(* systemd unit that outlives both processes.                              *)
(*                                                                         *)
(* The manager's single database connection serves queries in the order    *)
(* they are issued, so a query takes effect where it is issued and the     *)
(* code after its await is a later step.  Call ids count up from one in    *)
(* every life of the manager, so an answer to the previous manager may     *)
(* carry the id of a new call; ids are abstracted to that possibility.     *)
(* An answer nobody can take any more is dropped with its call.            *)
(*                                                                         *)
(* Sources: packages/server/src/routes/benchmarks.ts,                      *)
(* packages/server/src/benchmarks/{execute,orchestrator,remote-runner,     *)
(* boot-reconcile,reconcile,finalize-outcome}.ts,                          *)
(* packages/server/src/caps/cap-client.ts, packages/agent/src/caps and     *)
(* packages/agent/src/jobs.  BENCH_RUNNER=local is not here.               *)
(***************************************************************************)
EXTENDS Naturals, FiniteSets

CONSTANTS
  Kinds,        \* of run: plain, accuracy, proxied (through the reasoning proxy)
  Newlines,     \* which bytes of the job's log, counted from 1, end a line
  MaxBytes,     \* bound: bytes a job of each kind writes to its log
  MaxFaults,    \* bound: restarts of manager, agent or node, lost sockets, calls
                \* that time out and systemctl not answering
  MaxMixups     \* bound: answers to an earlier manager taken for new ones

ASSUME BenchmarkAssumption ==
  /\ Kinds \subseteq {"plain", "accuracy", "proxied"}
  /\ Newlines \subseteq Nat
  /\ MaxBytes \in [Kinds -> Nat]
  /\ {MaxFaults, MaxMixups} \subseteq Nat

VARIABLES
  row,      \* the BenchmarkRun: status ("none" before the POST, "gone" after
            \* DELETE), error and logOffset
  kind,     \* the run's kind
  thread,   \* the manager's thread of the run: where it is, why it fails the run,
            \* skipStart, and the variables of runTrackedRemote; unsaved: an update
            \* of logOffset is under way
  link,     \* the agent's socket is open
  net,      \* capability calls under way
  job,      \* the systemd unit, how the command in it ended, and its files
  log,      \* the manager's log: how many of the job's bytes, one of them twice, and
            \* one of the job's lines as two
  happened, \* history: what the properties make exceptions for
  hiccups, faults, mixups

bounds == <<hiccups, faults, mixups>>
vars == <<row, kind, thread, link, net, job, log, happened, bounds>>

\* The places of the thread that wait for an answer, and what they called.
Called == [bootstatus |-> "job.status", bootcancel |-> "job.cancel",
           start |-> "job.start", logs |-> "job.logs", status |-> "job.status",
           probe |-> "job.result", tail |-> "job.logs", result |-> "job.result"]

Results == {"none", "empty", "good"}

Statuses == {"none", "pending", "running", "canceled", "failed", "completed", "gone"}
Errors == {"none", "start", "vanished", "orphan", "proxy", "exit", "nooutput"}
Places == DOMAIN Called \cup {"idle", "post", "posted", "proxy", "boot", "finwrite",
                              "failwrite"}
Caps == {"job.start", "job.status", "job.logs", "job.result", "job.cancel"}
Values == {"none", "error", "done", "active", "missing", "ok", "bad", "empty", "good"}
Happenings == {"canceled", "heard", "lostOffset", "startLate", "blind", "tailLost",
               "proxyLost", "rebooted", "midline"}

Calls == [name : Caps, tag : {"cur", "old", "stale"},
          at : {"asked", "shown", "answered"}, val : Values, to : Nat]

\* Every variable has its type.
TypeOK ==
  /\ row \in [status : Statuses, error : Errors, logOffset : Nat]
  /\ kind \in Kinds
  /\ thread \in [at : Places, why : Errors, skipStart : BOOLEAN,
                 offset : Nat, code : {"none", "ok", "bad"},
                 raw : Results, unsaved : BOOLEAN]
  /\ link \in BOOLEAN
  /\ net \subseteq Calls
  /\ job \in [unit : {"none", "live", "copied", "done", "stopping", "gone"},
              rc : {"none", "ok", "bad"}, exitFile : BOOLEAN, result : Results,
              size : Nat]
  /\ log \in [bytes : Nat, twice : BOOLEAN, cut : BOOLEAN]
  /\ happened \subseteq Happenings
  /\ hiccups \in 0 .. MaxFaults /\ faults \in 0 .. MaxFaults
  /\ mixups \in 0 .. MaxMixups

Fresh(at) == [at |-> at, why |-> "none", skipStart |-> FALSE, offset |-> 0,
              code |-> "none", raw |-> "none", unsaved |-> FALSE]

Init ==
  /\ row = [status |-> "none", error |-> "none", logOffset |-> 0]
  /\ kind \in Kinds
  /\ thread = Fresh("idle")
  /\ link = TRUE
  /\ net = {}
  /\ job = [unit |-> "none", rc |-> "none", exitFile |-> FALSE, result |-> "none",
            size |-> 0]
  /\ log = [bytes |-> 0, twice |-> FALSE, cut |-> FALSE]
  /\ happened = {}
  /\ hiccups = 0 /\ faults = 0 /\ mixups = 0

Row == row.status \notin {"none", "gone"}

\* The thread follows the run.
Followed == thread.at # "idle"

MayFault == hiccups + faults < MaxFaults

-----------------------------------------------------------------------------
(* Capability calls.                                                       *)

Request(name, tag) == [name |-> name, tag |-> tag, at |-> "asked", val |-> "none",
                       to |-> 0]

\* invoke: sendToAgent drops the request when the agent is not connected.
Invoke(rest, name) == IF link THEN rest \cup {Request(name, "cur")} ELSE rest

\* The thread t makes the call of place p.
CallAt(t, p, rest) ==
  /\ thread' = [t EXCEPT !.at = p]
  /\ net' = Invoke(rest, Called[p])

\* What is left when the thread waits no longer: a job.start or job.cancel that
\* the agent has yet to carry out.
Abandoned(calls) ==
  {r \in calls : r.tag # "cur"} \cup
  {[r EXCEPT !.tag = "stale"] :
     r \in {q \in calls : /\ q.tag = "cur" /\ q.at = "asked"
                           /\ q.name \in {"job.start", "job.cancel"}}}

\* An answer as the thread takes it: its value, the calls that remain, and what
\* went wrong.
Taken(val, to, rest, slip) == [val |-> val, to |-> to, rest |-> rest, slip |-> slip]

\* onResult for the pending call.
Replies == {Taken(r.val, r.to, net \ {r}, "none") :
              r \in {q \in net : q.tag = "cur" /\ q.at = "answered"}}

\* The timer of invoke: the request or its answer is lost, or only late.
TimeOuts ==
  {Taken("error", 0, Abandoned(net), s) :
     s \in {x \in {"none", "hiccup"} :
              IF x = "none" THEN \A r \in net : r.tag # "cur"
                            ELSE MayFault /\ \E r \in net : r.tag = "cur"}}

\* onResult for a call of the manager's earlier life that had the same id.
Mixups ==
  {Taken(IF r.name = Called[thread.at] THEN r.val ELSE "wrong", r.to,
         Abandoned(net \ {r}), "mixup") :
     r \in {q \in net : q.tag = "old" /\ q.at = "answered" /\ mixups < MaxMixups}}

Answers == IF thread.at \in DOMAIN Called THEN Replies \cup TimeOuts \cup Mixups ELSE {}

\* The pending call of place p resolves to a.
Resolved(p, a) ==
  /\ thread.at = p
  /\ hiccups' = IF a.slip = "hiccup" THEN hiccups + 1 ELSE hiccups
  /\ mixups' = IF a.slip = "mixup" THEN mixups + 1 ELSE mixups
  /\ UNCHANGED <<kind, job, faults>>

-----------------------------------------------------------------------------
(* POST /, cancel and DELETE.                                              *)

\* The deployment runs and has no run under way: the row is created.
Create ==
  /\ row.status = "none"
  /\ row' = [row EXCEPT !.status = "pending"]
  /\ thread' = Fresh("post")
  /\ UNCHANGED <<kind, link, net, job, log, happened, bounds>>

\* ... and set running, whatever became of it; a deleted row ends the request.
PostRunning ==
  /\ thread.at = "post"
  /\ IF Row THEN row' = [row EXCEPT !.status = "running"] ELSE row' = row
  /\ thread' = [thread EXCEPT !.at = IF Row THEN "posted" ELSE "idle"]
  /\ UNCHANGED <<kind, link, net, job, log, happened, bounds>>

\* dispatch of a run: to job.start, or to the first poll of a resumed one.
Dispatch(t, rest) == CallAt(t, IF t.skipStart THEN "logs" ELSE "start", rest)

\* runAccuracy starts the reasoning proxy first.
Run(t, rest) ==
  IF kind = "proxied" THEN thread' = [t EXCEPT !.at = "proxy"] /\ net' = rest
                      ELSE Dispatch(t, rest)

\* executeRun of the POST.
Execute ==
  /\ thread.at = "posted"
  /\ Run(thread, net)
  /\ UNCHANGED <<row, kind, link, job, log, happened, bounds>>

\* The proxy listens.
ProxyUp ==
  /\ thread.at = "proxy"
  /\ Dispatch(thread, net)
  /\ UNCHANGED <<row, kind, link, job, log, happened, bounds>>

RegisteredNever == FALSE          \* mutant: cancelBenchmark never finds the run

\* REMOTE_ACTIVE has the run while it is dispatched.
Registered == thread.at \in {"start", "logs", "status", "probe", "tail", "result"}

\* cancelBenchmark: job.cancel, without waiting for it.
CancelBenchmark ==
  IF Registered /\ link THEN net \cup {Request("job.cancel", "stale")} ELSE net

\* POST /:id/cancel: then the row, whatever its status was.
Cancel ==
  /\ Row /\ "canceled" \notin happened
  /\ row' = [row EXCEPT !.status = "canceled"]
  /\ net' = CancelBenchmark
  /\ happened' = happened \cup {"canceled"} \cup
                 (IF thread.at \in {"logs", "status"} /\ link THEN {"heard"} ELSE {})
  /\ UNCHANGED <<kind, thread, link, job, log, bounds>>

\* DELETE /:id looks at nothing but the row's existence.
Delete ==
  /\ Row
  /\ row' = [row EXCEPT !.status = "gone"]
  /\ UNCHANGED <<kind, thread, link, net, job, log, happened, bounds>>

-----------------------------------------------------------------------------
(* The end of a run.  A finalizer reads the row, and writes a step later.  *)

\* The row as finalize*, and again finishFailed, first read it.
NotCanceled == row.status # "canceled"

\* The thread t has its exit status and its result.
Finalize(t) == thread' = [t EXCEPT !.at = IF NotCanceled THEN "finwrite" ELSE "idle"]

FinishFailed(t, why) ==
  thread' = [t EXCEPT !.at = IF NotCanceled THEN "failwrite" ELSE "idle", !.why = why]

CompleteOnExit == thread.code = "ok"   \* mutant: complete on the exit code alone

\* decideFinalize: exit status 0 and something to compare.
Complete == thread.code = "ok" /\ thread.raw = "good"

\* finalizeAccuracy writes the failure of a run that exited 0 itself.
FailedDirectly == ~Complete /\ thread.code = "ok" /\ kind # "plain"

\* The write of finalizeThroughput, finalizeToolEval or finalizeAccuracy.  On a
\* deleted row it throws, which leads to finishFailed too.
FinalWrite ==
  /\ thread.at = "finwrite"
  /\ IF Row /\ (Complete \/ FailedDirectly)
     THEN /\ row' = [row EXCEPT !.status = IF Complete THEN "completed" ELSE "failed",
                                !.error = IF Complete THEN "none" ELSE "nooutput"]
          /\ thread' = [thread EXCEPT !.at = "idle"]
     ELSE /\ FinishFailed(thread, IF thread.code = "ok" THEN "nooutput" ELSE "exit")
          /\ row' = row
  /\ UNCHANGED <<kind, link, net, job, log, happened, bounds>>

\* The manager ends and starts again: its socket goes with what was on it, and
\* the requests the agent has received are answered to whoever listens then.
ManagerEnds(received) ==
  /\ received \subseteq {r \in net : r.at # "answered"}
  /\ net' = {[r EXCEPT !.tag = "old"] : r \in received}
  /\ link' = FALSE
  /\ thread' = Fresh("boot")
  /\ happened' = happened \cup (IF thread.unsaved THEN {"lostOffset"} ELSE {})
                          \cup (IF \E r \in received : r.name = "job.start" /\ r.at = "asked"
                                THEN {"startLate"} ELSE {})

Failed(why) == [row EXCEPT !.status = "failed", !.error = why]

\* The write of finishFailed.  On a deleted row it throws inside a catch handler:
\* the rejection is handled by nobody and ends the process.
FailWrite ==
  /\ thread.at = "failwrite"
  /\ IF Row
     THEN /\ row' = Failed(thread.why)
          /\ thread' = [thread EXCEPT !.at = "idle"]
          /\ UNCHANGED <<link, net, happened>>
     ELSE /\ row' = row
          /\ \E received \in SUBSET net : ManagerEnds(received)
  /\ UNCHANGED <<kind, job, log, bounds>>

-----------------------------------------------------------------------------
(* runTrackedRemote, from answer to answer.                                *)

\* The answer to job.start.  A refusal and a timeout both fail the run.
TakeStart(a) ==
  /\ Resolved("start", a)
  /\ IF a.val # "error"
     THEN CallAt(thread, "logs", a.rest)
     ELSE FinishFailed(thread, "start") /\ net' = a.rest
  /\ happened' = IF a \in Replies THEN happened ELSE happened \cup {"startLate"}
  /\ UNCHANGED <<row, link, log>>

\* offset = nextOffset, and onOffset, which is not waited for.
Advanced(t, to) == [t EXCEPT !.offset = to, !.unsaved = @ \/ to # t.offset]

\* drain: the bytes from the offset on go to the manager's log.  Without an answer
\* nothing happens; an answer that is none of job.logs leaves no offset, which
\* the next job.logs reads as 0.
Chunk(a) == a.val \notin {"error", "wrong"}

Drained(a) ==
  CASE a.val = "error" -> thread
    [] a.val = "wrong" -> [thread EXCEPT !.offset = 0]
    [] OTHER -> Advanced(thread, a.to)

\* planRead: an offset past the end of the log is taken for one of another file.
From(prev, size) == IF prev > size THEN 0 ELSE prev

\* Every piece of a chunk between newlines is logged as a line: a chunk that begins
\* at o begins inside a line unless byte o ended one or byte o + 1 does.
BreaksLine(o) == o > 0 /\ {o, o + 1} \cap Newlines = {}

\* The chunk has the bytes after the offset asked for, up to a.to; what offset an
\* earlier manager had asked for is not kept.
DrainLog(a) ==
  LET from == From(thread.offset, a.to)
  IN  log' = IF Chunk(a)
             THEN [bytes |-> IF a.to > log.bytes THEN a.to ELSE log.bytes,
                   twice |-> log.twice \/ (from < a.to /\ from < log.bytes),
                   cut |-> log.cut \/ (from < a.to /\ BreaksLine(from))]
             ELSE log

\* History: the job was inside a line when it was read.
ReadMidline(a) == IF Chunk(a) /\ BreaksLine(a.to) THEN {"midline"} ELSE {}

TakeLogs(a) ==
  /\ Resolved("logs", a)
  /\ DrainLog(a)
  /\ CallAt(Drained(a), "status", a.rest)
  /\ happened' = happened \cup ReadMidline(a)
  /\ UNCHANGED <<row, link>>

NoAnswerIsDead(s) == s \in {"missing", "error"}   \* mutant: unknown is a verdict

\* Only a unit that systemd positively reports gone may be a dead job.
Missing(s) == s = "missing"

\* The answer to job.status: nextPollAction.  An answer of another shape falls
\* through every test of it to the last one.
TakeStatus(a) ==
  /\ Resolved("status", a)
  /\ CASE Missing(a.val) -> CallAt(thread, "probe", a.rest)
       [] a.val \in {"ok", "bad"} ->
            CallAt([thread EXCEPT !.code = a.val], "tail", a.rest)
       [] a.val = "wrong" -> FinishFailed(thread, "vanished") /\ net' = a.rest
       [] OTHER -> CallAt(thread, "logs", a.rest)
  /\ UNCHANGED <<row, link, log, happened>>

\* The unit is gone without an exit file: the run has finished if it left a
\* result, and failed otherwise, also when the probe is not answered.
TakeProbe(a) ==
  /\ Resolved("probe", a)
  /\ IF a.val \in {"empty", "good"}
     THEN CallAt([thread EXCEPT !.raw = a.val], "tail", a.rest)
     ELSE FinishFailed(thread, "vanished") /\ net' = a.rest
  /\ happened' = IF a.val = "error" THEN happened \cup {"blind"} ELSE happened
  /\ UNCHANGED <<row, link, log>>

\* The final drain.
TakeTail(a) ==
  /\ Resolved("tail", a)
  /\ DrainLog(a)
  /\ IF thread.code # "none"
     THEN CallAt(Drained(a), "result", a.rest)
     ELSE Finalize([Drained(a) EXCEPT !.code = "ok"]) /\ net' = a.rest
  /\ happened' = happened \cup ReadMidline(a) \cup
                 (IF a.val = "error" THEN {"tailLost"} ELSE {})
  /\ UNCHANGED <<row, link>>

\* rawOutput, only of a command that exited 0.
RawOutput(a) == IF thread.code = "ok" /\ a.val \in Results THEN a.val ELSE "none"

TakeResult(a) ==
  /\ Resolved("result", a)
  /\ Finalize([thread EXCEPT !.raw = RawOutput(a)])
  /\ net' = a.rest
  /\ happened' = IF a.val = "error" THEN happened \cup {"blind"} ELSE happened
  /\ UNCHANGED <<row, link, log>>

\* The update of logOffset takes effect.
SaveOffset ==
  /\ thread.unsaved
  /\ thread' = [thread EXCEPT !.unsaved = FALSE]
  /\ row' = IF Row THEN [row EXCEPT !.logOffset = thread.offset] ELSE row
  /\ UNCHANGED <<kind, link, net, job, log, happened, bounds>>

-----------------------------------------------------------------------------
(* reconcileStaleRuns.                                                     *)

StaleRunning == row.status = "running"   \* mutant: pending rows are overlooked

\* The rows that no thread follows any more.
Stale == row.status \in {"pending", "running"}

\* The query at the manager's start.
Boot ==
  /\ thread.at = "boot"
  /\ IF Stale
     THEN CallAt(thread, "bootstatus", net)
     ELSE thread' = Fresh("idle") /\ net' = net
  /\ UNCHANGED <<row, kind, link, job, log, happened, bounds>>

\* The row is failed without another look at it; a deleted one ends the manager.
BootFails(why, rest) ==
  IF Row
  THEN /\ row' = Failed(why)
       /\ thread' = Fresh("idle")
       /\ net' = rest
       /\ UNCHANGED <<link, happened>>
  ELSE row' = row /\ \E received \in SUBSET rest : ManagerEnds(received)

FromTheStart == 0                 \* mutant: the log is read from its start again

\* startOffset of a resumed run.
StartOffset == row.logOffset

\* reconcileAction: what could not be asked is resumed.
TakeBootStatus(a) ==
  /\ Resolved("bootstatus", a)
  /\ CASE Missing(a.val) -> BootFails("orphan", a.rest)
       [] a.val = "active" /\ kind = "proxied" ->
            /\ CallAt(thread, "bootcancel", a.rest)
            /\ happened' = happened \cup {"proxyLost"}
            /\ UNCHANGED <<row, link>>
       [] OTHER -> /\ Run([thread EXCEPT !.skipStart = TRUE, !.offset = StartOffset], a.rest)
                   /\ UNCHANGED <<row, link, happened>>
  /\ UNCHANGED log

\* Its proxy died with the old manager: whatever job.cancel answers.
TakeBootCancel(a) ==
  /\ Resolved("bootcancel", a)
  /\ BootFails("proxy", a.rest)
  /\ UNCHANGED log

-----------------------------------------------------------------------------
(* The agent.  Handlers of different requests interleave.                  *)

\* sendMsg of the answer: lost without a socket, and not modelled when nobody
\* can take it.
Answer(r, val, to) ==
  net' = (net \ {r}) \cup
         (IF link /\ (r.tag = "cur" \/ (r.tag = "old" /\ mixups < MaxMixups))
          THEN {[r EXCEPT !.at = "answered", !.val = val, !.to = to]} ELSE {})

\* job.start: systemd-run makes the unit, or does not.
HandleStart(r, ok) ==
  /\ r.name = "job.start" /\ r.at = "asked"
  /\ job' = IF ok THEN [job EXCEPT !.unit = "live"] ELSE job
  /\ Answer(r, IF ok THEN "done" ELSE "error", 0)
  /\ UNCHANGED <<row, kind, thread, link, log, happened, bounds>>

\* job.status, first half: systemctl show.  A unit being stopped is deactivating
\* and its main status still reads 0.
Show ==
  CASE job.unit \in {"live", "copied", "done"} -> "active"
    [] job.unit = "stopping" -> "ok"
    [] OTHER -> "missing"

HandleShow(r, unknown) ==
  /\ r.name = "job.status" /\ r.at = "asked"
  /\ unknown => MayFault
  /\ hiccups' = IF unknown THEN hiccups + 1 ELSE hiccups
  /\ net' = (net \ {r}) \cup
             {[r EXCEPT !.at = "shown", !.val = IF unknown THEN "error" ELSE Show]}
  /\ UNCHANGED <<row, kind, thread, link, job, log, happened, faults, mixups>>

\* Second half: an exit file overrules systemd, except when it did not answer.
WithExitFile(val) ==
  IF val \in {"active", "missing"} /\ job.exitFile THEN job.rc ELSE val

HandleStatus(r) ==
  /\ r.name = "job.status" /\ r.at = "shown"
  /\ Answer(r, WithExitFile(r.val), 0)
  /\ UNCHANGED <<row, kind, thread, link, job, log, happened, bounds>>

\* job.logs: the log's bytes up to its end at this moment, wherever that is.
HandleLogs(r) ==
  /\ r.name = "job.logs" /\ r.at = "asked"
  /\ Answer(r, "done", job.size)
  /\ UNCHANGED <<row, kind, thread, link, job, log, happened, bounds>>

HandleResult(r) ==
  /\ r.name = "job.result" /\ r.at = "asked"
  /\ Answer(r, job.result, 0)
  /\ UNCHANGED <<row, kind, thread, link, job, log, happened, bounds>>

\* job.cancel: systemctl stop; a unit that is not there is as good as stopped.
HandleCancel(r) ==
  /\ r.name = "job.cancel" /\ r.at = "asked"
  /\ job' = IF job.unit \in {"live", "copied", "done"}
            THEN [job EXCEPT !.unit = "stopping"] ELSE job
  /\ Answer(r, "done", 0)
  /\ UNCHANGED <<row, kind, thread, link, log, happened, bounds>>

\* onResult without a pending call of the id.
IgnoreAnswer(r) ==
  /\ r.tag = "old" /\ r.at = "answered"
  /\ net' = net \ {r}
  /\ UNCHANGED <<row, kind, thread, link, job, log, happened, bounds>>

-----------------------------------------------------------------------------
(* The job; what it does when no thread follows it makes no difference.    *)

\* The command writes a byte to its log.
WriteLog ==
  /\ Followed
  /\ job.unit = "live" /\ job.size < MaxBytes[kind]
  /\ job' = [job EXCEPT !.size = @ + 1]
  /\ UNCHANGED <<row, kind, thread, link, net, log, happened, bounds>>

\* How a command may end: its exit status and what result it leaves.
Endings == {"ok"} \X Results \cup {"bad"} \X {"none", "good"}

\* The command ends and the wrapper copies the result it finds.
CommandEnds(rc, result) ==
  /\ Followed
  /\ job.unit = "live"
  /\ job' = [job EXCEPT !.unit = "copied", !.rc = rc, !.result = result]
  /\ UNCHANGED <<row, kind, thread, link, net, log, happened, bounds>>

\* The exit file, last; RemainAfterExit keeps the unit.
WriteExit ==
  /\ job.unit = "copied"
  /\ job' = [job EXCEPT !.unit = "done", !.exitFile = TRUE]
  /\ UNCHANGED <<row, kind, thread, link, net, log, happened, bounds>>

Stopped ==
  /\ job.unit = "stopping"
  /\ job' = [job EXCEPT !.unit = "gone"]
  /\ UNCHANGED <<row, kind, thread, link, net, log, happened, bounds>>

-----------------------------------------------------------------------------
(* Faults, while a thread follows the run.                                 *)

Fault ==
  /\ Followed
  /\ MayFault
  /\ faults' = faults + 1

\* The manager is restarted.
ManagerRestart ==
  /\ Fault
  /\ \E received \in SUBSET net : ManagerEnds(received)
  /\ UNCHANGED <<row, kind, job, log, hiccups, mixups>>

\* The agent is restarted, with its node or alone.
AgentRestart(node) ==
  /\ Fault
  /\ link' = FALSE
  /\ net' = {}
  /\ job' = IF node /\ job.unit # "none" THEN [job EXCEPT !.unit = "gone"] ELSE job
  /\ happened' = IF node THEN happened \cup {"rebooted"} ELSE happened
  /\ UNCHANGED <<row, kind, thread, log, hiccups, mixups>>

\* The socket is lost; a request the agent has received is answered on the next.
Drop ==
  /\ link
  /\ Fault
  /\ link' = FALSE
  /\ net' \in SUBSET {r \in net : r.at # "answered"}
  /\ UNCHANGED <<row, kind, thread, job, log, happened, hiccups, mixups>>

Reconnect ==
  /\ ~link
  /\ link' = TRUE
  /\ UNCHANGED <<row, kind, thread, net, job, log, happened, bounds>>

-----------------------------------------------------------------------------

ManagerStep ==
  \/ PostRunning \/ Execute \/ ProxyUp \/ FinalWrite \/ FailWrite \/ Boot
  \/ \E a \in Answers :
       \/ TakeStart(a) \/ TakeLogs(a) \/ TakeStatus(a) \/ TakeProbe(a) \/ TakeTail(a)
       \/ TakeResult(a) \/ TakeBootStatus(a) \/ TakeBootCancel(a)

AgentStep ==
  \E r \in net :
    \/ \E b \in BOOLEAN : HandleStart(r, b) \/ HandleShow(r, b)
    \/ HandleStatus(r) \/ HandleLogs(r) \/ HandleResult(r) \/ HandleCancel(r)
    \/ IgnoreAnswer(r)

UnitStep == WriteExit \/ Stopped

Event ==
  \/ Create \/ Cancel \/ Delete
  \/ WriteLog \/ \E e \in Endings : CommandEnds(e[1], e[2])
  \/ ManagerRestart \/ Drop \/ \E node \in BOOLEAN : AgentRestart(node)

Next == ManagerStep \/ AgentStep \/ UnitStep \/ SaveOffset \/ Reconnect \/ Event

Spec == Init /\ [][Next]_vars

\* Manager, agent and systemd go on with what they have begun, every call of the
\* thread resolves (invoke has a timer), and the agent connects again.  The
\* benchmark command may run for ever.
Fairness ==
  /\ WF_vars(ManagerStep)
  /\ WF_vars(AgentStep)
  /\ WF_vars(\E r \in net : HandleCancel(r))
  /\ WF_vars(UnitStep)
  /\ WF_vars(Reconnect)

FairSpec == Spec /\ Fairness

-----------------------------------------------------------------------------
(* Properties.                                                             *)

\* A run recorded as completed has a result worth recording, from a command that
\* succeeded, through every poll, restart and reattachment (decideFinalize, the
\* exit file written last).  The exit status stays unknown only where a node went
\* down between the copy of the result and the exit file, where a job.start was
\* carried out after the manager that asked for it had gone, and where a manager
\* that restarts a second time finds the unit deactivating that reconcileStaleRuns
\* had told to stop because its proxy died: systemd's 0 for it is then taken for
\* the command's.
CompletedIsReal ==
  row.status = "completed" =>
    /\ job.result = "good"
    /\ job.rc = "ok" \/ happened \cap {"rebooted", "startLate", "proxyLost"} # {}

\* Nothing is declared dead or worthless because it could not be asked: calls that
\* time out, agents that restart and sockets that drop fail no run (nextPollAction
\* and reconcileAction).  The exceptions are the code's own: a job.result that is
\* not answered, a job.start that is, but too late, and an answer to an earlier
\* manager.
NoFalseFailure ==
  row.status = "failed" /\ mixups = 0 /\ "startLate" \notin happened =>
    CASE row.error \in {"vanished", "orphan"} ->
           /\ job.unit \notin {"live", "copied", "done"} /\ ~job.exitFile
           /\ job.result = "none" \/ "blind" \in happened \/ row.error = "orphan"
      [] row.error = "exit" -> job.rc = "bad" \/ "canceled" \in happened
      [] row.error = "nooutput" -> job.result # "good" \/ "blind" \in happened
      [] OTHER -> TRUE

\* The manager's log, from which the null completions of a run are counted, has
\* every byte of a completed job's log, across restarts of both processes, and none
\* twice: unless the last drain was not answered, and but for bytes whose offset
\* the manager had not stored when it ended.  Offsets are of bytes and every chunk
\* is split into lines by itself (drain, planRead): a line stands in the log as two
\* only where an earlier read met it half written.
LogExact ==
  mixups = 0 =>
    /\ row.status = "completed" => log.bytes = job.size \/ "tailLost" \in happened
    /\ log.twice => "lostOffset" \in happened
    /\ log.cut => "midline" \in happened

\* A row that says pending or running has a live job behind it or comes to its
\* end, wherever the manager, the agent or the node was restarted.
EveryRunEnds ==
  row.status \in {"pending", "running"} ~>
    row.status \notin {"pending", "running"} \/ job.unit = "live"

\* Cancelling a run that is being polled stops its job, however long the command
\* would have run.
CancelStops == "heard" \in happened ~> job.unit # "live" \/ faults > 0

=============================================================================
