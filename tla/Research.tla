------------------------------ MODULE Research ------------------------------
(***************************************************************************)
(* research/tauric.py: one analysis.  The parent (analyze, propagate,      *)
(* _run_process) spawns a worker process, waits for its answer on a pipe   *)
(* for a limited time, and ends the process in any case.  In the worker    *)
(* the pinned graph calls tools from threads of its own, and a recorder of *)
(* callbacks turns these calls into the trace which the parent accepts as  *)
(* evidence.  The graph is external: it may call any tool, swallow an      *)
(* error, raise, or hang.                                                  *)
(*                                                                         *)
(* Days are numbers.  What one timeout leaves open is a choice: a wait     *)
(* with a limit may end without its event as long as the event is missing. *)
(***************************************************************************)
EXTENDS Integers, FiniteSets, FiniteSetsExt, Sequences

CONSTANTS Tools,       \* tool runs of the graph (run_id)
          CallIds,     \* tool_call_id of a run
          Outputs,     \* what a tool may return: [kind, proper, upTo, days]
          AsOf,        \* the day of as_of
          MayInterrupt \* whether one KeyboardInterrupt may reach the parent

ASSUME OutputsAssumption ==
    \A o \in Outputs : /\ o.kind \in {"stock", "indicator", "snapshot", "other"}
                       /\ o.proper \in BOOLEAN /\ o.upTo \in Int
                       /\ IsFiniteSet(o.days) /\ o.days \subseteq Int
ASSUME CallIdsAssumption == IsFiniteSet(CallIds)
ASSUME DayAssumption == AsOf \in Int /\ MayInterrupt \in BOOLEAN

VARIABLES parent,   \* [pc, answer, outcome, final]: the call of analyze
          worker,   \* [life, pc, signals]: the spawned process
          pipe,     \* chunks written and not yet read; a result takes two writes
          tool,     \* tool[t]: the run t as the graph knows it
          recorder, \* [failed, pending, completed, ids]: _ToolTraceRecorder
          trace,    \* the trace the worker has exported
          scratch,  \* whether the temporary directory exists
          packet    \* published_at of the evidence of the ResearchPacket

vars == <<parent, worker, pipe, tool, recorder, trace, scratch, packet>>
graphVars == <<tool, recorder, trace>>

NoDay == -99
NewRun == [status |-> "new", id |-> "none", order |-> 0, output |-> "none"]
Returned == {t \in Tools : tool[t].status = "returned"}

-----------------------------------------------------------------------------
(* The evidence in a trace: _extract_evidence *)

\* analysis_cutoff: the day before as_of.
Cutoff == AsOf - 1

\* _validated_stock_trace, _validated_indicator_trace, _validated_snapshot_trace: a
\* result that is well formed, for the symbol, asked for up to the cutoff, and
\* without a day after it; an indicator must reach the cutoff itself.  The days are
\* those of the lines that carry a date: the remarks that end an indicator are not read.
Asked(o) == o.proper /\ o.upTo = Cutoff /\ o.days # {}
\* Mutant of Admitted: an indicator is taken without a look at its days.
AdmittedLate(o) == \/ o.kind \in {"stock", "snapshot"} /\ Asked(o) /\ Max(o.days) <= Cutoff
                   \/ o.kind = "indicator" /\ Asked(o)
Admitted(o) == \/ o.kind \in {"stock", "snapshot"} /\ Asked(o) /\ Max(o.days) <= Cutoff
               \/ o.kind = "indicator" /\ Asked(o) /\ Max(o.days) = Cutoff

SourceDays(tr) == {Max(tr[n].output.days) : n \in {m \in 1..Len(tr) :
                                                     tr[m].output.kind \in {"stock", "snapshot"}}}
\* The instant the evidence counts as published, or NoDay when it is refused.
Published(tr) ==
    IF /\ tr # <<>>
       /\ \A n \in 1..Len(tr) : Admitted(tr[n].output)
       /\ \A m, n \in 1..Len(tr) : tr[m].id = tr[n].id => m = n
       /\ \E n \in 1..Len(tr) : tr[n].output.kind = "stock"
       /\ Max(SourceDays(tr)) + 1 <= AsOf
    THEN Max(SourceDays(tr)) + 1
    ELSE NoDay

-----------------------------------------------------------------------------
(* The recorder, called by the tool threads under its lock *)

Working == worker.life = "alive" /\ worker.pc = "working"
Quiet == UNCHANGED <<parent, worker, pipe, trace, scratch, packet>>

Moved(t, status) == tool' = [tool EXCEPT ![t].status = status]
Failed == recorder' = [recorder EXCEPT !.failed = TRUE]

\* on_tool_start; when it raises the tool is not run.
StartTool(t, id) ==
    /\ Working
    /\ tool[t].status = "new"
    /\ id \notin recorder.ids
    /\ recorder' = [recorder EXCEPT !.ids = @ \cup {id}, !.pending = @ \cup {t}]
    /\ tool' = [tool EXCEPT ![t] = [NewRun EXCEPT !.status = "open", !.id = id,
                                                  !.order = Cardinality(recorder.ids) + 1]]
    /\ Quiet

RepeatId(t, id) ==
    /\ Working
    /\ tool[t].status = "new"
    /\ id \in recorder.ids
    /\ Moved(t, "refused")
    /\ Failed
    /\ Quiet

\* Arguments or ids it does not accept: it raises and notes nothing.
RefuseStart(t) ==
    /\ Working
    /\ tool[t].status = "new"
    /\ Moved(t, "refused")
    /\ Quiet /\ UNCHANGED recorder

\* on_tool_end of the run as it was started: its content reaches the graph.
EndTool(t, o) ==
    /\ Working
    /\ tool[t].status = "open"
    /\ tool' = [tool EXCEPT ![t].status = "returned", ![t].output = o]
    /\ recorder' = [recorder EXCEPT !.pending = @ \ {t}, !.completed = @ \cup {t}]
    /\ Quiet

\* A result of another name, id or status; and on_tool_error.  The callback raises.
\* Mutant of BreakTool: the failed call is only forgotten.
ForgetTool(t) == /\ Working
                 /\ tool[t].status = "open"
                 /\ Moved(t, "broken")
                 /\ recorder' = [recorder EXCEPT !.pending = @ \ {t}]
                 /\ Quiet
BreakTool(t) == /\ Working
                /\ tool[t].status = "open"
                /\ Moved(t, "broken")
                /\ recorder' = [recorder EXCEPT !.pending = @ \ {t}, !.failed = TRUE]
                /\ Quiet

Exportable == ~ recorder.failed /\ recorder.pending = {} /\ recorder.completed # {}
\* The completed runs in the order of their starts.
Ordered == CHOOSE runs \in [1..Cardinality(recorder.completed) -> recorder.completed] :
               \A m, n \in DOMAIN runs : m < n => tool[runs[m]].order < tool[runs[n]].order
Export == [n \in DOMAIN Ordered |-> [id |-> tool[Ordered[n]].id, output |-> tool[Ordered[n]].output]]

-----------------------------------------------------------------------------
(* The worker process: _worker_entry *)

Alive == worker.life = "alive"
WorkerGoes(label) == worker' = [worker EXCEPT !.pc = label]
ReaderOpen == parent.pc \notin {"removing", "returned"}
Write(chunk) == pipe' = IF ReaderOpen THEN Append(pipe, chunk) ELSE pipe
WriterClosed == worker.life = "dead" \/ worker.pc = "closed"

\* The graph returns and the trace can be exported: the first write of the result.
SendResult == /\ Working
              /\ Exportable
              /\ trace' = Export
              /\ Write("head")
              /\ WorkerGoes("sending")
              /\ UNCHANGED <<parent, tool, recorder, scratch, packet>>

SendRest == /\ Alive /\ worker.pc = "sending"
            /\ Write("tail")
            /\ WorkerGoes("sent")
            /\ UNCHANGED <<parent, graphVars, scratch, packet>>

\* A missing dependency; the graph or the export raises; or a signal handler does
\* while the result is half written.
SendFailure == \E code \in {"dependency", "upstream"} :
                  /\ Alive /\ worker.pc \in {"working", "sending"}
                  /\ code = "dependency" => worker.pc = "working"
                  /\ Write(code)
                  /\ WorkerGoes("sent")
                  /\ UNCHANGED <<parent, graphVars, scratch, packet>>

Close == /\ Alive /\ worker.pc = "sent"
         /\ WorkerGoes("closed")
         /\ UNCHANGED <<parent, pipe, graphVars, scratch, packet>>

\* The process ends by itself, at its end or in a crash.
Exit == /\ Alive
        /\ worker' = [worker EXCEPT !.life = "dead"]
        /\ UNCHANGED <<parent, pipe, graphVars, scratch, packet>>

\* SIGTERM may be ignored, SIGKILL may not.
Killed == /\ Alive /\ "kill" \in worker.signals
          /\ worker' = [worker EXCEPT !.life = "dead"]
          /\ UNCHANGED <<parent, pipe, graphVars, scratch, packet>>

-----------------------------------------------------------------------------
(* The parent *)

At(label) == parent.pc = label
Signalled(s) == worker' = [worker EXCEPT !.signals = @ \cup {s}]
ParentGoes(label) == parent' = [parent EXCEPT !.pc = label]
Fails(outcome, label) == parent' = [parent EXCEPT !.pc = label, !.outcome = outcome]
Rest == UNCHANGED <<graphVars, scratch, packet>>

\* propagate makes the directory; _run_process starts the worker, or cannot.
Start == /\ At("idle")
         /\ scratch' = TRUE
         /\ \/ worker' = [worker EXCEPT !.life = "alive"] /\ ParentGoes("polling")
            \/ UNCHANGED worker /\ Fails("upstream", "cleanup")
         /\ UNCHANGED <<pipe, graphVars, packet>>

\* _terminate_process, which leads back to label.
Terminate(outcome) ==
    /\ parent' = [parent EXCEPT !.pc = IF Alive THEN "terminating" ELSE "cleanup",
                                !.outcome = outcome]
    /\ IF Alive THEN Signalled("term") ELSE UNCHANGED worker

\* worker_started was not set in time.
NotStarted == /\ At("polling")
              /\ Terminate("upstream")
              /\ UNCHANGED pipe /\ Rest

\* receive.poll returns TRUE: there are data or the end of the file.
Polled == /\ At("polling")
          /\ pipe # <<>> \/ WriterClosed
          /\ ParentGoes("receiving")
          /\ UNCHANGED <<worker, pipe>> /\ Rest

PollTimesOut == /\ At("polling")
                /\ pipe = <<>> /\ ~ WriterClosed
                /\ ParentGoes("late")
                /\ UNCHANGED <<worker, pipe>> /\ Rest

\* The worker may have answered and ended since: the answer is not looked at.
\* Mutant of GiveUp: it is, when the worker has ended by itself.
GiveUpLooking == /\ At("late")
                 /\ IF Alive \/ pipe = <<>> THEN Terminate(IF Alive THEN "timeout" ELSE "upstream")
                    ELSE ParentGoes("receiving") /\ UNCHANGED worker
                 /\ UNCHANGED pipe /\ Rest
GiveUp == /\ At("late")
          /\ Terminate(IF Alive THEN "timeout" ELSE "upstream")
          /\ UNCHANGED pipe /\ Rest

\* receive.recv: it blocks in the middle of a message, for as long as it takes, until the
\* rest or the end comes; what is not one message makes it raise.
Whole == pipe # <<>> /\ (pipe[1] = "head" => Len(pipe) >= 2)
Answer == IF pipe[1] # "head" THEN pipe[1]
          ELSE IF pipe[2] = "tail" THEN "ok" ELSE "garbled"
Receive == /\ At("receiving")
           /\ Whole
           /\ pipe' = SubSeq(pipe, IF pipe[1] = "head" THEN 3 ELSE 2, Len(pipe))
           /\ IF Answer = "garbled" THEN Fails("upstream", "cleanup")
              ELSE parent' = [parent EXCEPT !.answer = Answer, !.pc = "joining"]
           /\ UNCHANGED worker /\ Rest
EndOfFile == /\ At("receiving")
             /\ ~ Whole /\ WriterClosed
             /\ Fails("upstream", "cleanup")
             /\ UNCHANGED <<worker, pipe>> /\ Rest

\* process.join(timeout=2)
\* Mutant of Judge: the worker is not waited for.
JudgeAtOnce == /\ At("joining")
               /\ Fails(CASE parent.answer = "ok" -> "result"
                          [] parent.answer = "dependency" -> "dependency"
                          [] OTHER -> "upstream", "cleanup")
               /\ UNCHANGED <<worker, pipe>> /\ Rest
Judge == /\ At("joining")
         /\ ~ Alive
         /\ Fails(CASE parent.answer = "ok" -> "result"
                    [] parent.answer = "dependency" -> "dependency"
                    [] OTHER -> "upstream", "cleanup")
         /\ UNCHANGED <<worker, pipe>> /\ Rest
JoinTimesOut == /\ At("joining")
                /\ Alive
                /\ Terminate("upstream")
                /\ UNCHANGED pipe /\ Rest

\* After SIGTERM, and after SIGKILL: join for two seconds each.
Ended == IF parent.final THEN "removing" ELSE "cleanup"
JoinTerminated == /\ At("terminating") \/ At("killing")
                  /\ ~ Alive
                  /\ ParentGoes(Ended)
                  /\ UNCHANGED <<worker, pipe>> /\ Rest
\* Mutant of Kill: SIGTERM is all that is tried.
KillNever == /\ At("terminating")
             /\ ParentGoes(Ended)
             /\ UNCHANGED <<worker, pipe>> /\ Rest
Kill == /\ At("terminating")
        /\ Alive
        /\ ParentGoes("killing")
        /\ Signalled("kill")
        /\ UNCHANGED pipe /\ Rest
KillTimesOut == /\ At("killing")
                /\ Alive
                /\ ParentGoes(Ended)
                /\ UNCHANGED <<worker, pipe>> /\ Rest

\* The finally clause of _run_process: a worker still alive is terminated (again).
\* Mutant of Cleanup: it leaves a worker that is alive to itself.
CleanupClosing == /\ At("cleanup")
                  /\ ParentGoes("removing")
                  /\ UNCHANGED worker
                  /\ pipe' = <<>> /\ Rest
Cleanup == /\ At("cleanup")
           /\ IF Alive
              THEN /\ parent' = [parent EXCEPT !.pc = "terminating", !.final = TRUE]
                   /\ Signalled("term")
              ELSE ParentGoes("removing") /\ UNCHANGED worker
           /\ pipe' = <<>> /\ Rest

\* The end of the with block, which a worker that still writes there may make fail, and
\* what analyze makes of the result: a malformed state or envelope, or no evidence, is
\* refused.
Conclude == /\ At("removing")
            /\ \/ /\ scratch' = FALSE
                  /\ ParentGoes("returned")
                  /\ \/ parent.outcome = "result" /\ packet' = Published(trace)
                     \/ UNCHANGED packet
               \/ /\ Alive
                  /\ Fails("upstream", "returned")
                  /\ UNCHANGED <<scratch, packet>>
            /\ UNCHANGED <<worker, pipe, graphVars>>

\* A KeyboardInterrupt in one of the waits of the try block.
Interrupt == /\ MayInterrupt
             /\ \/ parent.pc \in {"polling", "late", "receiving", "joining"}
                \/ parent.pc \in {"terminating", "killing"} /\ ~ parent.final
             /\ parent.outcome # "interrupted"
             /\ Fails("interrupted", "cleanup")
             /\ UNCHANGED <<worker, pipe>> /\ Rest

-----------------------------------------------------------------------------
Init == /\ parent = [pc |-> "idle", answer |-> "none", outcome |-> "none", final |-> FALSE]
        /\ worker = [life |-> "unborn", pc |-> "working", signals |-> {}]
        /\ pipe = <<>>
        /\ tool = [t \in Tools |-> NewRun]
        /\ recorder = [failed |-> FALSE, pending |-> {}, completed |-> {}, ids |-> {}]
        /\ trace = <<>>
        /\ scratch = FALSE
        /\ packet = NoDay

Graph == \E t \in Tools : \/ \E id \in CallIds : StartTool(t, id) \/ RepeatId(t, id)
                          \/ RefuseStart(t)
                          \/ \E o \in Outputs : EndTool(t, o)
                          \/ BreakTool(t)
Worker == Graph \/ SendResult \/ SendRest \/ SendFailure \/ Close \/ Exit \/ Killed
Parent == \/ Start \/ NotStarted \/ Polled \/ PollTimesOut \/ GiveUp \/ Receive \/ EndOfFile
          \/ Judge \/ JoinTimesOut \/ JoinTerminated \/ Kill \/ KillTimesOut
          \/ Cleanup \/ Conclude
Next == Parent \/ Interrupt \/ Worker

Spec == Init /\ [][Next]_vars

\* The parent runs, every wait with a limit ends, the system delivers SIGKILL, and
\* a worker that has begun to write goes on.  Nothing is assumed of the graph.
FairSpec == Spec /\ WF_vars(Parent) /\ WF_vars(Killed) /\ WF_vars(SendRest)

-----------------------------------------------------------------------------
(* Properties *)

Answers == {"dependency", "upstream"}
ParentType == [pc : {"idle", "polling", "late", "receiving", "joining", "terminating",
                     "killing", "cleanup", "removing", "returned"},
               answer : {"none", "ok"} \cup Answers,
               outcome : {"none", "result", "timeout", "interrupted"} \cup Answers,
               final : BOOLEAN]
WorkerType == [life : {"unborn", "alive", "dead"},
               pc : {"working", "sending", "sent", "closed"},
               signals : SUBSET {"term", "kill"}]
RunType == [status : {"new", "open", "returned", "broken", "refused"},
            id : CallIds \cup {"none"}, order : Nat, output : Outputs \cup {"none"}]
PipeFits == /\ pipe \in Seq({"head", "tail"} \cup Answers)
            /\ worker.pc = "working" => Len(pipe) = 0
            /\ worker.pc = "sending" => Len(pipe) <= 1
            /\ Len(pipe) <= 2
ToolsFit ==
    /\ tool \in [Tools -> RunType]
    /\ recorder \in [failed : BOOLEAN, pending : SUBSET Tools, completed : SUBSET Tools,
                     ids : SUBSET CallIds]
    /\ \A t \in Tools : /\ t \in recorder.pending <=> tool[t].status = "open"
                        /\ t \in recorder.completed <=> tool[t].status = "returned"
TypeOK == /\ parent \in ParentType /\ worker \in WorkerType
          /\ PipeFits /\ ToolsFit
          /\ scratch \in BOOLEAN

(***************************************************************************)
(* The trace that leaves the worker tells of every tool whose content the  *)
(* graph has seen, in the order of their starts, and there is none when a  *)
(* call failed or was still under way, whatever the graph swallowed.       *)
(***************************************************************************)
TraceIsWhole ==
    trace # <<>> =>
        /\ \A t \in Tools : tool[t].status \notin {"open", "broken"}
        /\ Len(trace) = Cardinality(Returned)
        /\ \A t \in Returned : \E n \in 1..Len(trace) :
              trace[n] = [id |-> tool[t].id, output |-> tool[t].output]
        /\ \A t, u \in Returned : tool[t].order < tool[u].order =>
              \E m, n \in 1..Len(trace) : m < n /\ trace[m].id = tool[t].id
                                                /\ trace[n].id = tool[u].id

\* A result was read whole, from a worker that has ended by itself.
ResultIsWhole ==
    parent.outcome = "result" =>
        /\ parent.answer = "ok"
        /\ worker.life = "dead" /\ worker.signals = {}

(***************************************************************************)
(* The result of an analysis is a whole answer of a worker that ended by   *)
(* itself; and once the wait for the answer has timed out there is none,   *)
(* though the worker may answer and end a moment later.  In time is an     *)
(* answer whose first bytes come before the wait ends: _run_process sets   *)
(* no limit to the rest.                                                   *)
(***************************************************************************)
ResultBeginsInTime ==
    /\ []ResultIsWhole
    /\ [](At("late") => [](parent.outcome # "result"))

(***************************************************************************)
(* When there is a packet, no day after the cutoff is in any tool content  *)
(* the graph worked with, and its evidence was public by as_of.            *)
(***************************************************************************)
NoLookAhead ==
    packet # NoDay =>
        /\ packet <= AsOf
        /\ \A t \in Returned : \A d \in tool[t].output.days : d <= Cutoff

(***************************************************************************)
(* The directory of a run is removed, and its call returns, only when the  *)
(* worker is dead or the system has been told to kill it.                  *)
(***************************************************************************)
NoWorkerLeft ==
    At("removing") \/ At("returned") => worker.life # "alive" \/ "kill" \in worker.signals

(***************************************************************************)
(* Whatever the graph does, an analysis ends, its process gone and its     *)
(* directory removed; but a worker that had to be killed may have outlived *)
(* the wait for it and got in the way of the removal.                      *)
(***************************************************************************)
AnalysisEnds == ~ At("idle") ~> /\ At("returned") /\ worker.life # "alive"
                                /\ scratch => "kill" \in worker.signals
=============================================================================
