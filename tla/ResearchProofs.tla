--------------------------- MODULE ResearchProofs ---------------------------
(***************************************************************************)
(* Research for any graph: the types of its control, that an analysis      *)
(* leaves no worker behind that has not been killed, and what its trace    *)
(* and its packet say of the tools the graph has called.                   *)
(***************************************************************************)
EXTENDS Research, FiniteSetTheorems, WellFoundedInduction, TLAPS

\* SIGKILL is sent before it is waited for.
KillSent == At("killing") => "kill" \in worker.signals
\* As long as the parent may read, the tail of a result comes after its head.
HeadFirst ==
    parent.pc \in {"idle", "polling", "late", "receiving"} =>
        IF pipe = <<>> THEN worker.pc # "sending" ELSE pipe[1] # "tail"
\* No signal is sent while a result may still be accepted; it is judged once.
SignalsLate ==
    /\ parent.pc \in {"idle", "polling", "late", "receiving", "joining"} =>
          worker.signals = {} /\ parent.outcome = "none"
    /\ parent.pc = "idle" => worker.life = "unborn"
    /\ parent.pc \in {"terminating", "killing"} /\ ~ parent.final => parent.outcome # "result"
    /\ parent.pc \in {"polling", "late", "receiving", "joining"} => worker.life # "unborn"

IInv == TypeOK /\ HeadFirst /\ KillSent /\ NoWorkerLeft /\ SignalsLate /\ ResultIsWhole

\* The types hold at first.
LEMMA TypeInit == Init => TypeOK
<1> SUFFICES ASSUME Init
             PROVE  TypeOK
  OBVIOUS
<1>1. parent \in ParentType /\ worker \in WorkerType /\ scratch \in BOOLEAN
  BY DEF Init, ParentType, WorkerType, Answers
<1>2. PipeFits
  BY DEF Init, PipeFits
<1>3. ToolsFit
  BY DEF Init, ToolsFit, RunType, NewRun
<1> QED
  BY <1>1, <1>2, <1>3 DEF TypeOK

\* One step keeps the type of the parent.
LEMMA ParentKept == PipeFits /\ HeadFirst /\ parent \in ParentType /\ [Next]_vars => (parent \in ParentType)'
<1> SUFFICES ASSUME PipeFits /\ HeadFirst /\ parent \in ParentType, [Next]_vars
             PROVE  (parent \in ParentType)'
  OBVIOUS
<1> USE DEF PipeFits, HeadFirst, ParentType, Answers, graphVars, At
<1>1. CASE Start
  BY <1>1 DEF Start, ParentGoes, Fails
<1>2. CASE NotStarted
  BY <1>2 DEF NotStarted, Terminate, Signalled, Alive, Rest
<1>3. CASE Polled
  BY <1>3 DEF Polled, ParentGoes, Rest
<1>4. CASE PollTimesOut
  BY <1>4 DEF PollTimesOut, ParentGoes, Rest
<1>5. CASE GiveUp
  BY <1>5 DEF GiveUp, Terminate, Signalled, Alive, Rest
<1>6. CASE Receive
  <2>1. pipe[1] \in {"head", "tail"} \cup Answers
    BY <1>6 DEF Receive, Whole
  <2>2. Answer \in {"ok", "garbled"} \cup Answers
    BY <1>6, <2>1 DEF Receive, Whole, Answer
  <2>3. IF Answer = "garbled" THEN Fails("upstream", "cleanup")
        ELSE parent' = [parent EXCEPT !.answer = Answer, !.pc = "joining"]
    BY <1>6 DEF Receive
  <2>4. CASE Answer = "garbled"
    BY <2>3, <2>4 DEF Fails
  <2>5. CASE Answer # "garbled"
    BY <2>2, <2>3, <2>5
  <2> QED
    BY <2>4, <2>5
<1>7. CASE EndOfFile
  BY <1>7 DEF EndOfFile, Fails, Rest
<1>8. CASE Judge
  BY <1>8 DEF Judge, Fails, Rest, Alive
<1>9. CASE JoinTimesOut
  BY <1>9 DEF JoinTimesOut, Terminate, Signalled, Alive, Rest
<1>10. CASE JoinTerminated
  BY <1>10 DEF JoinTerminated, ParentGoes, Ended, Alive, Rest
<1>11. CASE Kill
  BY <1>11 DEF Kill, ParentGoes, Signalled, Alive, Rest
<1>12. CASE KillTimesOut
  BY <1>12 DEF KillTimesOut, ParentGoes, Ended, Alive, Rest
<1>13. CASE Cleanup
  BY <1>13 DEF Cleanup, ParentGoes, Signalled, Alive, Rest
<1>14. CASE Conclude
  BY <1>14 DEF Conclude, ParentGoes, Fails, Alive
<1>15. CASE Interrupt
  BY <1>15 DEF Interrupt, Fails, Rest
<1>16. CASE UNCHANGED <<parent>>
  BY <1>16
<1>17. CASE UNCHANGED vars
  BY <1>17 DEF vars
<1> QED
  BY <1>1, <1>2, <1>3, <1>4, <1>5, <1>6, <1>7, <1>8, <1>9, <1>10, <1>11, <1>12, <1>13,
     <1>14, <1>15, <1>16, <1>17
     DEF Next, Parent, Worker, Graph, vars, StartTool, Working, Quiet, NewRun,
         RepeatId, Moved, Failed, RefuseStart, EndTool, BreakTool, SendResult, Write,
         ReaderOpen, WorkerGoes, SendRest, Alive, SendFailure, Close, Exit, Killed

\* One step keeps the type of the worker.
LEMMA WorkerKept == worker \in WorkerType /\ [Next]_vars => (worker \in WorkerType)'
<1> SUFFICES ASSUME worker \in WorkerType, [Next]_vars
             PROVE  (worker \in WorkerType)'
  OBVIOUS
<1> USE DEF WorkerType, graphVars, At
<1>1. CASE SendResult
  BY <1>1 DEF SendResult, Working, Write, ReaderOpen, WorkerGoes
<1>2. CASE SendRest
  BY <1>2 DEF SendRest, Alive, Write, ReaderOpen, WorkerGoes
<1>3. CASE SendFailure
  BY <1>3 DEF SendFailure, Alive, Write, ReaderOpen, WorkerGoes
<1>4. CASE Close
  BY <1>4 DEF Close, Alive, WorkerGoes
<1>5. CASE Exit
  BY <1>5 DEF Exit, Alive
<1>6. CASE Killed
  BY <1>6 DEF Killed, Alive
<1>7. CASE Start
  BY <1>7 DEF Start, ParentGoes, Fails
<1>8. CASE NotStarted
  BY <1>8 DEF NotStarted, Terminate, Signalled, Alive, Rest
<1>9. CASE GiveUp
  BY <1>9 DEF GiveUp, Terminate, Signalled, Alive, Rest
<1>10. CASE JoinTimesOut
  BY <1>10 DEF JoinTimesOut, Terminate, Signalled, Alive, Rest
<1>11. CASE Kill
  BY <1>11 DEF Kill, ParentGoes, Signalled, Alive, Rest
<1>12. CASE Cleanup
  BY <1>12 DEF Cleanup, ParentGoes, Signalled, Alive, Rest
<1>13. CASE UNCHANGED <<worker>>
  BY <1>13
<1>14. CASE UNCHANGED vars
  BY <1>14 DEF vars
<1> QED
  BY <1>1, <1>2, <1>3, <1>4, <1>5, <1>6, <1>7, <1>8, <1>9, <1>10, <1>11, <1>12, <1>13,
     <1>14
     DEF Next, Parent, Worker, Graph, vars, StartTool, Working, Quiet, NewRun,
         RepeatId, Moved, Failed, RefuseStart, EndTool, BreakTool, Polled, ParentGoes,
         Rest, PollTimesOut, Receive, Whole, Answer, EndOfFile, Fails, Judge, Alive,
         JoinTerminated, Ended, KillTimesOut, Conclude, Interrupt

\* One step keeps what the pipe can hold at each point of the worker.
LEMMA PipeKept == worker \in WorkerType /\ PipeFits /\ [Next]_vars => PipeFits'
<1> SUFFICES ASSUME worker \in WorkerType /\ PipeFits, [Next]_vars
             PROVE  PipeFits'
  OBVIOUS
<1> USE DEF WorkerType, PipeFits, Answers, graphVars, At
<1>1. CASE SendResult
  <2>1. worker'.pc = "sending" /\ Len(pipe) = 0
    BY <1>1 DEF SendResult, Working, WorkerGoes
  <2>2. pipe' \in Seq({"head", "tail"} \cup Answers) /\ Len(pipe') <= 1
    <3>1. pipe \in Seq({"head", "tail"} \cup Answers) /\ pipe = <<>>
      BY <2>1
    <3>2. CASE pipe' = pipe
      BY ONLY <3>1, <3>2
    <3>3. CASE pipe' = Append(pipe, "head")
      <4>1. pipe' = <<"head">> /\ "head" \in {"head", "tail"} \cup Answers
        BY <3>1, <3>3
      <4> HIDE DEF Answers
      <4> QED
        BY ONLY <4>1
    <3> QED
      BY <1>1, <3>2, <3>3 DEF SendResult, Write
  <2> QED
    BY <2>1, <2>2
<1>2. CASE SendRest
  BY <1>2 DEF SendRest, Alive, Write, ReaderOpen, WorkerGoes
<1>3. CASE SendFailure
  BY <1>3 DEF SendFailure, Alive, Write, ReaderOpen, WorkerGoes
<1>4. CASE Close
  BY <1>4 DEF Close, Alive, WorkerGoes
<1>5. CASE Exit
  BY <1>5 DEF Exit, Alive
<1>6. CASE Killed
  BY <1>6 DEF Killed, Alive
<1>7. CASE Start
  BY <1>7 DEF Start, ParentGoes, Fails
<1>8. CASE NotStarted
  BY <1>8 DEF NotStarted, Terminate, Signalled, Alive, Rest
<1>9. CASE GiveUp
  BY <1>9 DEF GiveUp, Terminate, Signalled, Alive, Rest
<1>10. CASE Receive
  BY <1>10 DEF Receive, Whole, Answer, Rest
<1>11. CASE JoinTimesOut
  BY <1>11 DEF JoinTimesOut, Terminate, Signalled, Alive, Rest
<1>12. CASE Kill
  BY <1>12 DEF Kill, ParentGoes, Signalled, Alive, Rest
<1>13. CASE Cleanup
  BY <1>13 DEF Cleanup, ParentGoes, Signalled, Alive, Rest
<1>14. CASE UNCHANGED <<pipe, worker>>
  BY <1>14
<1>15. CASE UNCHANGED vars
  BY <1>15 DEF vars
<1> QED
  BY <1>1, <1>2, <1>3, <1>4, <1>5, <1>6, <1>7, <1>8, <1>9, <1>10, <1>11, <1>12, <1>13,
     <1>14, <1>15
     DEF Next, Parent, Worker, Graph, vars, StartTool, Working, Quiet, NewRun,
         RepeatId, Moved, Failed, RefuseStart, EndTool, BreakTool, Polled, ParentGoes,
         Rest, PollTimesOut, EndOfFile, Fails, Judge, Alive, JoinTerminated, Ended,
         KillTimesOut, Conclude, Interrupt

\* The tail of a result stays behind its head.
LEMMA HeadKept == parent \in ParentType /\ worker \in WorkerType /\ PipeFits /\ HeadFirst /\ [Next]_vars => HeadFirst'
<1> SUFFICES ASSUME parent \in ParentType /\ worker \in WorkerType /\ PipeFits /\ HeadFirst, [Next]_vars
             PROVE  HeadFirst'
  OBVIOUS
<1> USE DEF ParentType, WorkerType, PipeFits, HeadFirst, Answers, graphVars, At
<1>1. CASE SendResult
  <2>1. pipe = <<>> /\ parent' = parent
    BY <1>1 DEF SendResult, Working
  <2>2. ReaderOpen => pipe' = <<"head">>
    BY <1>1, <2>1 DEF SendResult, Write
  <2>3. parent.pc \in {"idle", "polling", "late", "receiving"} => ReaderOpen
    BY DEF ReaderOpen
  <2> QED
    BY ONLY <2>1, <2>2, <2>3 DEF HeadFirst
<1>2. CASE SendRest
  BY <1>2 DEF SendRest, Alive, Write, ReaderOpen, WorkerGoes
<1>3. CASE SendFailure
  BY <1>3 DEF SendFailure, Alive, Write, ReaderOpen, WorkerGoes
<1>4. CASE Close
  BY <1>4 DEF Close, Alive, WorkerGoes
<1>5. CASE Exit
  BY <1>5 DEF Exit, Alive
<1>6. CASE Killed
  BY <1>6 DEF Killed, Alive
<1>7. CASE Start
  BY <1>7 DEF Start, ParentGoes, Fails
<1>8. CASE NotStarted
  BY <1>8 DEF NotStarted, Terminate, Signalled, Alive, Rest
<1>9. CASE Polled
  BY <1>9 DEF Polled, ParentGoes, Rest
<1>10. CASE PollTimesOut
  BY <1>10 DEF PollTimesOut, ParentGoes, Rest
<1>11. CASE GiveUp
  BY <1>11 DEF GiveUp, Terminate, Signalled, Alive, Rest
<1>12. CASE Receive
  BY <1>12 DEF Receive, Fails, Rest
<1>13. CASE EndOfFile
  BY <1>13 DEF EndOfFile, Fails, Rest
<1>14. CASE Judge
  BY <1>14 DEF Judge, Fails, Rest, Alive
<1>15. CASE JoinTimesOut
  BY <1>15 DEF JoinTimesOut, Terminate, Signalled, Alive, Rest
<1>16. CASE JoinTerminated
  BY <1>16 DEF JoinTerminated, ParentGoes, Ended, Alive, Rest
<1>17. CASE Kill
  BY <1>17 DEF Kill, ParentGoes, Signalled, Alive, Rest
<1>18. CASE KillTimesOut
  BY <1>18 DEF KillTimesOut, ParentGoes, Ended, Alive, Rest
<1>19. CASE Cleanup
  BY <1>19 DEF Cleanup, ParentGoes, Signalled, Alive, Rest
<1>20. CASE Conclude
  BY <1>20 DEF Conclude, ParentGoes, Fails, Alive
<1>21. CASE Interrupt
  BY <1>21 DEF Interrupt, Fails, Rest
<1>22. CASE UNCHANGED <<parent, worker, pipe>>
  BY <1>22
<1>23. CASE UNCHANGED vars
  BY <1>23 DEF vars
<1> QED
  BY <1>1, <1>2, <1>3, <1>4, <1>5, <1>6, <1>7, <1>8, <1>9, <1>10, <1>11, <1>12, <1>13,
     <1>14, <1>15, <1>16, <1>17, <1>18, <1>19, <1>20, <1>21, <1>22, <1>23
     DEF Next, Parent, Worker, Graph, vars, StartTool, Working, Quiet, NewRun,
         RepeatId, Moved, Failed, RefuseStart, EndTool, BreakTool

\* One step keeps the recorder in agreement with the runs.
LEMMA ToolsKept == ToolsFit /\ [Next]_vars => ToolsFit'
<1> SUFFICES ASSUME ToolsFit, [Next]_vars
             PROVE  ToolsFit'
  OBVIOUS
<1> USE DEF ToolsFit, RunType, graphVars, At
<1>1. ASSUME NEW t \in Tools, NEW id \in CallIds, StartTool(t, id)
      PROVE  ToolsFit'
  <2>1. recorder.ids \in SUBSET CallIds => Cardinality(recorder.ids) + 1 \in Nat
    BY CallIdsAssumption, FS_Subset, FS_CardinalityType
  <2>2. tool' \in [Tools -> RunType]
    BY <1>1, <2>1 DEF StartTool, NewRun
  <2>3. recorder' \in [failed : BOOLEAN, pending : SUBSET Tools, completed : SUBSET Tools,
                        ids : SUBSET CallIds]
    BY <1>1 DEF StartTool
  <2>4. \A u \in Tools : /\ u \in recorder'.pending <=> tool'[u].status = "open"
                         /\ u \in recorder'.completed <=> tool'[u].status = "returned"
    BY <1>1 DEF StartTool, NewRun
  <2> QED
    BY <2>2, <2>3, <2>4
<1>2. ASSUME NEW t \in Tools, NEW id \in CallIds, RepeatId(t, id)
      PROVE  ToolsFit'
  <2>1. [tool[t] EXCEPT !.status = "refused"] \in RunType
    <3>1. tool[t] \in RunType
      OBVIOUS
    <3> QED
      BY ONLY <3>1 DEF RunType
  <2>2. tool' = [tool EXCEPT ![t] = [@ EXCEPT !.status = "refused"]]
    BY <1>2 DEF RepeatId, Moved
  <2>3. tool' \in [Tools -> RunType]
    <3> HIDE DEF RunType
    <3> QED
      BY <2>1, <2>2
  <2>4. recorder' \in [failed : BOOLEAN, pending : SUBSET Tools, completed : SUBSET Tools,
                        ids : SUBSET CallIds]
    BY <1>2 DEF RepeatId, Failed
  <2>5. \A u \in Tools : /\ u \in recorder'.pending <=> tool'[u].status = "open"
                         /\ u \in recorder'.completed <=> tool'[u].status = "returned"
    BY <1>2, <2>2 DEF RepeatId, Failed
  <2> QED
    BY <2>3, <2>4, <2>5
<1>3. ASSUME NEW t \in Tools, RefuseStart(t)
      PROVE  ToolsFit'
  BY <1>3 DEF RefuseStart, Working, Quiet, Moved
<1>4. ASSUME NEW t \in Tools, NEW o \in Outputs, EndTool(t, o)
      PROVE  ToolsFit'
  <2>1. tool' \in [Tools -> RunType]
    <3>1. [tool[t] EXCEPT !.status = "returned", !.output = o] \in RunType
      <4>1. tool[t] \in RunType
        OBVIOUS
      <4> QED
        BY ONLY <4>1 DEF RunType
    <3>2. tool' = [tool EXCEPT ![t] = [@ EXCEPT !.status = "returned", !.output = o]]
      BY <1>4 DEF EndTool
    <3> HIDE DEF RunType
    <3> QED
      BY <3>1, <3>2
  <2>2. recorder' \in [failed : BOOLEAN, pending : SUBSET Tools, completed : SUBSET Tools,
                        ids : SUBSET CallIds]
    BY <1>4 DEF EndTool
  <2>3. \A u \in Tools : /\ u \in recorder'.pending <=> tool'[u].status = "open"
                         /\ u \in recorder'.completed <=> tool'[u].status = "returned"
    BY <1>4 DEF EndTool
  <2> QED
    BY <2>1, <2>2, <2>3
<1>5. ASSUME NEW t \in Tools, BreakTool(t)
      PROVE  ToolsFit'
  <2>1. tool' \in [Tools -> RunType]
    BY <1>5 DEF BreakTool, Moved
  <2>2. recorder' \in [failed : BOOLEAN, pending : SUBSET Tools, completed : SUBSET Tools,
                        ids : SUBSET CallIds]
    BY <1>5 DEF BreakTool
  <2>3. \A u \in Tools : /\ u \in recorder'.pending <=> tool'[u].status = "open"
                         /\ u \in recorder'.completed <=> tool'[u].status = "returned"
    BY <1>5 DEF BreakTool, Moved
  <2> QED
    BY <2>1, <2>2, <2>3
<1>6. CASE UNCHANGED <<tool, recorder>>
  BY <1>6
<1>7. CASE UNCHANGED vars
  BY <1>7 DEF vars
<1> QED
  BY <1>1, <1>2, <1>3, <1>4, <1>5, <1>6, <1>7
     DEF Next, Parent, Worker, Graph, vars, SendResult, Working, Write, ReaderOpen,
         WorkerGoes, SendRest, Alive, SendFailure, Close, Exit, Killed, Start,
         ParentGoes, Fails, NotStarted, Terminate, Signalled, Rest, Polled,
         PollTimesOut, GiveUp, Receive, Whole, Answer, EndOfFile, Judge, JoinTimesOut,
         JoinTerminated, Ended, Kill, KillTimesOut, Cleanup, Conclude, Interrupt

\* No step goes on from a worker that is alive and not sent SIGKILL.
LEMMA KillKept == parent \in ParentType /\ worker \in WorkerType /\ KillSent /\ NoWorkerLeft /\ [Next]_vars => (KillSent /\ NoWorkerLeft)'
<1> SUFFICES ASSUME parent \in ParentType /\ worker \in WorkerType /\ KillSent /\ NoWorkerLeft, [Next]_vars
             PROVE  (KillSent /\ NoWorkerLeft)'
  OBVIOUS
<1> USE DEF KillSent, NoWorkerLeft, ParentType, WorkerType, graphVars, At
<1>1. CASE SendResult
  BY <1>1 DEF SendResult, Working, Write, ReaderOpen, WorkerGoes
<1>2. CASE SendRest
  BY <1>2 DEF SendRest, Alive, Write, ReaderOpen, WorkerGoes
<1>3. CASE SendFailure
  BY <1>3 DEF SendFailure, Alive, Write, ReaderOpen, WorkerGoes
<1>4. CASE Close
  BY <1>4 DEF Close, Alive, WorkerGoes
<1>5. CASE Exit
  BY <1>5 DEF Exit, Alive
<1>6. CASE Killed
  BY <1>6 DEF Killed, Alive
<1>7. CASE Start
  BY <1>7 DEF Start, ParentGoes, Fails
<1>8. CASE NotStarted
  BY <1>8 DEF NotStarted, Terminate, Signalled, Alive, Rest
<1>9. CASE Polled
  BY <1>9 DEF Polled, ParentGoes, Rest
<1>10. CASE PollTimesOut
  BY <1>10 DEF PollTimesOut, ParentGoes, Rest
<1>11. CASE GiveUp
  BY <1>11 DEF GiveUp, Terminate, Signalled, Alive, Rest
<1>12. CASE Receive
  BY <1>12 DEF Receive, Fails, Rest
<1>13. CASE EndOfFile
  BY <1>13 DEF EndOfFile, Fails, Rest
<1>14. CASE Judge
  BY <1>14 DEF Judge, Fails, Rest, Alive
<1>15. CASE JoinTimesOut
  BY <1>15 DEF JoinTimesOut, Terminate, Signalled, Alive, Rest
<1>16. CASE JoinTerminated
  BY <1>16 DEF JoinTerminated, ParentGoes, Ended, Alive, Rest
<1>17. CASE Kill
  BY <1>17 DEF Kill, ParentGoes, Signalled, Alive, Rest
<1>18. CASE KillTimesOut
  BY <1>18 DEF KillTimesOut, ParentGoes, Ended, Alive, Rest
<1>19. CASE Cleanup
  BY <1>19 DEF Cleanup, ParentGoes, Signalled, Alive, Rest
<1>20. CASE Conclude
  BY <1>20 DEF Conclude, ParentGoes, Fails, Alive
<1>21. CASE Interrupt
  BY <1>21 DEF Interrupt, Fails, Rest
<1>22. CASE UNCHANGED <<parent, worker>>
  BY <1>22
<1>23. CASE UNCHANGED vars
  BY <1>23 DEF vars
<1> QED
  BY <1>1, <1>2, <1>3, <1>4, <1>5, <1>6, <1>7, <1>8, <1>9, <1>10, <1>11, <1>12, <1>13,
     <1>14, <1>15, <1>16, <1>17, <1>18, <1>19, <1>20, <1>21, <1>22, <1>23
     DEF Next, Parent, Worker, Graph, vars, StartTool, Working, Quiet, NewRun,
         RepeatId, Moved, Failed, RefuseStart, EndTool, BreakTool

\* A result that is accepted was sent by a worker that is dead and was sent no signal.
LEMMA WholeKept == parent \in ParentType /\ worker \in WorkerType /\ SignalsLate /\ ResultIsWhole /\ [Next]_vars => (SignalsLate /\ ResultIsWhole)'
<1> SUFFICES ASSUME parent \in ParentType /\ worker \in WorkerType /\ SignalsLate /\ ResultIsWhole, [Next]_vars
             PROVE  (SignalsLate /\ ResultIsWhole)'
  OBVIOUS
<1> USE DEF ParentType, WorkerType, SignalsLate, ResultIsWhole, graphVars, At
<1>1. CASE SendResult
  BY <1>1 DEF SendResult, Working, Write, ReaderOpen, WorkerGoes
<1>2. CASE SendRest
  BY <1>2 DEF SendRest, Alive, Write, ReaderOpen, WorkerGoes
<1>3. CASE SendFailure
  BY <1>3 DEF SendFailure, Alive, Write, ReaderOpen, WorkerGoes
<1>4. CASE Close
  BY <1>4 DEF Close, Alive, WorkerGoes
<1>5. CASE Exit
  BY <1>5 DEF Exit, Alive
<1>6. CASE Killed
  BY <1>6 DEF Killed, Alive
<1>7. CASE Start
  BY <1>7 DEF Start, ParentGoes, Fails
<1>8. CASE NotStarted
  BY <1>8 DEF NotStarted, Terminate, Signalled, Alive, Rest
<1>9. CASE Polled
  BY <1>9 DEF Polled, ParentGoes, Rest
<1>10. CASE PollTimesOut
  BY <1>10 DEF PollTimesOut, ParentGoes, Rest
<1>11. CASE GiveUp
  BY <1>11 DEF GiveUp, Terminate, Signalled, Alive, Rest
<1>12. CASE Receive
  BY <1>12 DEF Receive, Fails, Rest
<1>13. CASE EndOfFile
  BY <1>13 DEF EndOfFile, Fails, Rest
<1>14. CASE Judge
  BY <1>14 DEF Judge, Fails, Rest, Alive
<1>15. CASE JoinTimesOut
  BY <1>15 DEF JoinTimesOut, Terminate, Signalled, Alive, Rest
<1>16. CASE JoinTerminated
  BY <1>16 DEF JoinTerminated, ParentGoes, Ended, Alive, Rest
<1>17. CASE Kill
  BY <1>17 DEF Kill, ParentGoes, Signalled, Alive, Rest
<1>18. CASE KillTimesOut
  BY <1>18 DEF KillTimesOut, ParentGoes, Ended, Alive, Rest
<1>19. CASE Cleanup
  BY <1>19 DEF Cleanup, ParentGoes, Signalled, Alive, Rest
<1>20. CASE Conclude
  BY <1>20 DEF Conclude, ParentGoes, Fails, Alive
<1>21. CASE Interrupt
  BY <1>21 DEF Interrupt, Fails, Rest
<1>22. CASE UNCHANGED <<parent, worker>>
  BY <1>22
<1>23. CASE UNCHANGED vars
  BY <1>23 DEF vars
<1> QED
  BY <1>1, <1>2, <1>3, <1>4, <1>5, <1>6, <1>7, <1>8, <1>9, <1>10, <1>11, <1>12, <1>13,
     <1>14, <1>15, <1>16, <1>17, <1>18, <1>19, <1>20, <1>21, <1>22, <1>23
     DEF Next, Parent, Worker, Graph, vars, StartTool, Working, Quiet, NewRun,
         RepeatId, Moved, Failed, RefuseStart, EndTool, BreakTool

\* The directory is there or not.
LEMMA ScratchKept == scratch \in BOOLEAN /\ [Next]_vars => scratch' \in BOOLEAN
BY DEF Next, Parent, Worker, Graph, vars, graphVars, StartTool, RepeatId, RefuseStart,
       EndTool, BreakTool, SendResult, SendRest, SendFailure, Close, Exit, Killed,
       Start, NotStarted, Polled, PollTimesOut, GiveUp, Receive, EndOfFile, Judge,
       JoinTimesOut, JoinTerminated, Kill, KillTimesOut, Cleanup, Conclude, Interrupt,
       Alive, Answer, Ended, Failed, Fails, Moved, NewRun, ParentGoes, Quiet,
       ReaderOpen, Rest, Signalled, Terminate, Whole, WorkerGoes, Working, Write

\* The invariant of the control.
LEMMA Invariant == Spec => []IInv
<1>1. Init => IInv
  BY TypeInit DEF Init, IInv, HeadFirst, KillSent, NoWorkerLeft, SignalsLate,
                  ResultIsWhole, At
<1>2. IInv /\ [Next]_vars => IInv'
  BY ParentKept, WorkerKept, PipeKept, HeadKept, ToolsKept, KillKept, WholeKept,
     ScratchKept
     DEF IInv, TypeOK
<1> QED
  BY <1>1, <1>2, PTL DEF Spec

(***************************************************************************)
(* The parent, the worker, the pipe and the recorder are in states of      *)
(* their types; a result is read head first, and the recorder's sets are   *)
(* those of the runs that are open and that have returned.                 *)
(***************************************************************************)
THEOREM TypeCorrect == Spec => []TypeOK
BY Invariant, PTL DEF IInv

(***************************************************************************)
(* _run_process leaves no worker alive that has not been sent SIGKILL,     *)
(* whichever of its waits ended by a timeout, an error or an interrupt.    *)
(***************************************************************************)
THEOREM NoWorkerLeftHolds == Spec => []NoWorkerLeft
BY Invariant, PTL DEF IInv

-----------------------------------------------------------------------------
(* After the time limit *)

\* The parent is past every point where it would take a result, and has none.
TooLate == /\ parent.pc \in {"late", "terminating", "killing", "cleanup", "removing", "returned"}
           /\ parent.outcome # "result"

\* No step leads back to where a result is taken.
LEMMA TooLateKept == parent \in ParentType /\ TooLate /\ [Next]_vars => TooLate'
<1> SUFFICES ASSUME parent \in ParentType, TooLate, [Next]_vars
             PROVE  TooLate'
  OBVIOUS
<1> USE DEF ParentType, TooLate, At
<1>1. CASE Parent
  <2>1. CASE Start \/ Polled \/ PollTimesOut \/ NotStarted \/ Receive \/ EndOfFile
               \/ Judge \/ JoinTimesOut
    BY <2>1 DEF Start, Polled, PollTimesOut, NotStarted, Receive, EndOfFile, Judge, JoinTimesOut
  <2>2. CASE GiveUp
    BY <2>2 DEF GiveUp, Terminate
  <2>3. CASE JoinTerminated
    BY <2>3 DEF JoinTerminated, ParentGoes, Ended
  <2>4. CASE Kill
    BY <2>4 DEF Kill, ParentGoes
  <2>5. CASE KillTimesOut
    BY <2>5 DEF KillTimesOut, ParentGoes, Ended
  <2>6. CASE Cleanup
    BY <2>6 DEF Cleanup, ParentGoes
  <2>7. CASE Conclude
    BY <2>7 DEF Conclude, ParentGoes, Fails
  <2> QED
    BY ONLY <1>1, <2>1, <2>2, <2>3, <2>4, <2>5, <2>6, <2>7 DEF Parent
<1>2. CASE Interrupt
  BY <1>2 DEF Interrupt, Fails
<1>3. CASE Worker
  <2>1. parent' = parent
    BY <1>3 DEF Worker, Graph, StartTool, RepeatId, RefuseStart, EndTool, BreakTool, Quiet,
                SendResult, SendRest, SendFailure, Close, Exit, Killed
  <2> QED
    BY <2>1
<1>4. CASE UNCHANGED vars
  BY <1>4 DEF vars
<1> QED
  BY <1>1, <1>2, <1>3, <1>4 DEF Next

(***************************************************************************)
(* A result that analyze goes on with was read whole from a worker which   *)
(* ended of itself and had been sent no signal; and after _run_process has *)
(* waited its time for the first bytes of an answer it takes none, however *)
(* soon the worker answers then.                                           *)
(***************************************************************************)
THEOREM ResultBeginsInTimeHolds == Spec => ResultBeginsInTime
<1>1. IInv => ResultIsWhole /\ parent \in ParentType
  BY DEF IInv, TypeOK
<1>2. IInv /\ At("late") => TooLate
  BY DEF IInv, SignalsLate, TooLate, At
<1>3. TooLate => parent.outcome # "result"
  BY DEF TooLate
<1>4. parent \in ParentType /\ TooLate /\ [Next]_vars => TooLate'
  BY TooLateKept
<1> QED
  BY <1>1, <1>2, <1>3, <1>4, Invariant, PTL DEF Spec, ResultBeginsInTime

-----------------------------------------------------------------------------
(* The trace and the packet *)

\* The runs that have started are told apart by the order of their starts, and a run
\* that broke is not forgotten.
Started(t) == tool[t].status \in {"open", "returned", "broken"}
StartsApart ==
    /\ IsFiniteSet(recorder.completed)
    /\ \A t \in Tools : Started(t) => tool[t].order \in 1..Cardinality(recorder.ids)
    /\ \A t, u \in Tools : Started(t) /\ Started(u) /\ tool[t].order = tool[u].order => t = u
    /\ \A t \in Tools : tool[t].status = "returned" => tool[t].output \in Outputs
    /\ \A t \in Tools : tool[t].status = "broken" => recorder.failed
\* Once there is a trace no tool is called any more.
TraceLast == trace # <<>> => worker.pc # "working"
\* The packet is what the trace makes of it.
PacketSaid == packet # NoDay => packet = Published(trace)

TraceInv == IInv /\ StartsApart /\ TraceLast /\ TraceIsWhole /\ PacketSaid

Ascending(f, N, ord) == \A m, n \in 1..N : m < n => ord[f[m]] < ord[f[n]]

\* A finite set with numbers that differ can be put in their order.
LEMMA Sortable ==
    ASSUME NEW S, IsFiniteSet(S), NEW ord \in [S -> Nat],
           \A x, y \in S : ord[x] = ord[y] => x = y
    PROVE  \E f \in [1..Cardinality(S) -> S] : Ascending(f, Cardinality(S), ord)
<1> DEFINE N == Cardinality(S)
           Upto(x) == {y \in S : ord[y] <= ord[x]}
           rank == [x \in S |-> Cardinality(Upto(x))]
<1>1. N \in Nat
  BY FS_CardinalityType
<1>2. \A x \in S : IsFiniteSet(Upto(x)) /\ Cardinality(Upto(x)) \in 1..N
  <2> SUFFICES ASSUME NEW x \in S
               PROVE  IsFiniteSet(Upto(x)) /\ Cardinality(Upto(x)) \in 1..N
    OBVIOUS
  <2>1. Upto(x) \in SUBSET S /\ x \in Upto(x)
    OBVIOUS
  <2> HIDE DEF Upto
  <2>2. IsFiniteSet(Upto(x)) /\ Cardinality(Upto(x)) <= N
    BY <2>1, FS_Subset
  <2>3. Cardinality(Upto(x)) \in Nat /\ Cardinality(Upto(x)) # 0
    BY <2>1, <2>2, FS_CardinalityType, FS_EmptySet
  <2> QED
    BY <2>2, <2>3, <1>1
<1>3. \A x, y \in S : ord[x] < ord[y] => rank[x] < rank[y]
  <2> SUFFICES ASSUME NEW x \in S, NEW y \in S, ord[x] < ord[y]
               PROVE  rank[x] < rank[y]
    OBVIOUS
  <2>1. Upto(x) \in SUBSET Upto(y) /\ y \in Upto(y) /\ y \notin Upto(x)
    OBVIOUS
  <2>2. rank[x] = Cardinality(Upto(x)) /\ rank[y] = Cardinality(Upto(y))
    OBVIOUS
  <2> HIDE DEF Upto, rank
  <2>3. Cardinality(Upto(x)) <= Cardinality(Upto(y)) /\ Cardinality(Upto(x)) # Cardinality(Upto(y))
    BY <2>1, <1>2, FS_Subset
  <2> QED
    BY <2>2, <2>3, <1>2
<1>4. rank \in [S -> 1..N]
  BY <1>2
<1> HIDE DEF rank, Upto
<1>5. \A x, y \in S : rank[x] = rank[y] => x = y
  BY <1>3, <1>4
<1>6. rank \in Injection(S, 1..N)
  BY <1>4, <1>5 DEF Injection, IsInjective
<1>7. IsFiniteSet(1..N) /\ Cardinality(1..N) = N
  BY <1>1, FS_Interval
<1>8. rank \in Surjection(S, 1..N)
  BY <1>6, <1>7, FS_Injection
<1>9. \A m \in 1..N : \E x \in S : rank[x] = m
  BY <1>8 DEF Surjection
<1> DEFINE f == [m \in 1..N |-> CHOOSE x \in S : rank[x] = m]
<1>10. \A m \in 1..N : f[m] \in S /\ rank[f[m]] = m
  BY <1>9
<1>11. f \in [1..N -> S]
  BY <1>10
<1> HIDE DEF f
<1>12. ASSUME NEW m \in 1..N, NEW n \in 1..N, m < n
       PROVE  ord[f[m]] < ord[f[n]]
  <2>1. f[m] \in S /\ f[n] \in S /\ rank[f[m]] = m /\ rank[f[n]] = n
    BY <1>10
  <2>2. ~ (ord[f[n]] < ord[f[m]]) /\ ord[f[m]] # ord[f[n]]
    BY <2>1, <1>3, <1>12
  <2> QED
    BY <2>1, <2>2
<1> QED
  BY <1>11, <1>12 DEF Ascending

\* A list in ascending order of a set has all its elements.
LEMMA SortedIsWhole ==
    ASSUME NEW S, IsFiniteSet(S), NEW ord \in [S -> Nat],
           NEW f \in [1..Cardinality(S) -> S], Ascending(f, Cardinality(S), ord)
    PROVE  \A x \in S : \E n \in 1..Cardinality(S) : f[n] = x
<1> DEFINE N == Cardinality(S)
<1>1. N \in Nat /\ IsFiniteSet(1..N) /\ Cardinality(1..N) = N
  BY FS_CardinalityType, FS_Interval
<1>2. \A m, n \in 1..N : f[m] = f[n] => m = n
  BY <1>1 DEF Ascending
<1>3. f \in Injection(1..N, S)
  BY <1>2 DEF Injection, IsInjective
<1>4. f \in Surjection(1..N, S)
  BY <1>1, <1>3, FS_Injection
<1> QED
  BY <1>4 DEF Surjection

\* Max of FiniteSetsExt.
LEMMA MaxBounds ==
    ASSUME NEW S \in SUBSET Int, IsFiniteSet(S), S # {}
    PROVE  Max(S) \in S /\ \A x \in S : x <= Max(S)
<1> DEFINE From(x) == {y \in S : x <= y}
           F == {From(x) : x \in S}
<1>1. IsWellFoundedOn(StrictSubsetOrdering(S), FiniteSubsetsOf(S))
  BY FS_StrictSubsetOrderingWellFounded
<1>2. F \subseteq FiniteSubsetsOf(S) /\ F # {}
  <2>1. \A x \in S : From(x) \in SUBSET S
    OBVIOUS
  <2> HIDE DEF From
  <2>2. \A x \in S : From(x) \in FiniteSubsetsOf(S)
    BY <2>1, FS_Subset DEF FiniteSubsetsOf
  <2> QED
    BY <2>2
<1> HIDE DEF F
<1>3. PICK G \in F : \A H \in F : ~ (<<H, G>> \in StrictSubsetOrdering(S))
  BY <1>1, <1>2, WFMin
<1>4. PICK x \in S : G = From(x)
  BY DEF F
<1>5. ASSUME NEW y \in S, ~ (y <= x) PROVE FALSE
  <2>1. From(y) \in F
    BY DEF F
  <2>0. x \in Int /\ y \in Int /\ \A z \in S : y <= z => x <= z
    BY <1>5
  <2>2. From(y) \subseteq From(x) /\ x \in From(x) /\ x \notin From(y)
    <3>1. x <= x /\ ~ (y <= x)
      BY <2>0, <1>5
    <3> QED
      BY <2>0, <3>1
  <2> HIDE DEF From
  <2>3. From(x) \subseteq S /\ From(y) \subseteq S
    BY DEF From
  <2>4. <<From(y), From(x)>> \in StrictSubsetOrdering(S)
    BY <2>2, <2>3 DEF StrictSubsetOrdering
  <2> QED
    BY <2>1, <2>4, <1>3, <1>4
<1>6. \E z \in S : \A y \in S : z >= y
  BY <1>5
<1> HIDE DEF From
<1>7. Max(S) \in S /\ \A y \in S : Max(S) >= y
  BY <1>6 DEF Max
<1> QED
  BY <1>7
\* One step keeps the starts apart.
LEMMA StartsKept == ToolsFit /\ StartsApart /\ [Next]_vars => StartsApart'
<1> SUFFICES ASSUME ToolsFit, StartsApart, [Next]_vars
             PROVE  StartsApart'
  OBVIOUS
<1> USE DEF ToolsFit, StartsApart, Started
<1>0. \A t \in Tools : tool[t] \in RunType
  OBVIOUS
<1>1. ASSUME NEW t \in Tools, NEW id \in CallIds, StartTool(t, id)
      PROVE  StartsApart'
  <2> DEFINE k == Cardinality(recorder.ids)
  <2>1. IsFiniteSet(recorder.ids) /\ k \in Nat
    BY CallIdsAssumption, FS_Subset, FS_CardinalityType
  <2>2. recorder'.ids = recorder.ids \cup {id} /\ id \notin recorder.ids
        /\ recorder'.completed = recorder.completed /\ recorder'.failed = recorder.failed
    BY <1>1 DEF StartTool
  <2>3. Cardinality(recorder'.ids) = k + 1
    <3>1. Cardinality(recorder.ids \cup {id}) = Cardinality(recorder.ids) + 1
      BY <2>1, <2>2, FS_AddElement
    <3> QED
      BY <3>1, <2>2
  <2>4. /\ tool'[t].status = "open" /\ tool'[t].order = k + 1
        /\ \A u \in Tools : u # t => tool'[u] = tool[u]
    BY <1>1 DEF StartTool, NewRun
  <2> HIDE DEF k
  <2>5. \A u \in Tools : u # t /\ Started(u)' => tool'[u].order \in 1..k
    BY <2>4 DEF k
  <2>6. \A u \in Tools : Started(u)' => tool'[u].order \in 1..(k + 1)
    BY <2>1, <2>4, <2>5
  <2>7. \A u, v \in Tools : Started(u)' /\ Started(v)' /\ tool'[u].order = tool'[v].order => u = v
    <3> SUFFICES ASSUME NEW u \in Tools, NEW v \in Tools, Started(u)', Started(v)',
                        tool'[u].order = tool'[v].order, u # v
                 PROVE  FALSE
      OBVIOUS
    <3>1. CASE u = t
      BY <3>1, <2>1, <2>4, <2>5
    <3>2. CASE v = t
      BY <3>2, <2>1, <2>4, <2>5
    <3>3. CASE u # t /\ v # t
      BY <3>3, <2>4
    <3> QED
      BY <3>1, <3>2, <3>3
  <2>8. \A u \in Tools : tool'[u].status = "returned" => tool'[u].output \in Outputs
    BY <2>4
  <2>9. \A u \in Tools : tool'[u].status = "broken" => recorder'.failed
    BY <2>2, <2>4
  <2> QED
    BY <2>2, <2>3, <2>6, <2>7, <2>8, <2>9
<1>2. ASSUME NEW t \in Tools, tool[t].status = "new", tool'= [tool EXCEPT ![t].status = "refused"],
             recorder'.ids = recorder.ids, recorder'.completed = recorder.completed,
             recorder.failed => recorder'.failed
      PROVE  StartsApart'
  <2>1. /\ tool'[t].status = "refused"
        /\ \A u \in Tools : u # t => tool'[u] = tool[u]
    BY <1>2, <1>0 DEF RunType
  <2>2. \A u \in Tools : Started(u)' => u # t /\ Started(u)
    BY <2>1
  <2>3. \A u \in Tools : tool'[u].status \in {"returned", "broken"} => u # t
    BY <2>1
  <2> QED
    BY <2>1, <2>2, <2>3, <1>2
<1>3. ASSUME NEW t \in Tools, NEW o \in Outputs, EndTool(t, o)
      PROVE  StartsApart'
  <2>1. /\ tool'[t].status = "returned" /\ tool'[t].output = o /\ tool'[t].order = tool[t].order
        /\ \A u \in Tools : u # t => tool'[u] = tool[u]
    BY <1>3, <1>0 DEF EndTool, RunType
  <2>2. Started(t) /\ \A u \in Tools : Started(u)' => Started(u) /\ tool'[u].order = tool[u].order
    BY <2>1, <1>3 DEF EndTool
  <2>3. recorder'.ids = recorder.ids /\ recorder'.completed = recorder.completed \cup {t}
        /\ recorder'.failed = recorder.failed
    BY <1>3 DEF EndTool
  <2>4. IsFiniteSet(recorder'.completed)
    BY <2>3, FS_AddElement
  <2>5. \A u \in Tools : tool'[u].status = "returned" => tool'[u].output \in Outputs
    BY <2>1
  <2>6. \A u \in Tools : tool'[u].status = "broken" => recorder'.failed
    BY <2>1, <2>3
  <2>7. /\ \A u \in Tools : Started(u)' => tool'[u].order \in 1..Cardinality(recorder'.ids)
        /\ \A u, v \in Tools : Started(u)' /\ Started(v)' /\ tool'[u].order = tool'[v].order => u = v
    BY <2>2, <2>3
  <2> QED
    BY <2>4, <2>5, <2>6, <2>7
<1>4. ASSUME NEW t \in Tools, BreakTool(t)
      PROVE  StartsApart'
  <2>1. /\ tool'[t].status = "broken" /\ tool'[t].order = tool[t].order
        /\ \A u \in Tools : u # t => tool'[u] = tool[u]
    BY <1>4, <1>0 DEF BreakTool, Moved, RunType
  <2>2. \A u \in Tools : Started(u)' => Started(u) /\ tool'[u].order = tool[u].order
    BY <2>1, <1>4 DEF BreakTool
  <2>3. recorder'.ids = recorder.ids /\ recorder'.completed = recorder.completed
        /\ recorder'.failed
    BY <1>4 DEF BreakTool
  <2>4. \A u \in Tools : tool'[u].status = "returned" => tool'[u].output \in Outputs
    BY <2>1
  <2>5. /\ \A u \in Tools : Started(u)' => tool'[u].order \in 1..Cardinality(recorder'.ids)
        /\ \A u, v \in Tools : Started(u)' /\ Started(v)' /\ tool'[u].order = tool'[v].order => u = v
    BY <2>2, <2>3
  <2> QED
    BY <2>3, <2>4, <2>5
<1>5. CASE UNCHANGED <<tool, recorder>>
  BY <1>5
<1>6. ASSUME NEW t \in Tools, NEW id \in CallIds, RepeatId(t, id)
      PROVE  StartsApart'
  BY <1>6, <1>2 DEF RepeatId, Moved, Failed
<1>7. ASSUME NEW t \in Tools, RefuseStart(t)
      PROVE  StartsApart'
  BY <1>7, <1>2 DEF RefuseStart, Moved
<1> HIDE DEF ToolsFit, StartsApart, Started
<1> QED
  BY <1>1, <1>3, <1>4, <1>5, <1>6, <1>7
     DEF Next, Parent, Worker, Graph, vars, graphVars, SendResult, SendRest, SendFailure,
         Close, Exit, Killed, Start, NotStarted, Rest, Polled, PollTimesOut, GiveUp, Receive,
         EndOfFile, Judge, JoinTimesOut, JoinTerminated, Kill, KillTimesOut, Cleanup,
         Conclude, Interrupt

\* What export returns is the whole of what has returned, in the order of the starts.
LEMMA ExportIsWhole ==
    ASSUME ToolsFit, StartsApart, Exportable
    PROVE  /\ \A t \in Tools : tool[t].status \notin {"open", "broken"}
           /\ Len(Export) = Cardinality(Returned)
           /\ \A t \in Returned : \E n \in 1..Len(Export) :
                 Export[n] = [id |-> tool[t].id, output |-> tool[t].output]
           /\ \A t, u \in Returned : tool[t].order < tool[u].order =>
                 \E m, n \in 1..Len(Export) : m < n /\ Export[m].id = tool[t].id
                                                    /\ Export[n].id = tool[u].id
<1> DEFINE S == recorder.completed
           N == Cardinality(S)
           ord == [t \in S |-> tool[t].order]
<1>1. S = Returned /\ S \subseteq Tools /\ IsFiniteSet(S)
  BY DEF ToolsFit, StartsApart, Returned
<1>2. N \in Nat
  BY <1>1, FS_CardinalityType
<1>3. \A t \in S : tool[t].order \in Nat /\ ord[t] = tool[t].order
  BY <1>1 DEF ToolsFit, RunType
<1>4. ord \in [S -> Nat] /\ \A t, u \in S : ord[t] = ord[u] => t = u
  BY <1>1, <1>3 DEF StartsApart, Started, Returned
<1> HIDE DEF S, ord
<1>5. PICK f \in [1..N -> S] : Ascending(f, N, ord)
  BY <1>1, <1>4, Sortable
<1>6. f \in [1..N -> S] /\ \A m, n \in DOMAIN f : m < n => tool[f[m]].order < tool[f[n]].order
  BY <1>5, <1>3 DEF Ascending
<1>7. Ordered \in [1..N -> S]
      /\ \A m, n \in DOMAIN Ordered : m < n => tool[Ordered[m]].order < tool[Ordered[n]].order
  BY <1>6 DEF Ordered, S
<1>8. DOMAIN Ordered = 1..N
  BY <1>7
<1>9. Ascending(Ordered, N, ord)
  BY <1>7, <1>8, <1>3 DEF Ascending
<1>10. \A t \in S : \E n \in 1..N : Ordered[n] = t
  <2>1. Ordered \in [1..N -> S]
    BY <1>7
  <2>2. IsFiniteSet(S) /\ ord \in [S -> Nat]
    BY <1>1, <1>4
  <2> HIDE DEF N
  <2>3. \A g \in [1..Cardinality(S) -> S] : Ascending(g, Cardinality(S), ord) =>
           \A t \in S : \E n \in 1..Cardinality(S) : g[n] = t
    BY ONLY <2>2, SortedIsWhole
  <2> QED
    BY <2>1, <2>3, <1>9 DEF N
<1>11. Len(Export) = N /\ \A n \in 1..N :
          Export[n] = [id |-> tool[Ordered[n]].id, output |-> tool[Ordered[n]].output]
  BY <1>2, <1>8 DEF Export
<1>12. \A t \in Tools : tool[t].status \notin {"open", "broken"}
  BY DEF Exportable, ToolsFit, StartsApart
<1>13. ASSUME NEW t \in S
       PROVE  \E n \in 1..N : Export[n] = [id |-> tool[t].id, output |-> tool[t].output]
  BY <1>10, <1>11
<1>14. ASSUME NEW t \in S, NEW u \in S, tool[t].order < tool[u].order
       PROVE  \E m, n \in 1..N : m < n /\ Export[m].id = tool[t].id /\ Export[n].id = tool[u].id
  <2>1. PICK m \in 1..N : Ordered[m] = t
    BY <1>10
  <2>2. PICK n \in 1..N : Ordered[n] = u
    BY <1>10
  <2>3. m < n
    <3>1. ~ (n < m) /\ m # n
      <4>1. n < m => ord[u] < ord[t]
        BY <2>1, <2>2, <1>9 DEF Ascending
      <4>2. ord[t] \in Nat /\ ord[u] \in Nat /\ ord[t] < ord[u]
        BY <1>3, <1>14
      <4> QED
        BY <4>1, <4>2, <2>1, <2>2
    <3> QED
      BY <3>1, <1>2
  <2> QED
    BY <2>1, <2>2, <2>3, <1>11
<1> QED
  BY <1>1, <1>11, <1>12, <1>13, <1>14
\* The other actions leave the tools and the trace alone.
LEMMA TraceMoves ==
    ASSUME [Next]_vars
    PROVE  \/ Graph /\ UNCHANGED <<worker, trace>> /\ worker.pc = "working"
           \/ SendResult
           \/ UNCHANGED <<tool, recorder, trace>>
BY DEF Next, Parent, Worker, Graph, vars, graphVars, StartTool, RepeatId, RefuseStart,
       EndTool, BreakTool, Quiet, Working, SendRest, SendFailure, Close, Exit, Killed,
       Start, NotStarted, Rest, Polled, PollTimesOut, GiveUp, Receive, EndOfFile, Judge,
       JoinTimesOut, JoinTerminated, Kill, KillTimesOut, Cleanup, Conclude, Interrupt

\* A worker that has left its graph does not go back to it.
LEMMA WorkDone == worker \in WorkerType /\ [Next]_vars /\ worker'.pc = "working" => worker.pc = "working"
<1> SUFFICES ASSUME worker \in WorkerType, [Next]_vars, worker'.pc = "working"
             PROVE  worker.pc = "working"
  OBVIOUS
<1> USE DEF WorkerType, graphVars, At
<1>1. CASE SendResult
  BY <1>1 DEF SendResult, Working, Write, ReaderOpen, WorkerGoes
<1>2. CASE SendRest
  BY <1>2 DEF SendRest, Alive, Write, ReaderOpen, WorkerGoes
<1>3. CASE SendFailure
  BY <1>3 DEF SendFailure, Alive, Write, ReaderOpen, WorkerGoes
<1>4. CASE Close
  BY <1>4 DEF Close, Alive, WorkerGoes
<1>5. CASE Exit
  BY <1>5 DEF Exit, Alive
<1>6. CASE Killed
  BY <1>6 DEF Killed, Alive
<1>7. CASE Start
  BY <1>7 DEF Start, ParentGoes, Fails
<1>8. CASE NotStarted
  BY <1>8 DEF NotStarted, Terminate, Signalled, Alive, Rest
<1>9. CASE GiveUp
  BY <1>9 DEF GiveUp, Terminate, Signalled, Alive, Rest
<1>10. CASE JoinTimesOut
  BY <1>10 DEF JoinTimesOut, Terminate, Signalled, Alive, Rest
<1>11. CASE Kill
  BY <1>11 DEF Kill, ParentGoes, Signalled, Alive, Rest
<1>12. CASE Cleanup
  BY <1>12 DEF Cleanup, ParentGoes, Signalled, Alive, Rest
<1>13. CASE UNCHANGED <<worker>>
  BY <1>13
<1> QED
  BY <1>1, <1>2, <1>3, <1>4, <1>5, <1>6, <1>7, <1>8, <1>9, <1>10, <1>11, <1>12, <1>13
     DEF Next, Parent, Worker, Graph, vars, StartTool, Working, Quiet, NewRun,
         RepeatId, Moved, Failed, RefuseStart, EndTool, BreakTool, Polled, ParentGoes,
         Rest, PollTimesOut, Receive, Whole, Answer, EndOfFile, Fails, Judge, Alive,
         JoinTerminated, Ended, KillTimesOut, Conclude, Interrupt

\* Only Conclude makes a packet.
LEMMA PacketMoves ==
    ASSUME [Next]_vars
    PROVE  packet' = packet \/ (packet' = Published(trace) /\ trace' = trace)
BY DEF Next, Parent, Worker, Graph, vars, graphVars, StartTool, RepeatId, RefuseStart,
       EndTool, BreakTool, Quiet, SendResult, SendRest, SendFailure, Close, Exit, Killed,
       Start, NotStarted, Rest, Polled, PollTimesOut, GiveUp, Receive, EndOfFile, Judge,
       JoinTimesOut, JoinTerminated, Kill, KillTimesOut, Cleanup, Conclude, Interrupt

\* A trace is whole when it is exported, and nothing is called after it.
LEMMA TraceKept == TraceInv /\ [Next]_vars => (TraceLast /\ TraceIsWhole)'
<1> SUFFICES ASSUME TraceInv, [Next]_vars
             PROVE  (TraceLast /\ TraceIsWhole)'
  OBVIOUS
<1>1. /\ worker \in WorkerType /\ ToolsFit /\ StartsApart /\ TraceLast /\ TraceIsWhole
      /\ worker'.pc = "working" => worker.pc = "working"
  BY WorkDone DEF TraceInv, IInv, TypeOK
<1>2. CASE SendResult
  <2>1. Exportable /\ trace' = Export /\ tool' = tool /\ worker'.pc # "working"
    BY <1>1, <1>2 DEF SendResult, WorkerGoes, WorkerType
  <2>2. Returned' = Returned
    BY <2>1 DEF Returned
  <2> DEFINE e == Export
  <2>3. trace' = e
    BY <2>1
  <2>4. /\ \A t \in Tools : tool[t].status \notin {"open", "broken"}
        /\ Len(e) = Cardinality(Returned)
        /\ \A t \in Returned : \E n \in 1..Len(e) :
              e[n] = [id |-> tool[t].id, output |-> tool[t].output]
        /\ \A t, u \in Returned : tool[t].order < tool[u].order =>
              \E m, n \in 1..Len(e) : m < n /\ e[m].id = tool[t].id /\ e[n].id = tool[u].id
    BY <1>1, <2>1, ExportIsWhole
  <2> HIDE DEF e
  <2>5. TraceIsWhole'
    BY <2>1, <2>2, <2>3, <2>4 DEF TraceIsWhole
  <2> QED
    BY <2>1, <2>5 DEF TraceLast
<1>3. CASE UNCHANGED <<tool, recorder, trace>>
  <2>1. Returned' = Returned
    BY <1>3 DEF Returned
  <2>2. TraceIsWhole'
    BY <1>1, <1>3, <2>1 DEF TraceIsWhole
  <2> QED
    BY <1>1, <1>3, <2>2 DEF TraceLast
<1>4. CASE UNCHANGED <<worker, trace>> /\ worker.pc = "working"
  <2>1. trace' = <<>>
    BY <1>1, <1>4 DEF TraceLast
  <2> QED
    BY <2>1 DEF TraceLast, TraceIsWhole
<1> QED
  BY <1>2, <1>3, <1>4, TraceMoves

\* The packet stays what the trace makes of it.
LEMMA PacketKept == TraceInv /\ [Next]_vars => PacketSaid'
<1> SUFFICES ASSUME TraceInv, [Next]_vars, packet' # NoDay
             PROVE  packet' = Published(trace')
  BY DEF PacketSaid
<1>1. PacketSaid /\ TraceLast
  BY DEF TraceInv
<1>2. CASE trace' = trace
  BY <1>1, <1>2, PacketMoves DEF PacketSaid
<1>3. CASE trace' # trace
  <2>1. packet' = packet
    BY <1>3, PacketMoves
  <2>2. worker.pc = "working"
    BY <1>3, TraceMoves DEF SendResult, Working
  <2>3. trace = <<>>
    BY <1>1, <2>2 DEF TraceLast
  <2>4. Published(<<>>) = NoDay
    BY DEF Published
  <2> QED
    BY <1>1, <2>1, <2>3, <2>4 DEF PacketSaid
<1> QED
  BY <1>2, <1>3

\* What the packet was made of had only days up to the cutoff.
LEMMA PacketIsSafe == TraceInv => NoLookAhead
<1> SUFFICES ASSUME TraceInv, packet # NoDay
             PROVE  /\ packet <= AsOf
                    /\ \A t \in Returned : \A d \in tool[t].output.days : d <= Cutoff
  BY DEF NoLookAhead
<1>1. /\ trace # <<>> /\ \A n \in 1..Len(trace) : Admitted(trace[n].output)
      /\ packet = Max(SourceDays(trace)) + 1 /\ packet <= AsOf
  <2> DEFINE m == Max(SourceDays(trace))
             fine == /\ trace # <<>>
                     /\ \A n \in 1..Len(trace) : Admitted(trace[n].output)
                     /\ \A k, n \in 1..Len(trace) : trace[k].id = trace[n].id => k = n
                     /\ \E n \in 1..Len(trace) : trace[n].output.kind = "stock"
                     /\ m + 1 <= AsOf
  <2>1. Published(trace) = IF fine THEN m + 1 ELSE NoDay
    BY DEF Published
  <2>2. packet = Published(trace)
    BY DEF TraceInv, PacketSaid
  <2>3. fine
    <3> HIDE DEF fine
    <3> QED
      BY <2>1, <2>2
  <2>4. packet = m + 1
    BY <2>1, <2>2, <2>3
  <2> QED
    BY <2>3, <2>4
<1>2. ASSUME NEW t \in Returned, NEW d \in tool[t].output.days
      PROVE  d <= Cutoff
  <2> DEFINE o == tool[t].output
  <2>1. \E n \in 1..Len(trace) : trace[n] = [id |-> tool[t].id, output |-> tool[t].output]
    BY <1>1 DEF TraceInv, TraceIsWhole
  <2>2. Admitted(o)
    BY <1>1, <2>1
  <2>3. o \in Outputs
    BY DEF TraceInv, StartsApart, Returned
  <2> HIDE DEF o
  <2>4. o.days \in SUBSET Int /\ IsFiniteSet(o.days) /\ o.days # {}
    BY <2>2, <2>3, OutputsAssumption DEF Admitted, Asked
  <2>5. Max(o.days) <= Cutoff /\ Max(o.days) \in Int /\ \A x \in o.days : x <= Max(o.days)
    BY <2>2, <2>4, MaxBounds, DayAssumption DEF Admitted, Cutoff
  <2>6. d \in o.days /\ d \in Int /\ Cutoff \in Int
    BY <2>4, DayAssumption DEF o, Cutoff
  <2> QED
    BY <2>5, <2>6
<1> QED
  BY <1>1, <1>2

\* The invariant of the trace and the packet.
LEMMA TraceInvariant == Spec => []TraceInv
<1>1. Init => TraceInv
  <2> SUFFICES ASSUME Init
               PROVE  TraceInv
    OBVIOUS
  <2>1. IInv
    BY TypeInit DEF Init, IInv, HeadFirst, KillSent, NoWorkerLeft, SignalsLate,
                    ResultIsWhole, At
  <2>2. StartsApart
    BY FS_EmptySet DEF Init, StartsApart, Started, NewRun
  <2>3. TraceLast /\ TraceIsWhole /\ PacketSaid
    BY DEF Init, TraceLast, TraceIsWhole, PacketSaid
  <2> QED
    BY <2>1, <2>2, <2>3 DEF TraceInv
<1>2. TraceInv /\ IInv' /\ [Next]_vars => TraceInv'
  BY StartsKept, TraceKept, PacketKept DEF TraceInv, IInv, TypeOK
<1>3. Spec => []IInv
  BY Invariant
<1> QED
  BY <1>1, <1>2, <1>3, PTL DEF Spec

(***************************************************************************)
(* _ToolTraceRecorder.export: the trace tells of every tool whose content  *)
(* the graph has seen, in the order of their starts, whatever the graph    *)
(* swallowed and whenever its threads called.                              *)
(***************************************************************************)
THEOREM TraceIsWholeHolds == Spec => []TraceIsWhole
BY TraceInvariant, PTL DEF TraceInv

(***************************************************************************)
(* When analyze returns a packet, no tool content the graph worked with    *)
(* had a day after the cutoff, and the evidence was public by as_of.       *)
(***************************************************************************)
THEOREM NoLookAheadHolds == Spec => []NoLookAhead
BY TraceInvariant, PacketIsSafe, PTL
=============================================================================
