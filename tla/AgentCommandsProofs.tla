------------------------- MODULE AgentCommandsProofs -------------------------
(* What TLAPS proves about AgentCommands, for every fleet, every number of    *)
(* workers and every length of the queue.                                     *)
EXTENDS AgentCommands, TLAPS

-----------------------------------------------------------------------------
(* The inductive invariant.                                                  *)

\* The rows of a host are numbered without gaps.
RowsInv == \A c \in CmdId : status[c] = "absent" <=> c[2] > count[c[1]]

\* What has left the server carries its stamp, and only existing rows do.
StampInv ==
    \A c \in CmdId :
        /\ status[c] \in {"sent", "done", "failed"} => c \in dispatched
        /\ c \in dispatched => status[c] # "absent"
        /\ got[c] > 0 => c \in dispatched

\* Every older row of c's host was sent before, or called off.
OlderServed(c) ==
    \A d \in CmdId : d[1] = c[1] /\ d[2] < c[2] =>
        d \in dispatched \/ status[d] = "cancelled"

\* What a worker carries between its SELECT and its response.
WorkerInv ==
    \A w \in Worker :
        /\ pc[w] = "mark" => OlderServed(Held(w)) /\ status[Held(w)] # "absent"
        /\ pc[w] = "respond" => Held(w) \in dispatched

\* An execution follows a delivery, and a result of 0 an execution that gave it.
RunInv ==
    /\ \A c \in CmdId, s \in Slot :
          /\ run[c][s].pc # "free" => got[c] > 0
          /\ run[c][s].pc \in {"report", "await"} /\ run[c][s].out = "done"
                => c \in ran
    /\ \A c \in CmdId, o \in Verdict :
          <<c, o>> \in late => got[c] > 0 /\ (o = "done" => c \in ran)

IInv ==
    /\ CommandTypeOK /\ RowsInv /\ StampInv /\ WorkerInv /\ RunInv
    /\ VerdictBacked /\ FirstDispatchInOrder

-----------------------------------------------------------------------------
(* Facts about the operators of the model.                                   *)

LEMMA CmdIdParts ==
  \A c \in CmdId : c[1] \in Host /\ c[2] \in 1 .. MaxPerHost /\ c = <<c[1], c[2]>>
BY DEF CmdId

LEMMA HeldInCmdId == CommandTypeOK => \A w \in Worker : Held(w) \in CmdId
BY DEF CommandTypeOK, ServerType, Held, CmdId

LEMMA FreeType == Free \in RunState
BY BoundsAssumption DEF Free, RunState, Verdict

LEMMA KilledType ==
  ASSUME CommandTypeOK, NEW h \in Host
  PROVE  Killed(h) \in [CmdId -> [Slot -> RunState]]
BY FreeType DEF CommandTypeOK, RunType, Killed


LEMMA InsertRowsType ==
  ASSUME RowType, RowsInv, NEW G \in SUBSET Host, NEW l \in Label, InsertRows(G, l)
  PROVE  RowType'
BY BoundsAssumption, CmdIdParts DEF RowType, RowsInv, InsertRows, Open, Closed, Verdict

-----------------------------------------------------------------------------
(* Which steps touch which part of the state.                                *)

LEMMA RowCases ==
  ASSUME [CommandNext]_commandVars
  PROVE  \/ UNCHANGED row
         \/ \E G \in SUBSET Host, l \in Label : InsertRows(G, l)
         \/ \E c \in CmdId : CancelWrite(c) \/ Age(c)
         \/ \E w \in Worker : PollRequeue(w) \/ PollMark(w)
         \/ \E c \in CmdId, s \in Slot :
               ResultAcknowledged(c, s) \/ ResultUnacknowledged(c, s)
         \/ \E c \in CmdId, o \in Verdict : LateResult(c, o)
BY DEF CommandNext, commandVars, Console, Poll, Endpoint, Results, QueueCommand, QueueForGroup,
       DeleteAgent, CancelRead, CheckIn, PollSelect, PollEmpty, Discard, WorkerDies,
       ReceiveScript, ReceiveUninstall, ReceiveUpgrade, Receive, HangUp,
       AgentRestart, Reinstall, Finish, Post, ResultTimeout, LateResultLost, GiveUp

LEMMA ServerCases ==
  ASSUME [CommandNext]_commandVars
  PROVE  \/ UNCHANGED server
         \/ \E w \in Worker :
               \/ \E h \in Host : CheckIn(h, w)
               \/ PollRequeue(w) \/ PollSelect(w) \/ PollMark(w)
               \/ Rest(w) /\ UNCHANGED peer
BY DEF CommandNext, commandVars, Console, Poll, Endpoint, Results, QueueCommand, QueueForGroup,
       DeleteAgent, CancelRead, CancelWrite, PollEmpty, Discard, WorkerDies, Age,
       ReceiveScript, ReceiveUninstall, ReceiveUpgrade, Receive, HangUp,
       AgentRestart, Reinstall, Finish, Post, ResultAcknowledged, Record,
       ResultUnacknowledged, ResultTimeout, LateResult, LateResultLost, GiveUp,
       server

LEMMA RunCases ==
  ASSUME CommandTypeOK, [CommandNext]_commandVars
  PROVE  \/ UNCHANGED run
         \/ \E w \in Worker : ReceiveScript(w)
         \/ \E h \in Host : run' = Killed(h)
         \/ \E c \in CmdId, s \in Slot :
               \/ \E o \in Verdict : Finish(c, s, o)
               \/ Post(c, s)
               \/ run' = [run EXCEPT ![c][s] = Free]
               \/ run' = [run EXCEPT ![c][s].pc = "report"] /\ run[c][s].pc = "await"
BY DEF CommandNext, commandVars, Console, Poll, Endpoint, Results, QueueCommand, QueueForGroup,
       DeleteAgent, CancelRead, CancelWrite, CheckIn, PollRequeue, PollSelect,
       PollEmpty, PollMark, Discard, WorkerDies, Age, ReceiveUninstall,
       ReceiveUpgrade, HangUp, AgentRestart, Reinstall, ResultAcknowledged, Record,
       ResultUnacknowledged, ResultTimeout, LateResult, LateResultLost, GiveUp,
       agent, CommandTypeOK, ServerType

LEMMA HistoryCases ==
  ASSUME [CommandNext]_commandVars
  PROVE  \/ UNCHANGED history
         \/ \E w \in Worker : Receive(w)
         \/ \E c \in CmdId, s \in Slot, o \in Verdict : Finish(c, s, o)
BY DEF CommandNext, commandVars, Console, Poll, Endpoint, Results, QueueCommand, QueueForGroup,
       DeleteAgent, CancelRead, CancelWrite, CheckIn, PollRequeue, PollSelect,
       PollEmpty, PollMark, Discard, WorkerDies, Age, ReceiveScript,
       ReceiveUninstall, ReceiveUpgrade, HangUp, AgentRestart, Reinstall, Post,
       ResultAcknowledged, Record, ResultUnacknowledged, ResultTimeout, LateResult,
       LateResultLost, GiveUp

LEMMA EnrolCases ==
  ASSUME [CommandNext]_commandVars
  PROVE  \/ UNCHANGED enrol
         \/ \E h \in Host : DeleteAgent(h) \/ Reinstall(h)
         \/ \E w \in Worker :
               \/ \E h \in Host : CheckIn(h, w)
               \/ PollRequeue(w) \/ PollMark(w)
BY DEF CommandNext, commandVars, Console, Poll, Endpoint, Results, QueueCommand, QueueForGroup,
       CancelRead, CancelWrite, PollSelect, PollEmpty, Discard, WorkerDies, Age,
       ReceiveScript, ReceiveUninstall, ReceiveUpgrade, Receive, HangUp,
       AgentRestart, Finish, Post, ResultAcknowledged, Record,
       ResultUnacknowledged, ResultTimeout, LateResult, LateResultLost, GiveUp

LEMMA AgentCases ==
  ASSUME [CommandNext]_commandVars
  PROVE  \/ UNCHANGED <<installed, conn>>
         \/ \E h \in Host : HangUp(h) \/ AgentRestart(h) \/ Reinstall(h)
         \/ \E w \in Worker :
               \/ \E h \in Host : CheckIn(h, w)
               \/ PollEmpty(w) \/ WorkerDies(w)
               \/ /\ Receive(w)
                  /\ \/ installed' = installed
                     \/ installed' = [installed EXCEPT ![peer[w]] = FALSE]
BY DEF CommandNext, commandVars, Console, Poll, Endpoint, Results, QueueCommand, QueueForGroup,
       DeleteAgent, CancelRead, CancelWrite, PollRequeue, PollSelect, PollMark,
       Discard, Age, ReceiveScript, ReceiveUninstall, ReceiveUpgrade, Finish, Post,
       ResultAcknowledged, Record, ResultUnacknowledged, ResultTimeout, LateResult,
       LateResultLost, GiveUp, agent

LEMMA CancelCases ==
  ASSUME [CommandNext]_commandVars
  PROVE  \/ UNCHANGED cancels
         \/ \E c \in CmdId : CancelRead(c) \/ CancelWrite(c)
BY DEF CommandNext, commandVars, Console, Poll, Endpoint, Results, QueueCommand, QueueForGroup,
       DeleteAgent, CheckIn, PollRequeue, PollSelect, PollEmpty, PollMark, Discard,
       WorkerDies, Age, ReceiveScript, ReceiveUninstall, ReceiveUpgrade, Receive,
       HangUp, AgentRestart, Reinstall, Finish, Post, ResultAcknowledged, Record,
       ResultUnacknowledged, ResultTimeout, LateResult, LateResultLost, GiveUp

LEMMA LateCases ==
  ASSUME [CommandNext]_commandVars
  PROVE  \/ late' \subseteq late
         \/ \E c \in CmdId, s \in Slot : ResultTimeout(c, s)
BY DEF CommandNext, commandVars, Console, Poll, Endpoint, Results, QueueCommand, QueueForGroup,
       DeleteAgent, CancelRead, CancelWrite, CheckIn, PollRequeue, PollSelect,
       PollEmpty, PollMark, Discard, WorkerDies, Age, ReceiveScript,
       ReceiveUninstall, ReceiveUpgrade, Receive, HangUp, AgentRestart, Reinstall,
       Finish, Post, ResultAcknowledged, Record, ResultUnacknowledged, LateResult,
       LateResultLost, GiveUp

-----------------------------------------------------------------------------
(* Type correctness, one part of the state at a time.                        *)

LEMMA RowTypeStep ==
  ASSUME IInv, [CommandNext]_commandVars
  PROVE  RowType'
<1> USE DEF IInv, CommandTypeOK, RowType, Open, Closed, Verdict
<1>1. CASE UNCHANGED row
  BY <1>1 DEF row
<1>2. ASSUME NEW G \in SUBSET Host, NEW l \in Label, InsertRows(G, l) PROVE RowType'
  BY <1>2, InsertRowsType
<1>3. ASSUME NEW c \in CmdId, CancelWrite(c) PROVE RowType'
  <2>1. CASE status[c] \in Open
    BY <1>3, <2>1 DEF CancelWrite
  <2>2. CASE status[c] \notin Open
    BY <1>3, <2>2 DEF CancelWrite
  <2> QED
    BY <2>1, <2>2
<1>4. ASSUME NEW c \in CmdId, Age(c) PROVE RowType'
  BY <1>4 DEF Age
<1>5. ASSUME NEW w \in Worker, PollRequeue(w) PROVE RowType'
  BY <1>5 DEF PollRequeue, Requeueable
<1>6. ASSUME NEW w \in Worker, PollMark(w) PROVE RowType'
  <2>1. Held(w) \in CmdId
    BY HeldInCmdId
  <2> QED
    BY <1>6, <2>1 DEF PollMark, MarkedAs, FireAndForget
<1>7. ASSUME NEW c \in CmdId, NEW o \in Verdict, Record(c, o) PROVE RowType'
  BY <1>7 DEF Record
<1>8. ASSUME NEW c \in CmdId, NEW s \in Slot,
             ResultAcknowledged(c, s) \/ ResultUnacknowledged(c, s)
      PROVE  RowType'
  <2>1. run[c][s].out \in Verdict
    BY DEF RunType, RunState
  <2> QED
    BY <1>7, <1>8, <2>1 DEF ResultAcknowledged, ResultUnacknowledged
<1>9. ASSUME NEW c \in CmdId, NEW o \in Verdict, LateResult(c, o) PROVE RowType'
  BY <1>7, <1>9 DEF LateResult
<1> QED
  BY RowCases, <1>1, <1>2, <1>3, <1>4, <1>5, <1>6, <1>8, <1>9

LEMMA ServerTypeStep ==
  ASSUME CommandTypeOK, [CommandNext]_commandVars
  PROVE  ServerType'
<1> USE DEF CommandTypeOK, ServerType
<1>1. CASE UNCHANGED server
  BY <1>1 DEF server
<1>2. ASSUME NEW w \in Worker, NEW h \in Host, CheckIn(h, w) PROVE ServerType'
  BY <1>2 DEF CheckIn, Goto
<1>3. ASSUME NEW w \in Worker, PollRequeue(w) \/ PollMark(w) PROVE ServerType'
  BY <1>3 DEF PollRequeue, PollMark, Goto
<1>4. ASSUME NEW w \in Worker, PollSelect(w) PROVE ServerType'
  BY <1>4 DEF PollSelect, Goto
<1>5. ASSUME NEW w \in Worker, Rest(w), UNCHANGED peer PROVE ServerType'
  BY <1>5, BoundsAssumption DEF Rest
<1> QED
  BY ServerCases, <1>1, <1>2, <1>3, <1>4, <1>5

LEMMA RunTypeStep ==
  ASSUME CommandTypeOK, [CommandNext]_commandVars
  PROVE  RunType'
<1> USE DEF CommandTypeOK, RunType
<1> DEFINE RunOK == run \in [CmdId -> [Slot -> RunState]]
<1>1. RunOK'
  <2>1. CASE UNCHANGED run
    BY <2>1
  <2>2. ASSUME NEW w \in Worker, ReceiveScript(w) PROVE RunOK'
    <3>1. [Free EXCEPT !.pc = "exec"] \in RunState
      BY BoundsAssumption DEF Free, RunState, Verdict
    <3>2. PICK s \in Slot : run' = [run EXCEPT ![Held(w)][s] = [Free EXCEPT !.pc = "exec"]]
      BY <2>2 DEF ReceiveScript
    <3>3. Held(w) \in CmdId
      BY HeldInCmdId
    <3> HIDE DEF Free
    <3> QED
      BY <3>1, <3>2, <3>3
  <2>3. ASSUME NEW h \in Host, run' = Killed(h) PROVE RunOK'
    BY <2>3, KilledType
  <2>4. ASSUME NEW c \in CmdId, NEW s \in Slot, NEW o \in Verdict, Finish(c, s, o)
        PROVE  RunOK'
    BY <2>4, BoundsAssumption DEF Finish, RunState
  <2>5. ASSUME NEW c \in CmdId, NEW s \in Slot, Post(c, s) PROVE RunOK'
    BY <2>5, BoundsAssumption DEF Post, RunState
  <2>6. ASSUME NEW c \in CmdId, NEW s \in Slot, run' = [run EXCEPT ![c][s] = Free]
        PROVE  RunOK'
    BY <2>6, FreeType
  <2>7. ASSUME NEW c \in CmdId, NEW s \in Slot,
               run' = [run EXCEPT ![c][s].pc = "report"]
        PROVE  RunOK'
    <3>1. [run[c][s] EXCEPT !.pc = "report"] \in RunState
      BY DEF RunState
    <3> QED
      BY <2>7, <3>1
  <2> QED
    BY RunCases, <2>1, <2>2, <2>3, <2>4, <2>5, <2>6, <2>7
<1>2. late' \subseteq CmdId \X Verdict
  <2>1. ASSUME NEW c \in CmdId, NEW s \in Slot, ResultTimeout(c, s)
        PROVE  late' \subseteq CmdId \X Verdict
    <3>1. run[c][s].out \in Verdict
      BY DEF RunState
    <3> QED
      BY <2>1, <3>1 DEF ResultTimeout
  <2> QED
    BY LateCases, <2>1
<1> QED
  BY <1>1, <1>2

LEMMA HistoryTypeStep ==
  ASSUME CommandTypeOK, [CommandNext]_commandVars
  PROVE  HistoryType'
<1> USE DEF CommandTypeOK, HistoryType
<1>1. CASE UNCHANGED history
  BY <1>1 DEF history
<1>2. ASSUME NEW w \in Worker, Receive(w) PROVE HistoryType'
  <2>1. \A n \in 0 .. 2 : CountTwice(n) \in 0 .. 2
    BY DEF CountTwice
  <2> QED
    BY <1>2, <2>1, HeldInCmdId DEF Receive
<1>3. ASSUME NEW c \in CmdId, NEW s \in Slot, NEW o \in Verdict, Finish(c, s, o)
      PROVE  HistoryType'
  BY <1>3 DEF Finish
<1> QED
  BY HistoryCases, <1>1, <1>2, <1>3

LEMMA EnrolTypeStep ==
  ASSUME CommandTypeOK, [CommandNext]_commandVars
  PROVE  EnrolType'
<1>1. CASE UNCHANGED enrol
  BY <1>1 DEF CommandTypeOK, EnrolType, enrol
<1>2. ASSUME NEW h \in Host, DeleteAgent(h) \/ Reinstall(h)
      PROVE  EnrolType'
  BY <1>2 DEF CommandTypeOK, EnrolType, DeleteAgent, Reinstall
<1>3. ASSUME NEW w \in Worker, NEW h \in Host, CheckIn(h, w)
      PROVE  EnrolType'
  BY <1>3 DEF CommandTypeOK, EnrolType, CheckIn
<1>4. ASSUME NEW w \in Worker, PollRequeue(w) \/ PollMark(w)
      PROVE  EnrolType'
  BY <1>4 DEF CommandTypeOK, EnrolType, PollRequeue, PollMark
<1> QED
  BY EnrolCases, <1>1, <1>2, <1>3, <1>4

LEMMA AgentTypeStep ==
  ASSUME CommandTypeOK, [CommandNext]_commandVars
  PROVE  AgentType'
<1>1. CASE UNCHANGED <<installed, conn>>
  BY <1>1 DEF CommandTypeOK, AgentType
<1>2. ASSUME NEW h \in Host, HangUp(h) \/ AgentRestart(h) \/ Reinstall(h)
      PROVE  AgentType'
  BY <1>2 DEF CommandTypeOK, AgentType, HangUp, AgentRestart, Reinstall
<1>3. ASSUME NEW w \in Worker, NEW h \in Host, CheckIn(h, w)
      PROVE  AgentType'
  BY <1>3 DEF CommandTypeOK, AgentType, CheckIn
<1>4. ASSUME NEW w \in Worker, PollEmpty(w) \/ WorkerDies(w)
      PROVE  AgentType'
  BY <1>4 DEF CommandTypeOK, AgentType, PollEmpty, WorkerDies
<1>5. ASSUME NEW w \in Worker, Receive(w),
             installed' = installed \/ installed' = [installed EXCEPT ![peer[w]] = FALSE]
      PROVE  AgentType'
  BY <1>5 DEF CommandTypeOK, AgentType, Receive
<1> QED
  BY AgentCases, <1>1, <1>2, <1>3, <1>4, <1>5

LEMMA CancelTypeStep ==
  ASSUME CommandTypeOK, [CommandNext]_commandVars
  PROVE  CancelType'
<1>1. CASE UNCHANGED cancels
  BY <1>1 DEF CommandTypeOK, CancelType, cancels
<1>2. ASSUME NEW c \in CmdId, CancelRead(c) \/ CancelWrite(c)
      PROVE  CancelType'
  BY <1>2 DEF CommandTypeOK, CancelType, CancelRead, CancelWrite, Open
<1> QED
  BY CancelCases, <1>1, <1>2

LEMMA TypeStep ==
  ASSUME IInv, [CommandNext]_commandVars
  PROVE  CommandTypeOK'
BY RowTypeStep, ServerTypeStep, RunTypeStep, HistoryTypeStep, EnrolTypeStep,
   AgentTypeStep, CancelTypeStep
   DEF IInv, CommandTypeOK

-----------------------------------------------------------------------------
(* The other conjuncts of the invariant.                                     *)

\* A verdict is only ever recorded for a command that reached its endpoint.
LEMMA RecordedWasGot ==
  ASSUME IInv, [CommandNext]_commandVars, NEW c \in CmdId
  PROVE  /\ \A s \in Slot : ResultAcknowledged(c, s) \/ ResultUnacknowledged(c, s)
               => /\ got[c] > 0 /\ Record(c, run[c][s].out)
                  /\ run[c][s].out = "done" => c \in ran
                  /\ run[c][s].out \in Verdict
         /\ \A o \in Verdict : LateResult(c, o)
               => Record(c, o) /\ got[c] > 0 /\ (o = "done" => c \in ran)
BY DEF IInv, CommandTypeOK, RunType, RunState, RunInv, ResultAcknowledged,
       ResultUnacknowledged, LateResult

\* What a step may do to the rows, with what it presupposes.
LEMMA RowEffects ==
  ASSUME IInv, [CommandNext]_commandVars
  PROVE  \/ UNCHANGED row
         \/ \E G \in SUBSET Host, l \in Label : InsertRows(G, l)
         \/ \E c \in CmdId : /\ status[c] \in Open
                             /\ status' = [status EXCEPT ![c] = "cancelled"]
                             /\ UNCHANGED <<count, label, dispatched>>
         \/ UNCHANGED <<count, status, label, dispatched>>
         \/ \E w \in Worker : PollRequeue(w) \/ PollMark(w)
         \/ \E c \in CmdId, o \in Verdict :
               /\ got[c] > 0 /\ Record(c, o)
               /\ o = "done" => c \in ran
<1>1. ASSUME NEW c \in CmdId, CancelWrite(c)
      PROVE  \/ /\ status[c] \in Open
                /\ status' = [status EXCEPT ![c] = "cancelled"]
                /\ UNCHANGED <<count, label, dispatched>>
             \/ UNCHANGED <<count, status, label, dispatched>>
  BY <1>1 DEF CancelWrite
<1>2. ASSUME NEW c \in CmdId, Age(c)
      PROVE  UNCHANGED <<count, status, label, dispatched>>
  BY <1>2 DEF Age
<1> QED
  BY RowCases, RecordedWasGot, <1>1, <1>2

LEMMA RowsStep ==
  ASSUME IInv, [CommandNext]_commandVars
  PROVE  RowsInv'
<1> USE DEF IInv, RowsInv, CommandTypeOK, RowType
<1>1. CASE UNCHANGED <<count, status, label, dispatched>>
  BY <1>1
<1>2. ASSUME NEW G \in SUBSET Host, NEW l \in Label, InsertRows(G, l) PROVE RowsInv'
  BY <1>2, CmdIdParts DEF InsertRows
<1>3. ASSUME NEW c \in CmdId, status[c] \in Open, UNCHANGED count,
             status' = [status EXCEPT ![c] = "cancelled"]
      PROVE  RowsInv'
  BY <1>3 DEF Open
<1>4. ASSUME NEW w \in Worker, PollRequeue(w) PROVE RowsInv'
  BY <1>4 DEF PollRequeue, Requeueable
<1>5. ASSUME NEW w \in Worker, PollMark(w) PROVE RowsInv'
  BY <1>5, HeldInCmdId DEF PollMark, WorkerInv, MarkedAs
<1>6. ASSUME NEW c \in CmdId, NEW o \in Verdict, got[c] > 0, Record(c, o) PROVE RowsInv'
  BY <1>6 DEF Record, StampInv, Verdict
<1> QED
  BY RowEffects, <1>1, <1>2, <1>3, <1>4, <1>5, <1>6 DEF row

LEMMA StampStep ==
  ASSUME IInv, [CommandNext]_commandVars
  PROVE  StampInv'
<1> USE DEF IInv, StampInv, CommandTypeOK, RowType, HistoryType
<1>1. ASSUME NEW c \in CmdId PROVE got'[c] > 0 => c \in dispatched
  <2>1. CASE UNCHANGED history
    BY <2>1 DEF history
  <2>2. ASSUME NEW w \in Worker, Receive(w) PROVE got'[c] > 0 => c \in dispatched
    BY <2>2, HeldInCmdId DEF Receive, WorkerInv
  <2>3. ASSUME NEW d \in CmdId, NEW s \in Slot, NEW o \in Verdict, Finish(d, s, o)
        PROVE  got'[c] > 0 => c \in dispatched
    BY <2>3 DEF Finish
  <2> QED
    BY HistoryCases, <2>1, <2>2, <2>3
<1> DEFINE Stamped == \A c \in CmdId :
              /\ status[c] \in {"sent", "done", "failed"} => c \in dispatched
              /\ c \in dispatched => status[c] # "absent"
<1>2. dispatched \subseteq dispatched' /\ Stamped'
  <2>1. CASE UNCHANGED <<count, status, label, dispatched>>
    BY <2>1
  <2>2. ASSUME NEW G \in SUBSET Host, NEW l \in Label, InsertRows(G, l)
        PROVE  dispatched \subseteq dispatched' /\ Stamped'
    BY <2>2 DEF InsertRows
  <2>3. ASSUME NEW c \in CmdId, UNCHANGED dispatched,
               status' = [status EXCEPT ![c] = "cancelled"]
        PROVE  dispatched \subseteq dispatched' /\ Stamped'
    BY <2>3
  <2>4. ASSUME NEW w \in Worker, PollRequeue(w)
        PROVE  dispatched \subseteq dispatched' /\ Stamped'
    BY <2>4 DEF PollRequeue, Requeueable
  <2>5. ASSUME NEW w \in Worker, PollMark(w)
        PROVE  dispatched \subseteq dispatched' /\ Stamped'
    BY <2>5, HeldInCmdId DEF PollMark, MarkedAs
  <2>6. ASSUME NEW c \in CmdId, NEW o \in Verdict, got[c] > 0, Record(c, o)
        PROVE  dispatched \subseteq dispatched' /\ Stamped'
    BY <2>6 DEF Record, Verdict
  <2> QED
    BY RowEffects, <2>1, <2>2, <2>3, <2>4, <2>5, <2>6 DEF row
<1> QED
  BY <1>1, <1>2

\* Deliveries and good exit codes are never forgotten.
LEMMA HistoryGrows ==
  ASSUME IInv, [CommandNext]_commandVars
  PROVE  ran \subseteq ran' /\ \A c \in CmdId : got[c] > 0 => got'[c] > 0
<1> USE DEF IInv, CommandTypeOK, HistoryType
<1>1. CASE UNCHANGED history
  BY <1>1 DEF history
<1>2. ASSUME NEW w \in Worker, Receive(w)
      PROVE  ran \subseteq ran' /\ \A c \in CmdId : got[c] > 0 => got'[c] > 0
  BY <1>2, HeldInCmdId DEF Receive, CountTwice
<1>3. ASSUME NEW c \in CmdId, NEW s \in Slot, NEW o \in Verdict, Finish(c, s, o)
      PROVE  ran \subseteq ran' /\ \A d \in CmdId : got[d] > 0 => got'[d] > 0
  BY <1>3 DEF Finish
<1> QED
  BY HistoryCases, <1>1, <1>2, <1>3

LEMMA RunStep ==
  ASSUME IInv, [CommandNext]_commandVars
  PROVE  RunInv'
<1> USE DEF IInv, CommandTypeOK, RunType
<1> DEFINE Run(c, s) == /\ run[c][s].pc # "free" => got[c] > 0
                        /\ run[c][s].pc \in {"report", "await"} /\ run[c][s].out = "done"
                              => c \in ran
           Late(c, o) == <<c, o>> \in late => got[c] > 0 /\ (o = "done" => c \in ran)
<1>1. ASSUME NEW c \in CmdId, NEW s \in Slot PROVE Run(c, s)'
  <2>0. Run(c, s) /\ run[c] \in [Slot -> RunState]
    BY DEF RunInv
  <2>1. CASE run'[c][s] = run[c][s]
    BY <2>0, <2>1, HistoryGrows
  <2>2. CASE run'[c][s].pc = "free"
    BY <2>2
  <2>3. ASSUME NEW w \in Worker, ReceiveScript(w) PROVE Run(c, s)'
    <3>1. Held(w) \in CmdId /\ got'[Held(w)] > 0
      BY <2>3, HeldInCmdId DEF ReceiveScript, Receive, CountTwice, HistoryType
    <3>2. PICK t \in Slot : run' = [run EXCEPT ![Held(w)][t] = [Free EXCEPT !.pc = "exec"]]
      BY <2>3 DEF ReceiveScript
    <3>3. CASE c = Held(w) /\ s = t
      <4>1. run'[c][s] = [Free EXCEPT !.pc = "exec"]
        BY <3>2, <3>3
      <4>2. run'[c][s].pc = "exec"
        BY <4>1 DEF Free
      <4> QED
        BY <3>1, <3>3, <4>2
    <3>4. CASE c # Held(w) \/ s # t
      BY <2>1, <3>1, <3>2, <3>4
    <3> QED
      BY <3>3, <3>4
  <2>4. ASSUME NEW h \in Host, run' = Killed(h) PROVE Run(c, s)'
    BY <2>1, <2>2, <2>4 DEF Killed, Free
  <2>5. ASSUME NEW d \in CmdId, NEW t \in Slot, NEW o \in Verdict, Finish(d, t, o)
        PROVE  Run(c, s)'
    <3>1. CASE c = d /\ s = t
      BY <2>0, <2>5, <3>1, HistoryGrows DEF Finish
    <3>2. CASE c # d \/ s # t
      BY <2>1, <2>5, <3>2 DEF Finish
    <3> QED
      BY <3>1, <3>2
  <2>6. ASSUME NEW d \in CmdId, NEW t \in Slot, Post(d, t) PROVE Run(c, s)'
    <3>1. CASE c = d /\ s = t
      BY <2>0, <2>6, <3>1, HistoryGrows DEF Post
    <3>2. CASE c # d \/ s # t
      BY <2>1, <2>6, <3>2 DEF Post
    <3> QED
      BY <3>1, <3>2
  <2>7. ASSUME NEW d \in CmdId, NEW t \in Slot, run' = [run EXCEPT ![d][t] = Free]
        PROVE  Run(c, s)'
    BY <2>1, <2>2, <2>7 DEF Free
  <2>8. ASSUME NEW d \in CmdId, NEW t \in Slot, run[d][t].pc = "await",
               run' = [run EXCEPT ![d][t].pc = "report"]
        PROVE  Run(c, s)'
    <3>1. CASE c = d /\ s = t
      <4>1. run'[c][s].pc = "report" /\ run'[c][s].out = run[c][s].out
        BY <2>0, <2>8, <3>1 DEF RunState
      <4> QED
        BY <2>0, <2>8, <3>1, <4>1, HistoryGrows
    <3>2. CASE c # d \/ s # t
      BY <2>1, <2>8, <3>2
    <3> QED
      BY <3>1, <3>2
  <2> QED
    BY RunCases, <2>1, <2>3, <2>4, <2>5, <2>6, <2>7, <2>8
<1>2. ASSUME NEW c \in CmdId, NEW o \in Verdict PROVE Late(c, o)'
  <2>1. CASE late' \subseteq late
    BY <2>1, HistoryGrows DEF RunInv
  <2>2. ASSUME NEW d \in CmdId, NEW s \in Slot, ResultTimeout(d, s) PROVE Late(c, o)'
    BY <2>2, HistoryGrows DEF ResultTimeout, RunInv
  <2> QED
    BY LateCases, <2>1, <2>2
<1> QED
  BY <1>1, <1>2 DEF RunInv

LEMMA VerdictStep ==
  ASSUME IInv, [CommandNext]_commandVars
  PROVE  VerdictBacked'
<1> USE DEF IInv, VerdictBacked, CommandTypeOK, RowType
<1>1. CASE UNCHANGED <<count, status, label, dispatched>>
  BY <1>1, HistoryGrows
<1>2. ASSUME NEW G \in SUBSET Host, NEW l \in Label, InsertRows(G, l)
      PROVE  VerdictBacked'
  BY <1>2, HistoryGrows DEF InsertRows, RowsInv
<1>3. ASSUME NEW c \in CmdId, UNCHANGED <<label, dispatched>>,
             status' = [status EXCEPT ![c] = "cancelled"]
      PROVE  VerdictBacked'
  BY <1>3, HistoryGrows
<1>4. ASSUME NEW w \in Worker, PollRequeue(w) PROVE VerdictBacked'
  BY <1>4, HistoryGrows DEF PollRequeue
<1>5. ASSUME NEW w \in Worker, PollMark(w) PROVE VerdictBacked'
  BY <1>5, HistoryGrows, HeldInCmdId DEF PollMark, MarkedAs
<1>6. ASSUME NEW c \in CmdId, NEW o \in Verdict, got[c] > 0, Record(c, o),
             o = "done" => c \in ran
      PROVE  VerdictBacked'
  BY <1>6, HistoryGrows DEF Record
<1> QED
  BY RowEffects, <1>1, <1>2, <1>3, <1>4, <1>5, <1>6 DEF row

\* Once every older row was served, that stays so: new rows are younger, a
\* requeued row keeps its stamp, and a called-off row can only be sent.
LEMMA OlderServedStable ==
  ASSUME IInv, [CommandNext]_commandVars, NEW c \in CmdId, OlderServed(c), status[c] # "absent"
  PROVE  OlderServed(c)' /\ status'[c] # "absent"
<1> DEFINE Served(d) == d \in dispatched \/ status[d] = "cancelled"
<1>1. status'[c] # "absent"
  BY RowEffects, HeldInCmdId
     DEF IInv, CommandTypeOK, RowType, row, InsertRows, PollRequeue, PollMark, MarkedAs,
         Record, Verdict
<1>2. ASSUME NEW d \in CmdId, d[1] = c[1], d[2] < c[2] PROVE Served(d)'
  <2> USE DEF IInv, CommandTypeOK, RowType
  <2>0. Served(d)
    BY <1>2 DEF OlderServed
  <2>1. CASE UNCHANGED <<count, status, label, dispatched>>
    BY <2>0, <2>1
  <2>2. ASSUME NEW G \in SUBSET Host, NEW l \in Label, InsertRows(G, l) PROVE Served(d)'
    BY <2>0, <2>2, <1>2, CmdIdParts, BoundsAssumption DEF InsertRows, RowsInv
  <2>3. ASSUME NEW e \in CmdId, UNCHANGED <<label, dispatched>>,
               status' = [status EXCEPT ![e] = "cancelled"]
        PROVE  Served(d)'
    BY <2>0, <2>3
  <2>4. ASSUME NEW w \in Worker, PollRequeue(w) PROVE Served(d)'
    BY <2>0, <2>4 DEF PollRequeue, Requeueable
  <2>5. ASSUME NEW w \in Worker, PollMark(w) PROVE Served(d)'
    BY <2>0, <2>5, HeldInCmdId DEF PollMark
  <2>6. ASSUME NEW e \in CmdId, NEW o \in Verdict, got[e] > 0, Record(e, o)
        PROVE  Served(d)'
    BY <2>0, <2>6 DEF Record, StampInv
  <2> QED
    BY RowEffects, <2>1, <2>2, <2>3, <2>4, <2>5, <2>6 DEF row
<1> QED
  BY <1>1, <1>2 DEF OlderServed

LEMMA WorkerStep ==
  ASSUME IInv, [CommandNext]_commandVars
  PROVE  WorkerInv'
<1> DEFINE Mark(w) == pc[w] = "mark" => OlderServed(Held(w)) /\ status[Held(w)] # "absent"
           Respond(w) == pc[w] = "respond" => Held(w) \in dispatched
<1> SUFFICES ASSUME NEW w \in Worker PROVE Mark(w)' /\ Respond(w)'
  BY DEF WorkerInv
<1>1. dispatched \subseteq dispatched'
  BY RowCases DEF row, InsertRows, CancelWrite, Age, PollRequeue, PollMark, Record,
                  ResultAcknowledged, ResultUnacknowledged, LateResult
<1>2. CASE pc'[w] = pc[w] /\ peer'[w] = peer[w] /\ pick'[w] = pick[w]
  <2>1. Held(w) \in CmdId /\ Held(w)' = Held(w)
    BY <1>2, HeldInCmdId DEF Held, IInv
  <2>2. Mark(w) /\ Respond(w)
    BY DEF WorkerInv, IInv
  <2>3. pc[w] = "mark" => OlderServed(Held(w))' /\ status'[Held(w)] # "absent"
    BY <2>1, <2>2, OlderServedStable
  <2> QED
    BY <1>1, <1>2, <2>1, <2>2, <2>3 DEF OlderServed
<1>3. CASE pc'[w] \notin {"mark", "respond"}
  BY <1>3
<1>4. CASE PollSelect(w)
  <2>1. PICK n \in 1 .. MaxPerHost :
           NextInQueue(peer[w], n) /\ pick' = [pick EXCEPT ![w] = n]
    BY <1>4 DEF PollSelect
  <2> DEFINE c == <<peer[w], n>>
  <2>2. c \in CmdId /\ Held(w)' = c /\ UNCHANGED <<status, dispatched>> /\ pc'[w] = "mark"
    BY <1>4, <2>1 DEF PollSelect, Held, CmdId, IInv, CommandTypeOK, ServerType, Goto, row
  <2>3. status[c] = "pending"
    BY <2>1 DEF NextInQueue, Pending
  <2>4. ASSUME NEW d \in CmdId, d[1] = c[1], d[2] < c[2]
        PROVE  d \in dispatched \/ status[d] = "cancelled"
    <3>1. d[2] \in 1 .. MaxPerHost /\ d = <<peer[w], d[2]>>
      BY <2>4, CmdIdParts
    <3>2. status[d] # "pending"
      BY <2>1, <2>4, <3>1, BoundsAssumption DEF NextInQueue, Pending
    <3>3. count[peer[w]] \in 0 .. MaxPerHost
      BY DEF IInv, CommandTypeOK, RowType, ServerType
    <3>4. status[d] # "absent"
      BY <2>2, <2>3, <2>4, <3>1, <3>3, BoundsAssumption DEF IInv, RowsInv
    <3> QED
      BY <3>2, <3>4 DEF IInv, CommandTypeOK, RowType, StampInv, Open, Closed, Verdict
  <2>5. OlderServed(c)
    BY <2>4 DEF OlderServed
  <2> HIDE DEF c
  <2> QED
    BY <2>2, <2>3, <2>5 DEF OlderServed
<1>5. CASE PollMark(w)
  BY <1>5, HeldInCmdId DEF PollMark, Goto, Held, IInv, CommandTypeOK, ServerType
<1> QED
  <2> USE DEF IInv, CommandTypeOK, ServerType
  <2>1. CASE UNCHANGED server
    BY <2>1, <1>2 DEF server
  <2>2. ASSUME NEW v \in Worker, NEW h \in Host, CheckIn(h, v)
        PROVE  Mark(w)' /\ Respond(w)'
    BY <2>2, <1>2, <1>3 DEF CheckIn, Goto
  <2>3. ASSUME NEW v \in Worker, PollRequeue(v) PROVE Mark(w)' /\ Respond(w)'
    BY <2>3, <1>2, <1>3 DEF PollRequeue, Goto
  <2>4. ASSUME NEW v \in Worker, PollSelect(v) PROVE Mark(w)' /\ Respond(w)'
    BY <2>4, <1>2, <1>4 DEF PollSelect, Goto
  <2>5. ASSUME NEW v \in Worker, PollMark(v) PROVE Mark(w)' /\ Respond(w)'
    BY <2>5, <1>2, <1>5 DEF PollMark, Goto
  <2>6. ASSUME NEW v \in Worker, Rest(v), UNCHANGED peer PROVE Mark(w)' /\ Respond(w)'
    BY <2>6, <1>2, <1>3 DEF Rest
  <2> QED
    BY ServerCases, <2>1, <2>2, <2>3, <2>4, <2>5, <2>6

LEMMA OrderStep ==
  ASSUME IInv, [CommandNext]_commandVars
  PROVE  FirstDispatchInOrder'
<1> SUFFICES ASSUME NEW c \in CmdId, c \in dispatched' PROVE OlderServed(c)'
  BY DEF FirstDispatchInOrder, OlderServed
<1>1. CASE c \in dispatched
  <2>1. OlderServed(c) /\ status[c] # "absent"
    BY <1>1 DEF IInv, FirstDispatchInOrder, OlderServed, StampInv
  <2> QED
    BY <2>1, OlderServedStable
<1>2. CASE c \notin dispatched
  <2>1. PICK w \in Worker : PollMark(w) /\ c = Held(w)
    BY <1>2, RowCases
       DEF row, InsertRows, CancelWrite, Age, PollRequeue, PollMark, Record,
           ResultAcknowledged, ResultUnacknowledged, LateResult
  <2>2. OlderServed(c) /\ status[c] # "absent"
    BY <2>1 DEF IInv, WorkerInv, PollMark
  <2> QED
    BY <2>2, OlderServedStable
<1> QED
  BY <1>1, <1>2

-----------------------------------------------------------------------------
LEMMA InitIInv == CommandInit => IInv
<1> SUFFICES ASSUME CommandInit PROVE IInv
  OBVIOUS
<1>1. RowType /\ EnrolType /\ CancelType /\ HistoryType /\ AgentType
  BY BoundsAssumption, HostAssumption
     DEF CommandInit, RowType, EnrolType, CancelType, HistoryType, AgentType, Open
<1>2. ServerType /\ RunType
  <2> DEFINE first == CHOOSE h \in Host : TRUE
  <2>1. first \in Host
    BY HostAssumption
  <2>2. peer = [w \in Worker |-> first]
    BY DEF CommandInit
  <2> HIDE DEF first
  <2>3. peer \in [Worker -> Host]
    BY <2>1, <2>2
  <2>4. pc \in [Worker -> {"idle", "requeue", "select", "mark", "respond"}]
        /\ pick \in [Worker -> 1 .. MaxPerHost]
    BY BoundsAssumption DEF CommandInit
  <2>5. RunType
    BY FreeType DEF CommandInit, RunType
  <2> QED
    BY <2>3, <2>4, <2>5 DEF ServerType
<1>3. RowsInv
  BY CmdIdParts DEF CommandInit, RowsInv
<1>4. StampInv /\ WorkerInv /\ VerdictBacked /\ FirstDispatchInOrder
  BY DEF CommandInit, StampInv, WorkerInv, VerdictBacked, FirstDispatchInOrder
<1>5. RunInv
  BY DEF CommandInit, RunInv, Free
<1> QED
  BY <1>1, <1>2, <1>3, <1>4, <1>5 DEF IInv, CommandTypeOK

LEMMA IInvariance == CommandSpec => []IInv
<1>1. IInv /\ [CommandNext]_commandVars => IInv'
  BY TypeStep, RowsStep, StampStep, WorkerStep, RunStep, VerdictStep, OrderStep
     DEF IInv
<1> QED
  BY InitIInv, <1>1, PTL DEF CommandSpec

-----------------------------------------------------------------------------
(* The theorems.                                                             *)

\* Every reachable state is well typed: each part of the queue's and the
\* agents' state stays in its domain whatever the handlers do.
THEOREM TypeCorrect == CommandSpec => []CommandTypeOK
<1>1. IInv => CommandTypeOK
  BY DEF IInv
<1> QED
  BY IInvariance, <1>1, PTL

\* No verdict without the execution that earned it (agent_config marks,
\* api_agent_result records), for every fleet and every interleaving of polls,
\* cancellations, crashes and late or repeated results.
THEOREM VerdictsAreBacked == CommandSpec => []VerdictBacked
<1>1. IInv => VerdictBacked
  BY DEF IInv
<1> QED
  BY IInvariance, <1>1, PTL

\* First deliveries are first-in first-out per host, although each poll's SELECT
\* and UPDATE are separate transactions and polls of one host may overlap.
THEOREM DispatchIsInOrder == CommandSpec => []FirstDispatchInOrder
<1>1. IInv => FirstDispatchInOrder
  BY DEF IInv
<1> QED
  BY IInvariance, <1>1, PTL

-----------------------------------------------------------------------------
(* What is closed and quiet stays closed.                                    *)

LEMMA QuietStep ==
  ASSUME IInv, [CommandNext]_commandVars, NEW c \in CmdId, Quiet(c)
  PROVE  status'[c] = status[c] /\ Quiet(c)'
<1> USE DEF IInv, CommandTypeOK
<1>0. /\ status[c] \in Closed
      /\ \A w \in Worker : pc[w] \in {"mark", "respond"} => Held(w) # c
      /\ \A s \in Slot : run[c][s].pc = "free"
      /\ \A o \in Verdict : <<c, o>> \notin late
  BY DEF Quiet, Underway
<1>1. status'[c] = status[c]
  <2> USE DEF RowType, Open, Closed, Verdict
  <2>1. CASE UNCHANGED row
    BY <2>1 DEF row
  <2>2. ASSUME NEW G \in SUBSET Host, NEW l \in Label, InsertRows(G, l)
        PROVE  status'[c] = status[c]
    BY <1>0, <2>2, CmdIdParts DEF InsertRows, RowsInv
  <2>3. ASSUME NEW d \in CmdId, CancelWrite(d) \/ Age(d) PROVE status'[c] = status[c]
    BY <1>0, <2>3 DEF CancelWrite, Age
  <2>4. ASSUME NEW w \in Worker, PollRequeue(w) PROVE status'[c] = status[c]
    BY <1>0, <2>4 DEF PollRequeue, Requeueable
  <2>5. ASSUME NEW w \in Worker, PollMark(w) PROVE status'[c] = status[c]
    BY <1>0, <2>5 DEF PollMark
  <2>6. ASSUME NEW d \in CmdId, NEW s \in Slot,
               ResultAcknowledged(d, s) \/ ResultUnacknowledged(d, s)
        PROVE  status'[c] = status[c]
    BY <1>0, <2>6 DEF ResultAcknowledged, ResultUnacknowledged, Record
  <2>7. ASSUME NEW d \in CmdId, NEW o \in Verdict, LateResult(d, o)
        PROVE  status'[c] = status[c]
    BY <1>0, <2>7 DEF LateResult, Record
  <2> QED
    BY RowCases, <2>1, <2>2, <2>3, <2>4, <2>5, <2>6, <2>7
<1>2. ASSUME NEW w \in Worker PROVE (pc[w] \in {"mark", "respond"} => Held(w) # c)'
  <2> USE DEF ServerType
  <2>1. CASE UNCHANGED server
    BY <1>0, <2>1 DEF server, Held
  <2>2. ASSUME NEW v \in Worker, NEW h \in Host, CheckIn(h, v)
        PROVE  (pc[w] \in {"mark", "respond"} => Held(w) # c)'
    BY <1>0, <2>2 DEF CheckIn, Goto, Held
  <2>3. ASSUME NEW v \in Worker, PollRequeue(v) \/ PollMark(v)
        PROVE  (pc[w] \in {"mark", "respond"} => Held(w) # c)'
    BY <1>0, <2>3 DEF PollRequeue, PollMark, Goto, Held
  <2>4. ASSUME NEW v \in Worker, PollSelect(v)
        PROVE  (pc[w] \in {"mark", "respond"} => Held(w) # c)'
    <3>1. PICK n \in 1 .. MaxPerHost :
             status[<<peer[v], n>>] = "pending" /\ pick' = [pick EXCEPT ![v] = n]
      BY <2>4 DEF PollSelect, NextInQueue, Pending
    <3>2. <<peer[v], n>> # c
      BY <1>0, <3>1 DEF Closed, Verdict
    <3> QED
      BY <1>0, <2>4, <3>1, <3>2 DEF PollSelect, Goto, Held
  <2>5. ASSUME NEW v \in Worker, Rest(v), UNCHANGED peer
        PROVE  (pc[w] \in {"mark", "respond"} => Held(w) # c)'
    BY <1>0, <2>5 DEF Rest, Held
  <2> QED
    BY ServerCases, <2>1, <2>2, <2>3, <2>4, <2>5
<1>3. ASSUME NEW s \in Slot PROVE run'[c][s].pc = "free"
  <2> USE DEF RunType
  <2>1. CASE run'[c][s] = run[c][s]
    BY <1>0, <2>1
  <2>2. ASSUME NEW w \in Worker, ReceiveScript(w) PROVE run'[c][s].pc = "free"
    BY <1>0, <2>1, <2>2, HeldInCmdId DEF ReceiveScript, Receive
  <2>3. ASSUME NEW h \in Host, run' = Killed(h) PROVE run'[c][s].pc = "free"
    BY <2>1, <2>3 DEF Killed, Free
  <2>4. ASSUME NEW d \in CmdId, NEW t \in Slot, run[d][t].pc # "free",
               UNCHANGED run \/ \E r : run' = [run EXCEPT ![d][t] = r]
        PROVE  run'[c][s].pc = "free"
    BY <1>0, <2>1, <2>4
  <2>5. ASSUME NEW d \in CmdId, NEW t \in Slot, run' = [run EXCEPT ![d][t] = Free]
        PROVE  run'[c][s].pc = "free"
    BY <2>1, <2>5 DEF Free
  <2>6. ASSUME NEW d \in CmdId, NEW t \in Slot, run[d][t].pc = "await",
               run' = [run EXCEPT ![d][t].pc = "report"]
        PROVE  run'[c][s].pc = "free"
    BY <1>0, <2>1, <2>6
  <2> QED
    BY RunCases, <2>1, <2>2, <2>3, <2>4, <2>5, <2>6 DEF Finish, Post
<1>4. ASSUME NEW o \in Verdict PROVE <<c, o>> \notin late'
  BY <1>0, LateCases DEF ResultTimeout
<1> QED
  BY <1>0, <1>1, <1>2, <1>3, <1>4 DEF Quiet, Underway

\* A closed command that nothing is underway for is closed for good, in every
\* fleet: no requeue, overlapping poll or belated result can revive it.
THEOREM ClosedIsFinal == CommandSpec => QuietIsFinal
<1>1. IInv /\ [CommandNext]_commandVars =>
         \A c \in CmdId : Quiet(c) => Quiet(c)' /\ status'[c] = status[c]
  BY QuietStep
<1> QED
  BY <1>1, IInvariance, PTL DEF CommandSpec, QuietIsFinal

-----------------------------------------------------------------------------
(* Upgrades and uninstalls arrive at most once.                              *)

\* A fire-and-forget command is never executed as a script, is 'done' from its
\* first delivery on, and once received is on no connection to its endpoint.
OnceInv ==
    \A c \in CmdId : label[c] \in FireAndForget =>
        /\ status[c] # "sent"
        /\ \A s \in Slot : run[c][s].pc = "free"
        /\ \A o \in Verdict : <<c, o>> \notin late
        /\ c \in dispatched => status[c] = "done"
        /\ got[c] <= 1
        /\ got[c] = 1 => \A w \in Worker :
              pc[w] \in {"mark", "respond"} /\ Held(w) = c => conn[c[1]] # w

LEMMA LabelStable ==
  ASSUME IInv, [CommandNext]_commandVars, NEW c \in CmdId, status[c] # "absent"
  PROVE  label'[c] = label[c]
<1> USE DEF IInv, CommandTypeOK, RowType
<1>1. ASSUME NEW G \in SUBSET Host, NEW l \in Label, InsertRows(G, l)
      PROVE  label'[c] = label[c]
  BY <1>1, CmdIdParts DEF InsertRows, RowsInv
<1> QED
  BY RowEffects, <1>1 DEF row, PollRequeue, PollMark, Record

\* Which steps open, keep or close an agent's connection.
LEMMA ConnCases ==
  ASSUME CommandTypeOK, [CommandNext]_commandVars
  PROVE  \A h \in Host : \/ conn'[h] \in {conn[h], None}
                         \/ \E w \in Worker : CheckIn(h, w) /\ conn'[h] = w
<1> SUFFICES ASSUME NEW h \in Host
             PROVE  \/ conn'[h] \in {conn[h], None}
                    \/ \E w \in Worker : CheckIn(h, w) /\ conn'[h] = w
  OBVIOUS
<1> USE DEF CommandTypeOK, AgentType, ServerType
<1>1. CASE Poll
  <2>1. ASSUME NEW w \in Worker, NEW g \in Host, CheckIn(g, w)
        PROVE  \/ conn'[h] \in {conn[h], None}
               \/ \E v \in Worker : CheckIn(h, v) /\ conn'[h] = v
    <3>1. conn' = [conn EXCEPT ![g] = w]
      BY <2>1 DEF CheckIn
    <3> QED
      BY <2>1, <3>1
  <2>2. ASSUME NEW w \in Worker,
               \/ PollRequeue(w) \/ PollSelect(w) \/ PollEmpty(w) \/ PollMark(w)
               \/ Discard(w) \/ WorkerDies(w)
        PROVE  conn'[h] \in {conn[h], None}
    BY <2>2 DEF PollRequeue, PollSelect, PollEmpty, PollMark, Discard, WorkerDies, agent
  <2>3. ASSUME NEW w \in Worker, Receive(w) PROVE conn'[h] \in {conn[h], None}
    BY <2>3 DEF Receive
  <2> QED
    BY <1>1, <2>1, <2>2, <2>3
       DEF Poll, ReceiveScript, ReceiveUninstall, ReceiveUpgrade
<1>2. CASE Console \/ Endpoint \/ Results \/ UNCHANGED commandVars \/ \E c \in CmdId : Age(c)
  BY <1>2 DEF Console, Endpoint, Results, commandVars, agent, QueueCommand, QueueForGroup,
       DeleteAgent, CancelRead, CancelWrite, HangUp, AgentRestart, Reinstall, Finish,
       Post, GiveUp, ResultAcknowledged, ResultUnacknowledged, ResultTimeout, Record,
       LateResult, LateResultLost, Age
<1> QED
  BY <1>1, <1>2 DEF CommandNext

LEMMA OnceStep ==
  ASSUME IInv, OnceInv, [CommandNext]_commandVars, NEW c \in CmdId, label'[c] \in FireAndForget
  PROVE  /\ status'[c] # "sent"
         /\ \A s \in Slot : run'[c][s].pc = "free"
         /\ \A o \in Verdict : <<c, o>> \notin late'
         /\ c \in dispatched' => status'[c] = "done"
         /\ got'[c] <= 1
         /\ got'[c] = 1 => \A w \in Worker :
               pc'[w] \in {"mark", "respond"} /\ Held(w)' = c => conn'[c[1]] # w
<1> USE DEF IInv, CommandTypeOK, RowType, HistoryType
<1>0. /\ \A s \in Slot : run[c][s].pc = "free"
      /\ \A o \in Verdict : <<c, o>> \notin late
      /\ c \in dispatched => status[c] = "done" /\ label[c] \in FireAndForget
      /\ status[c] # "sent"
      /\ status[c] # "absent" => label[c] \in FireAndForget
      /\ got[c] <= 1
      /\ got[c] = 1 => \A w \in Worker :
            pc[w] \in {"mark", "respond"} /\ Held(w) = c => conn[c[1]] # w
  <2>1. CASE status[c] = "absent"
    <3>1. c \notin dispatched /\ got[c] = 0
      BY <2>1 DEF StampInv
    <3> QED
      BY <2>1, <3>1 DEF RunInv
  <2>2. CASE status[c] # "absent"
    BY <2>2, LabelStable DEF OnceInv
  <2> QED
    BY <2>1, <2>2
<1>1. status'[c] # "sent" /\ (c \in dispatched' => status'[c] = "done")
  <2> DEFINE Goal == status'[c] # "sent" /\ (c \in dispatched' => status'[c] = "done")
  <2>1. CASE UNCHANGED <<count, status, label, dispatched>>
    BY <1>0, <2>1
  <2>2. ASSUME NEW G \in SUBSET Host, NEW l \in Label, InsertRows(G, l) PROVE Goal
    <3>1. CASE status[c] = "absent"
      BY <1>0, <2>2, <3>1 DEF InsertRows, StampInv
    <3>2. CASE status[c] # "absent"
      BY <1>0, <2>2, <3>2, CmdIdParts DEF InsertRows, RowsInv
    <3> QED
      BY <3>1, <3>2
  <2>3. ASSUME NEW d \in CmdId, status[d] \in Open, UNCHANGED dispatched,
               status' = [status EXCEPT ![d] = "cancelled"]
        PROVE  Goal
    BY <1>0, <2>3 DEF Open
  <2>4. ASSUME NEW w \in Worker, PollRequeue(w) PROVE Goal
    BY <1>0, <2>4 DEF PollRequeue, Requeueable
  <2>5. ASSUME NEW w \in Worker, PollMark(w) PROVE Goal
    <3>1. CASE Held(w) = c
      <4>1. label[c] \in FireAndForget
        BY <1>0, <2>5, <3>1 DEF WorkerInv, PollMark
      <4> QED
        BY <2>5, <3>1, <4>1 DEF PollMark, MarkedAs
    <3>2. CASE Held(w) # c
      BY <1>0, <2>5, <3>2, HeldInCmdId DEF PollMark
    <3> QED
      BY <3>1, <3>2
  <2>6. ASSUME NEW d \in CmdId, NEW o \in Verdict, got[d] > 0, Record(d, o),
               d # c
        PROVE  Goal
    BY <1>0, <2>6 DEF Record
  <2>7. ASSUME NEW o \in Verdict, NEW s \in Slot,
               \/ ResultAcknowledged(c, s) \/ ResultUnacknowledged(c, s)
               \/ LateResult(c, o)
        PROVE  FALSE
    BY <1>0, <2>7 DEF ResultAcknowledged, ResultUnacknowledged, LateResult
  <2>8. ASSUME NEW d \in CmdId, NEW s \in Slot,
               ResultAcknowledged(d, s) \/ ResultUnacknowledged(d, s)
        PROVE  Goal
    BY <2>6, <2>7, <2>8, RecordedWasGot DEF Verdict
  <2>9. ASSUME NEW d \in CmdId, NEW o \in Verdict, LateResult(d, o) PROVE Goal
    <3>1. d # c
      BY <1>0, <2>9 DEF LateResult
    <3> QED
      BY <2>6, <2>9, <3>1, RecordedWasGot
  <2>10. ASSUME NEW d \in CmdId, CancelWrite(d) PROVE Goal
    BY <2>1, <2>3, <2>10 DEF CancelWrite
  <2>11. ASSUME NEW d \in CmdId, Age(d) PROVE Goal
    BY <2>1, <2>11 DEF Age
  <2> QED
    BY RowCases, <2>1, <2>2, <2>4, <2>5, <2>8, <2>9, <2>10, <2>11 DEF row
<1>2. ASSUME NEW s \in Slot PROVE run'[c][s].pc = "free"
  <2> USE DEF RunType
  <2>1. CASE run'[c][s] = run[c][s]
    BY <1>0, <2>1
  <2>2. ASSUME NEW w \in Worker, ReceiveScript(w) PROVE run'[c][s].pc = "free"
    <3>1. Held(w) \in dispatched
      BY <2>2 DEF ReceiveScript, Receive, WorkerInv
    <3>2. Held(w) # c
      BY <1>0, <2>2, <3>1 DEF ReceiveScript
    <3> QED
      BY <2>1, <2>2, <3>2, HeldInCmdId DEF ReceiveScript
  <2>3. ASSUME NEW h \in Host, run' = Killed(h) PROVE run'[c][s].pc = "free"
    BY <2>1, <2>3 DEF Killed, Free
  <2>4. ASSUME NEW d \in CmdId, NEW t \in Slot, run[d][t].pc # "free",
               \E r : run' = [run EXCEPT ![d][t] = r]
        PROVE  run'[c][s].pc = "free"
    BY <1>0, <2>1, <2>4
  <2>5. ASSUME NEW d \in CmdId, NEW t \in Slot, run' = [run EXCEPT ![d][t] = Free]
        PROVE  run'[c][s].pc = "free"
    BY <2>1, <2>5 DEF Free
  <2>6. ASSUME NEW d \in CmdId, NEW t \in Slot, run[d][t].pc = "await",
               run' = [run EXCEPT ![d][t].pc = "report"]
        PROVE  run'[c][s].pc = "free"
    BY <1>0, <2>1, <2>6
  <2> QED
    BY RunCases, <2>1, <2>2, <2>3, <2>4, <2>5, <2>6 DEF Finish, Post
<1>3. ASSUME NEW o \in Verdict PROVE <<c, o>> \notin late'
  BY <1>0, LateCases DEF ResultTimeout
<1>4. \A w \in Worker : Receive(w) /\ Held(w) = c => got[c] = 0 /\ conn'[c[1]] = None
  <2> SUFFICES ASSUME NEW w \in Worker, Receive(w), Held(w) = c
               PROVE  got[c] = 0 /\ conn'[c[1]] = None
    OBVIOUS
  <2>1. c[1] \in Host
    BY CmdIdParts
  <2> QED
    BY <1>0, <2>1 DEF Receive, AgentType
<1>5. got'[c] <= 1 /\ (got'[c] = 1 => got[c] = 1 \/ conn'[c[1]] = None)
  <2> DEFINE Goal == got'[c] <= 1 /\ (got'[c] = 1 => got[c] = 1 \/ conn'[c[1]] = None)
  <2>1. CASE UNCHANGED history
    BY <1>0, <2>1 DEF history
  <2>2. ASSUME NEW w \in Worker, Receive(w) PROVE Goal
    <3>1. CASE Held(w) = c
      <4>1. got[c] = 0 /\ conn'[c[1]] = None
        BY <1>4, <2>2, <3>1
      <4>2. got' = [got EXCEPT ![c] = CountTwice(got[c])]
        BY <2>2, <3>1 DEF Receive
      <4>3. got'[c] = 1
        BY <4>1, <4>2 DEF CountTwice
      <4> QED
        BY <4>1, <4>3
    <3>2. CASE Held(w) # c
      BY <1>0, <2>2, <3>2, HeldInCmdId DEF Receive
    <3> QED
      BY <3>1, <3>2
  <2>3. ASSUME NEW d \in CmdId, NEW s \in Slot, NEW o \in Verdict, Finish(d, s, o)
        PROVE  Goal
    BY <1>0, <2>3 DEF Finish
  <2> QED
    BY HistoryCases, <2>1, <2>2, <2>3
<1>6. ASSUME got[c] = 1, NEW w \in Worker,
             pc'[w] \in {"mark", "respond"}, Held(w)' = c
      PROVE  conn'[c[1]] # w
  <2>1. c[1] \in Host
    BY CmdIdParts
  <2>2. pc[w] \in {"mark", "respond"} /\ Held(w) = c
    <3> USE DEF ServerType
    <3>1. CASE UNCHANGED server
      BY <1>6, <3>1 DEF server, Held
    <3>2. ASSUME NEW v \in Worker, NEW h \in Host, CheckIn(h, v)
          PROVE  pc[w] \in {"mark", "respond"} /\ Held(w) = c
      BY <1>6, <3>2 DEF CheckIn, Goto, Held
    <3>3. ASSUME NEW v \in Worker, PollRequeue(v) \/ PollMark(v)
          PROVE  pc[w] \in {"mark", "respond"} /\ Held(w) = c
      BY <1>6, <3>3 DEF PollRequeue, PollMark, Goto, Held
    <3>4. ASSUME NEW v \in Worker, PollSelect(v)
          PROVE  pc[w] \in {"mark", "respond"} /\ Held(w) = c
      <4>1. PICK n \in 1 .. MaxPerHost :
               status[<<peer[v], n>>] = "pending" /\ pick' = [pick EXCEPT ![v] = n]
        BY <3>4 DEF PollSelect, NextInQueue, Pending
      <4>2. <<peer[v], n>> # c
        BY <1>0, <1>6, <4>1 DEF StampInv
      <4> QED
        BY <1>6, <3>4, <4>1, <4>2 DEF PollSelect, Goto, Held
    <3>5. ASSUME NEW v \in Worker, Rest(v), UNCHANGED peer
          PROVE  pc[w] \in {"mark", "respond"} /\ Held(w) = c
      BY <1>6, <3>5 DEF Rest, Held
    <3> QED
      BY ServerCases, <3>1, <3>2, <3>3, <3>4, <3>5
  <2>3. conn[c[1]] # w
    BY <1>0, <1>6, <2>2
  <2>4. ASSUME NEW v \in Worker, CheckIn(c[1], v) PROVE v # w
    BY <1>6, <2>4 DEF CheckIn, Goto, ServerType
  <2> QED
    BY <2>1, <2>3, <2>4, ConnCases, NoneAssumption
<1> QED
  BY <1>1, <1>2, <1>3, <1>5, <1>6, NoneAssumption

\* An upgrade or uninstall reaches its endpoint at most once, in every fleet:
\* agent_config marks it 'done' before it answers, so no requeue repeats it, and
\* of two overlapping polls only one still has the agent's ear.
THEOREM DeliveredOnce == CommandSpec => []FireAndForgetOnce
<1>1. CommandInit => OnceInv
  BY DEF CommandInit, OnceInv, Free, FireAndForget
<1>2. IInv /\ OnceInv /\ [CommandNext]_commandVars => OnceInv'
  BY OnceStep DEF OnceInv
<1>3. OnceInv => FireAndForgetOnce
  BY DEF OnceInv, FireAndForgetOnce
<1> QED
  BY <1>1, <1>2, <1>3, IInvariance, PTL DEF CommandSpec
=============================================================================
