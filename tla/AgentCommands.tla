---------------------------- MODULE AgentCommands ----------------------------
(* The EDR command queue of the appliance (table agent_commands): operators   *)
(* queue and cancel rows, every endpoint's agent collects them by polling,    *)
(* runs them on background threads and reports their results.  The gunicorn   *)
(* worker threads that serve the polls commit between their statements, so    *)
(* everything below interleaves; the network loses, delays and repeats.       *)
EXTENDS Integers

CONSTANTS
    Host,         \* endpoints
    Worker,       \* gunicorn worker threads that serve the agents' polls
    Slot,         \* bound: concurrent executions of one command on its endpoint
    MaxPerHost,   \* bound: rows ever queued for one host
    MaxTries,     \* attempts an agent makes to report a result (3 in the code)
    Label,        \* the commands an instance queues
    LegacyHost,   \* hosts whose agent still uses the shared secret
    Timely,       \* TRUE: five minutes outlast the queue and every execution
    Trouble,      \* bound: which of AnyTrouble an instance goes through
    None

ASSUME BoundsAssumption ==
    /\ MaxPerHost \in Nat \ {0}
    /\ MaxTries \in Nat \ {0}
    /\ Timely \in BOOLEAN
AnyTrouble == {"cancel", "crash", "delay", "reinstall"}
ASSUME TroubleAssumption == Trouble \subseteq AnyTrouble
ASSUME HostAssumption == Host # {} /\ LegacyHost \subseteq Host
ASSUME LabelAssumption == "-" \notin Label
ASSUME NoneAssumption == None \notin Host /\ None \notin Worker

\* A row: the n-th command of its host.  The code's ids are global, but it only
\* ever compares the ids of rows of one host.
CmdId == Host \X (1 .. MaxPerHost)
FireAndForget == {"uninstall", "upgrade"}
Verdict == {"done", "failed"}
Open    == {"pending", "sent"}
Closed  == Verdict \cup {"cancelled"}

VARIABLES
    count,      \* rows inserted so far, per host
    status,     \* agent_commands.status ("absent" before the INSERT)
    label,      \* agent_commands.label
    dispatched, \* rows whose sent_at / completed_at a delivery has stamped
    stale,      \* 'sent' rows whose sent_at is older than five minutes
    known,      \* hosts with a row in agent_polls: those the console lists
    cred,       \* how a host's agent authenticates
    pc, peer, pick,    \* per worker: where in agent_config, for whom, which row
    installed,  \* the agent is on the endpoint and polls
    conn,       \* per agent: the worker whose response it waits for
    run,        \* per command: the executions in progress on its endpoint
    late,       \* result posts the agent gave up on, still on their way
    cancelReq,  \* per command: what a cancel request read in its first step
    told,       \* rows whose operator was told "the endpoint never received it"
    got,        \* history: times a command reached its endpoint (saturates at 2)
    ran         \* history: commands of which an execution exited with code 0

row     == <<count, status, label, dispatched, stale>>
enrol   == <<known, cred>>
server  == <<pc, peer, pick>>
agent   == <<installed, conn, run>>
cancels == <<cancelReq, told>>
history == <<got, ran>>
commandVars == <<row, enrol, server, agent, late, cancels, history>>

Free == [pc |-> "free", out |-> "done", tries |-> 0]
RunState == [pc : {"free", "exec", "report", "await"}, out : Verdict,
             tries : 0 .. MaxTries]

\* The row a worker is about to mark or to hand out.
Held(w) == <<peer[w], pick[w]>>

RowType ==
    /\ count \in [Host -> 0 .. MaxPerHost]
    /\ status \in [CmdId -> Open \cup Closed \cup {"absent"}]
    /\ label \in [CmdId -> Label \cup {"-"}]
    /\ dispatched \subseteq CmdId
    /\ stale \subseteq {c \in CmdId : status[c] = "sent"}
EnrolType ==
    /\ known \in [Host -> BOOLEAN]
    /\ cred \in [Host -> {"shared", "fresh", "token", "revoked"}]
ServerType ==
    /\ pc \in [Worker -> {"idle", "requeue", "select", "mark", "respond"}]
    /\ peer \in [Worker -> Host]
    /\ pick \in [Worker -> 1 .. MaxPerHost]
AgentType ==
    /\ installed \in [Host -> BOOLEAN]
    /\ conn \in [Host -> Worker \cup {None}]
RunType ==
    /\ run \in [CmdId -> [Slot -> RunState]]
    /\ late \subseteq CmdId \X Verdict
CancelType ==
    /\ cancelReq \in [CmdId -> {"none"} \cup Open]
    /\ told \subseteq CmdId
HistoryType ==
    /\ got \in [CmdId -> 0 .. 2]
    /\ ran \subseteq CmdId
CommandTypeOK ==
    /\ RowType /\ EnrolType /\ ServerType /\ AgentType /\ RunType
    /\ CancelType /\ HistoryType

\* A deployed fleet: agents hold a token of their own, or the legacy shared
\* secret; nothing queued yet and every agent has polled before.
CommandInit ==
    /\ count = [h \in Host |-> 0]
    /\ status = [c \in CmdId |-> "absent"]
    /\ label = [c \in CmdId |-> "-"]
    /\ dispatched = {} /\ stale = {}
    /\ known = [h \in Host |-> TRUE]
    /\ cred = [h \in Host |-> IF h \in LegacyHost THEN "shared" ELSE "token"]
    /\ pc = [w \in Worker |-> "idle"]
    /\ peer = [w \in Worker |-> CHOOSE h \in Host : TRUE]
    /\ pick = [w \in Worker |-> 1]
    /\ installed = [h \in Host |-> TRUE]
    /\ conn = [h \in Host |-> None]
    /\ run = [c \in CmdId |-> [s \in Slot |-> Free]]
    /\ late = {}
    /\ cancelReq = [c \in CmdId |-> "none"] /\ told = {}
    /\ got = [c \in CmdId |-> 0] /\ ran = {}

-----------------------------------------------------------------------------
(* The console: queueing, deleting an agent, cancelling.                     *)

\* INSERT INTO agent_commands: one new 'pending' row for every host of G.
InsertRows(G, l) ==
    LET new == {c \in CmdId : c[1] \in G /\ c[2] = count[c[1]] + 1}
    IN  /\ \A h \in G : count[h] < MaxPerHost
        /\ count' = [h \in Host |-> IF h \in G THEN count[h] + 1 ELSE count[h]]
        /\ status' = [c \in CmdId |-> IF c \in new THEN "pending" ELSE status[c]]
        /\ label' = [c \in CmdId |-> IF c \in new THEN l ELSE label[c]]
        /\ UNCHANGED <<dispatched, stale>>

\* One host; the UI, playbooks, scheduled sweeps and probes all end up here.
QueueCommand(h, l) ==
    /\ InsertRows({h}, l)
    /\ UNCHANGED <<enrol, server, agent, late, cancels, history>>

\* A group dispatch queues to every member the console knows, in one commit.
QueueForGroup(G, l) ==
    /\ \A h \in G : known[h] /\ cred[h] \in {"fresh", "token"}
    /\ InsertRows(G, l)
    /\ UNCHANGED <<enrol, server, agent, late, cancels, history>>

\* The token stays valid: the agent must authenticate once more to collect this.
DeleteAgent(h) ==
    /\ "uninstall" \in Label
    /\ InsertRows({h}, "uninstall")
    /\ known' = [known EXCEPT ![h] = FALSE]
    /\ UNCHANGED <<cred, server, agent, late, cancels, history>>

\* A cancel request reads the row, refuses a closed one ...
CancelRead(c) ==
    /\ "cancel" \in Trouble
    /\ cancelReq[c] = "none" /\ status[c] \in Open
    /\ cancelReq' = [cancelReq EXCEPT ![c] = status[c]]
    /\ UNCHANGED <<row, enrol, server, agent, late, told, history>>

\* ... and then closes it conditionally; the answer is worded by the first read.
CancelWrite(c) ==
    /\ cancelReq[c] # "none"
    /\ cancelReq' = [cancelReq EXCEPT ![c] = "none"]
    /\ IF status[c] \in Open
       THEN /\ status' = [status EXCEPT ![c] = "cancelled"]
            /\ stale' = stale \ {c}
            /\ told' = IF cancelReq[c] = "pending" THEN told \cup {c} ELSE told
       ELSE UNCHANGED <<status, stale, told>>
    /\ UNCHANGED <<count, label, dispatched, enrol, server, agent, late, history>>

-----------------------------------------------------------------------------
(* GET /api/agent/config: a poll, one action per committed statement.        *)

Authorized(h) == cred[h] # "revoked"
Rest(w) == /\ pc' = [pc EXCEPT ![w] = "idle"]
           /\ pick' = [pick EXCEPT ![w] = 1]
Goto(w, l) == pc' = [pc EXCEPT ![w] = l]

\* The agent connects; _validate_agent_auth binds a fresh token to the host.
CheckIn(h, w) ==
    /\ installed[h] /\ conn[h] = None /\ pc[w] = "idle" /\ Authorized(h)
    /\ conn' = [conn EXCEPT ![h] = w]
    /\ cred' = IF cred[h] = "fresh" THEN [cred EXCEPT ![h] = "token"] ELSE cred
    /\ Goto(w, "requeue")
    /\ peer' = [peer EXCEPT ![w] = h]
    /\ UNCHANGED <<row, known, pick, installed, run, late, cancels, history>>

\* Broken variants: a requeue that forgets the status filter, and none at all.
Requeueable_AnyStatus(h) ==
    {c \in CmdId : c[1] = h /\ (c \in stale \/ status[c] \in Closed)}
Requeueable_Never(h) == {}

Requeueable(h) == {c \in CmdId : c[1] = h /\ status[c] = "sent" /\ c \in stale}

\* Records the poll and puts back what was sent over five minutes ago.
PollRequeue(w) ==
    LET R == Requeueable(peer[w])
    IN  /\ pc[w] = "requeue"
        /\ known' = [known EXCEPT ![peer[w]] = TRUE]
        /\ status' = [c \in CmdId |-> IF c \in R THEN "pending" ELSE status[c]]
        /\ stale' = stale \ R
        /\ Goto(w, "select")
        /\ UNCHANGED <<count, label, dispatched, cred, peer, pick, agent, late,
                       cancels, history>>

Pending(h) == {n \in 1 .. MaxPerHost : status[<<h, n>>] = "pending"}
\* Broken variant: ORDER BY id DESC.
NextInQueue_Newest(h, n) == n \in Pending(h) /\ \A m \in Pending(h) : m <= n
NextInQueue(h, n) == n \in Pending(h) /\ \A m \in Pending(h) : n <= m

PollSelect(w) ==
    /\ pc[w] = "select"
    /\ \E n \in 1 .. MaxPerHost :
          NextInQueue(peer[w], n) /\ pick' = [pick EXCEPT ![w] = n]
    /\ Goto(w, "mark")
    /\ UNCHANGED <<row, enrol, peer, agent, late, cancels, history>>

\* Nothing queued: the response carries only the agent's configuration.
PollEmpty(w) ==
    /\ pc[w] = "select" /\ Pending(peer[w]) = {}
    /\ Rest(w)
    /\ conn' = [h \in Host |-> IF conn[h] = w THEN None ELSE conn[h]]
    /\ UNCHANGED <<row, enrol, peer, installed, run, late, cancels, history>>

\* Broken variants: every delivery taken for a completion, none taken for one,
\* and a status nothing else knows.
MarkedAs_Done(l) == "done"
MarkedAs_Sent(l) == "sent"
MarkedAs_Running(l) == "running"

MarkedAs(l) == IF l \in FireAndForget THEN "done" ELSE "sent"

\* The UPDATE names only the row's id: it does not look at its status again.
PollMark(w) ==
    LET c == Held(w)
    IN  /\ pc[w] = "mark"
        /\ status' = [status EXCEPT ![c] = MarkedAs(label[c])]
        /\ stale' = stale \ {c}
        /\ dispatched' = dispatched \cup {c}
        /\ cred' = IF label[c] = "uninstall" /\ cred[c[1]] = "token"
                   THEN [cred EXCEPT ![c[1]] = "revoked"] ELSE cred
        /\ Goto(w, "respond")
        /\ UNCHANGED <<count, label, known, peer, pick, agent, late, cancels, history>>

\* The agent has hung up: the response goes nowhere.
Discard(w) ==
    /\ pc[w] = "respond" /\ conn[peer[w]] # w
    /\ Rest(w)
    /\ UNCHANGED <<row, enrol, peer, agent, late, cancels, history>>

\* A worker is killed or recycled between two of its commits.  Dying before the
\* SELECT is dying after it, or answering that nothing is queued.
WorkerDies(w) ==
    /\ "crash" \in Trouble
    /\ pc[w] \in {"requeue", "mark", "respond"}
    /\ Rest(w)
    /\ conn' = [h \in Host |-> IF conn[h] = w THEN None ELSE conn[h]]
    /\ UNCHANGED <<row, enrol, peer, installed, run, late, cancels, history>>

\* Something is underway for c: a response, an execution or a result.
Underway(c) ==
    \/ \E w \in Worker : pc[w] \in {"mark", "respond"} /\ Held(w) = c
    \/ \E s \in Slot : run[c][s].pc # "free"
    \/ \E o \in Verdict : <<c, o>> \in late

\* Five minutes pass.  In a timely instance that is longer than the polls take to
\* drain the queue, and than a script and the posts of its result may take.
Age(c) ==
    /\ status[c] = "sent" /\ c \notin stale
    /\ Timely => Pending(c[1]) = {} /\ ~Underway(c)
    /\ stale' = stale \cup {c}
    /\ UNCHANGED <<count, status, label, dispatched, enrol, server, agent, late,
                   cancels, history>>

-----------------------------------------------------------------------------
(* The endpoint's agent.                                                     *)

\* The executions of host h, all gone: its process has exited.
Killed(h) == [c \in CmdId |-> IF c[1] = h THEN [s \in Slot |-> Free] ELSE run[c]]
CountTwice(n) == IF n = 2 THEN 2 ELSE n + 1

\* The response reaches an agent that still waits for it.
Receive(w) ==
    LET c == Held(w)
    IN  /\ pc[w] = "respond" /\ conn[c[1]] = w
        /\ Rest(w)
        /\ conn' = [conn EXCEPT ![c[1]] = None]
        /\ got' = [got EXCEPT ![c] = CountTwice(@)]
        /\ UNCHANGED <<row, enrol, peer, late, cancels, ran>>

\* A script runs on a thread of its own: the agent's loop goes on polling.
ReceiveScript(w) ==
    /\ Receive(w)
    /\ label[Held(w)] \notin FireAndForget
    /\ \E s \in Slot :
          /\ run[Held(w)][s].pc = "free"
          /\ run' = [run EXCEPT ![Held(w)][s] = [Free EXCEPT !.pc = "exec"]]
    /\ UNCHANGED installed

ReceiveUninstall(w) ==
    /\ Receive(w)
    /\ label[Held(w)] = "uninstall"
    /\ installed' = [installed EXCEPT ![peer[w]] = FALSE]
    /\ run' = Killed(peer[w])

\* The new source keeps the token; an agent that cannot replace itself goes on.
ReceiveUpgrade(w) ==
    /\ Receive(w)
    /\ label[Held(w)] = "upgrade"
    /\ run' \in {run, Killed(peer[w])}
    /\ UNCHANGED installed

\* The five-second timeout, or the response lost on its way.
HangUp(h) ==
    /\ conn[h] # None
    /\ conn' = [conn EXCEPT ![h] = None]
    /\ UNCHANGED <<row, enrol, server, installed, run, late, cancels, history>>

\* The service or the machine restarts; nothing of a command survives.
AgentRestart(h) ==
    /\ "crash" \in Trouble
    /\ installed[h]
    /\ conn' = [conn EXCEPT ![h] = None]
    /\ run' = Killed(h)
    /\ UNCHANGED <<row, enrol, server, installed, late, cancels, history>>

\* A newly downloaded package, with a token of its own, is put on the endpoint.
Reinstall(h) ==
    /\ "reinstall" \in Trouble
    /\ installed' = [installed EXCEPT ![h] = TRUE]
    /\ cred' = [cred EXCEPT ![h] = "fresh"]
    /\ conn' = [conn EXCEPT ![h] = None]
    /\ run' = Killed(h)
    /\ UNCHANGED <<row, known, server, late, cancels, history>>

\* The script ends, or its timeout ends it: exit code 0 or not.
Finish(c, s, o) ==
    /\ run[c][s].pc = "exec"
    /\ run' = [run EXCEPT ![c][s] = [pc |-> "report", out |-> o, tries |-> 0]]
    /\ ran' = IF o = "done" THEN ran \cup {c} ELSE ran
    /\ UNCHANGED <<row, enrol, server, installed, conn, late, cancels, got>>

-----------------------------------------------------------------------------
(* POST /api/agent/result.                                                   *)

Post(c, s) ==
    /\ run[c][s].pc = "report" /\ run[c][s].tries < MaxTries
    /\ run' = [run EXCEPT ![c][s] =
                  [pc |-> "await", out |-> run[c][s].out, tries |-> run[c][s].tries + 1]]
    /\ UNCHANGED <<row, enrol, server, installed, conn, late, cancels, history>>

\* The row takes the reported verdict, whatever its status is by now.
Record(c, o) ==
    /\ Authorized(c[1])
    /\ status' = [status EXCEPT ![c] = o]
    /\ stale' = stale \ {c}
    /\ UNCHANGED <<count, label, dispatched, enrol, server, installed, conn,
                   cancels, history>>

ResultAcknowledged(c, s) ==
    /\ run[c][s].pc = "await"
    /\ Record(c, run[c][s].out)
    /\ run' = [run EXCEPT ![c][s] = Free]
    /\ UNCHANGED late

\* Recorded, but the acknowledgement is lost: the agent will post again.
ResultUnacknowledged(c, s) ==
    /\ run[c][s].pc = "await"
    /\ Record(c, run[c][s].out)
    /\ run' = [run EXCEPT ![c][s].pc = "report"]
    /\ UNCHANGED late

\* Lost or refused; or the agent's patience ends first and the post is still
\* on its way.
ResultTimeout(c, s) ==
    /\ run[c][s].pc = "await"
    /\ run' = [run EXCEPT ![c][s].pc = "report"]
    /\ late' \in {late} \cup
         {late \cup {<<c, run[c][s].out>>} : t \in Trouble \cap {"delay"}}
    /\ UNCHANGED <<row, enrol, server, installed, conn, cancels, history>>

LateResult(c, o) ==
    /\ <<c, o>> \in late
    /\ late' = late \ {<<c, o>>}
    /\ Record(c, o)
    /\ UNCHANGED run

LateResultLost(c, o) ==
    /\ <<c, o>> \in late
    /\ late' = late \ {<<c, o>>}
    /\ UNCHANGED <<row, enrol, server, agent, cancels, history>>

\* After its last attempt the agent drops the result.
GiveUp(c, s) ==
    /\ run[c][s].pc = "report" /\ run[c][s].tries = MaxTries
    /\ run' = [run EXCEPT ![c][s] = Free]
    /\ UNCHANGED <<row, enrol, server, installed, conn, late, cancels, history>>

-----------------------------------------------------------------------------
Console ==
    \/ \E h \in Host, l \in Label \ {"uninstall"} : QueueCommand(h, l)
    \/ \E G \in (SUBSET Host) \ {{}}, l \in Label \ {"uninstall"} : QueueForGroup(G, l)
    \/ \E h \in Host : DeleteAgent(h)
    \/ \E c \in CmdId : CancelRead(c) \/ CancelWrite(c)

Poll ==
    \E w \in Worker :
        \/ \E h \in Host : CheckIn(h, w)
        \/ PollRequeue(w) \/ PollSelect(w) \/ PollEmpty(w) \/ PollMark(w)
        \/ Discard(w) \/ WorkerDies(w)
        \/ ReceiveScript(w) \/ ReceiveUninstall(w) \/ ReceiveUpgrade(w)

Endpoint ==
    \/ \E h \in Host : HangUp(h) \/ AgentRestart(h) \/ Reinstall(h)
    \/ \E c \in CmdId, s \in Slot :
          \/ \E o \in Verdict : Finish(c, s, o)
          \/ Post(c, s) \/ GiveUp(c, s)

Results ==
    \/ \E c \in CmdId, s \in Slot :
          \/ ResultAcknowledged(c, s) \/ ResultUnacknowledged(c, s)
          \/ ResultTimeout(c, s)
    \/ \E c \in CmdId, o \in Verdict : LateResult(c, o) \/ LateResultLost(c, o)

CommandNext == Console \/ Poll \/ Endpoint \/ Results \/ \E c \in CmdId : Age(c)

CommandSpec == CommandInit /\ [][CommandNext]_commandVars

(* Fairness.  The agent's loop never stops polling and a worker finishes the  *)
(* poll it serves; scripts end (SCRIPT_TIMEOUT_SECONDS); the agent posts its  *)
(* result at once; time passes.  And the weather: after some point no         *)
(* connection breaks and nothing crashes.                                     *)
Misfortune ==
    \/ \E h \in Host : HangUp(h) \/ AgentRestart(h)
    \/ \E w \in Worker : WorkerDies(w)
    \/ \E c \in CmdId, s \in Slot : ResultUnacknowledged(c, s) \/ ResultTimeout(c, s)

Serve(w) ==
    \/ PollRequeue(w) \/ PollSelect(w) \/ PollEmpty(w) \/ PollMark(w)
    \/ ReceiveScript(w) \/ ReceiveUninstall(w) \/ ReceiveUpgrade(w)
    \/ Discard(w)

Proceed(c, s) ==
    \/ \E o \in Verdict : Finish(c, s, o)
    \/ Post(c, s) \/ ResultAcknowledged(c, s) \/ GiveUp(c, s)

Fairness ==
    /\ \A h \in Host : WF_commandVars(\E w \in Worker : CheckIn(h, w))
    /\ \A w \in Worker : WF_commandVars(Serve(w))
    /\ \A c \in CmdId : WF_commandVars(Age(c)) /\ \A s \in Slot : WF_commandVars(Proceed(c, s))
    /\ <>[][~Misfortune]_commandVars

CommandFairSpec == CommandSpec /\ Fairness

-----------------------------------------------------------------------------
(* Properties.                                                               *)

\* The console never shows a verdict that no execution gave: 'done' was earned
\* by an exit code 0 on the endpoint, 'failed' by an execution there.  (The
\* fire-and-forget labels are 'done' once delivered, and report nothing.)
VerdictBacked ==
    \A c \in CmdId :
        /\ status[c] = "done" /\ label[c] \notin FireAndForget => c \in ran
        /\ status[c] = "failed" => got[c] > 0

\* Per host the first delivery is first-in first-out, however polls overlap: a
\* row is not sent before every older row has been sent or called off.
FirstDispatchInOrder ==
    \A c, d \in CmdId :
        c[1] = d[1] /\ d[2] < c[2] /\ c \in dispatched
            => d \in dispatched \/ status[d] = "cancelled"

\* An upgrade or an uninstall, which never reports, reaches the endpoint at most
\* once, even when polls overlap and responses are lost.
FireAndForgetOnce ==
    \A c \in CmdId : label[c] \in FireAndForget => got[c] <= 1

\* A closed row that no poll holds and whose executions and posts are all over is
\* closed for good: neither the stale requeue nor a later poll revives it.
Quiet(c) == status[c] \in Closed /\ ~Underway(c)
QuietIsFinal ==
    [][\A c \in CmdId : Quiet(c) => Quiet(c)' /\ status'[c] = status[c]]_commandVars

\* Every queued command is answered, called off, or its endpoint is out of reach
\* for good: losing the response, the agent or the result only delays it.
Reachable(h) == installed[h] /\ Authorized(h)
EventuallyClosed ==
    \A c \in CmdId :
        status[c] \in Open ~> (status[c] \in Closed \/ ~Reachable(c[1]))

\* The claims of the code's comments that the findings are about.

\* "Cancelled before dispatch -- the endpoint never received it."
NeverReceivedIsTrue == \A c \in told : got[c] = 0

\* The token is revoked "now that the instruction is in the agent's hands": it was
\* received, or is on its way to an agent that waits for it.
RevokedInHand ==
    \A h \in Host : cred[h] = "revoked" =>
        \E c \in CmdId :
            /\ c[1] = h /\ label[c] = "uninstall"
            /\ \/ got[c] > 0
               \/ \E w \in Worker : pc[w] = "respond" /\ Held(w) = c /\ conn[h] = w
=============================================================================
