---------------------------- MODULE ChannelPolicy ---------------------------
(* An endpoint makes its own logging what the server asks for at a check-in:   *)
(* the rules of auditd on Linux, in the loop that checks in; the audit policy  *)
(* and the configuration of Sysmon on Windows, on a thread of their own for    *)
(* every check-in that finds a difference.  Each remembers what it applied     *)
(* last, and does nothing while the server asks for just that.                 *)
EXTENDS Naturals, Sequences, FiniteSets

CONSTANTS
    Setting,    \* what the server may ask for
    Thread,     \* bound: applications at once
    MaxChange,  \* bound: changes of what is asked for
    MaxTrouble, \* bound: commands that fail, and restarts
    None

PolicyBounds ==
    /\ IsFiniteSet(Setting) /\ IsFiniteSet(Thread) /\ None \notin Setting
    /\ {MaxChange, MaxTrouble} \subseteq Nat

VARIABLES
    kind,      \* whose logging: "auditd", "windows" or "sysmon"
    desired,   \* what a check-in is answered
    endpoint,  \* what is in force, part by part
    memory,    \* what was applied last: a global, or the file of Sysmon's hash
    present,   \* auditd, or Sysmon, is installed
    cooling,   \* sysmon_install_attempt.json is younger than the cooldown
    run,       \* the applications: where each is, and what it applies
    doubt,     \* history: the last application was not alone, or saw no failure
    failedFor, \* history: what the last application was for, when it saw it fail, and
               \* nothing ran beside it
    changes, troubles

vars == <<kind, desired, endpoint, memory, present, cooling, run, doubt, failedFor,
          changes, troubles>>

\* The commands of an application, in their order.
Parts(k) ==
    CASE k = "auditd" -> <<"rules file", "loaded rules">>
      [] k = "windows" -> <<"audit policy", "command lines", "script blocks">>
      [] k = "sysmon" -> <<"configuration">>
Part == {"rules file", "loaded rules", "audit policy", "command lines", "script blocks",
         "configuration"}
Mine == {Parts(kind)[i] : i \in DOMAIN Parts(kind)}

Idle == [at |-> 0, target |-> None, alone |-> TRUE]
TypeOK ==
    /\ kind \in {"auditd", "windows", "sysmon"} /\ desired \in Setting
    /\ endpoint \in [Part -> Setting \cup {None}]
    /\ memory \in Setting \cup {None} /\ {present, cooling, doubt} \subseteq BOOLEAN
    /\ run \in [Thread -> [at : 0 .. 5, target : Setting \cup {None}, alone : BOOLEAN]]
    /\ failedFor \in Setting \cup {None}
    /\ changes \in 0 .. MaxChange /\ troubles \in 0 .. MaxTrouble

Init ==
    /\ kind \in {"auditd", "windows", "sysmon"} /\ desired \in Setting
    /\ endpoint = [p \in Part |-> None] /\ memory = None
    /\ present \in IF kind = "windows" THEN {TRUE} ELSE BOOLEAN
    /\ cooling = FALSE /\ run = [t \in Thread |-> Idle]
    /\ doubt = FALSE /\ failedFor = None /\ changes = 0 /\ troubles = 0

Quiet == \A t \in Thread : run[t] = Idle
Last == Len(Parts(kind)) + 1   \* the step that remembers

\* A template is saved, the group of the host changes, the configuration is edited.
Change(s) ==
    /\ changes < MaxChange /\ changes' = changes + 1
    /\ s # desired /\ desired' = s
    /\ UNCHANGED <<kind, endpoint, memory, present, cooling, run, doubt, failedFor, troubles>>

-----------------------------------------------------------------------------
(* A check-in.                                                                *)

\* What is asked for is taken from the answer; Sysmon's is fetched afterwards.
Begins(t) ==
    /\ run[t] = Idle /\ desired # memory
    /\ run' = [u \in Thread |->
          IF u = t THEN [at |-> 1, target |-> IF kind = "sysmon" THEN None ELSE desired,
                         alone |-> Quiet]
          ELSE IF run[u] = Idle THEN Idle ELSE [run[u] EXCEPT !.alone = FALSE]]

ReconcileLinux(t) ==
    /\ kind = "auditd" /\ present /\ Quiet /\ Begins(t)
    /\ UNCHANGED <<kind, desired, endpoint, memory, present, cooling, doubt, failedFor,
                   changes, troubles>>

\* Without auditd there is nothing to do, and what is asked for is remembered.
NoAuditd ==
    /\ kind = "auditd" /\ ~present /\ memory' = desired
    /\ UNCHANGED <<kind, desired, endpoint, present, cooling, run, doubt, failedFor,
                   changes, troubles>>

ReconcileWindows(t) ==
    /\ kind = "windows" /\ Begins(t)
    /\ UNCHANGED <<kind, desired, endpoint, memory, present, cooling, doubt, failedFor,
                   changes, troubles>>

UpdateSysmon(t) ==
    /\ kind = "sysmon" /\ present /\ Begins(t)
    /\ UNCHANGED <<kind, desired, endpoint, memory, present, cooling, doubt, failedFor,
                   changes, troubles>>

\* An attempt to install, and no other until the cooldown has passed.
InstallSysmon(t) ==
    /\ kind = "sysmon" /\ ~present /\ ~cooling
    /\ cooling' = TRUE
    /\ run[t] = Idle
    /\ run' = [run EXCEPT ![t] = [at |-> 1, target |-> None, alone |-> Quiet]]
    /\ UNCHANGED <<kind, desired, endpoint, memory, present, doubt, failedFor, changes,
                   troubles>>

\* The cooldown is longer than an attempt can take.
Cool ==
    /\ cooling /\ Quiet /\ cooling' = FALSE
    /\ UNCHANGED <<kind, desired, endpoint, memory, present, run, doubt, failedFor,
                   changes, troubles>>

-----------------------------------------------------------------------------
(* An application.                                                            *)

Fetch(t) ==
    /\ kind = "sysmon" /\ run[t].at = 1 /\ run[t].target = None
    /\ run' = [run EXCEPT ![t].target = desired]
    /\ UNCHANGED <<kind, desired, endpoint, memory, present, cooling, doubt, failedFor,
                   changes, troubles>>

Command(t) ==
    /\ run[t].at \in DOMAIN Parts(kind) /\ run[t].target # None
    /\ endpoint' = [endpoint EXCEPT ![Parts(kind)[run[t].at]] = run[t].target]
    /\ run' = [run EXCEPT ![t].at = @ + 1]
    /\ present' = TRUE
    /\ UNCHANGED <<kind, desired, memory, cooling, doubt, failedFor, changes, troubles>>

\* The exit codes of auditpol, of reg and of Sysmon's -c are not looked at.
FailsUnseen(t) ==
    /\ kind = "windows" \/ (kind = "sysmon" /\ present)
    /\ run[t].at \in DOMAIN Parts(kind) /\ run[t].target # None
    /\ troubles < MaxTrouble /\ troubles' = troubles + 1
    /\ run' = [run EXCEPT ![t] = [at |-> @.at + 1, target |-> @.target, alone |-> FALSE]]
    /\ UNCHANGED <<kind, desired, endpoint, memory, present, cooling, doubt, failedFor, changes>>

\* augenrules is run with check=True, and may have loaded some of the rules; a command on
\* Windows may have worked and yet not have ended in time; an installation is looked for
\* in the list of services.
\* Broken variant: what failed is remembered as applied.
AfterFailure_Applied(t) == run[t].target
AfterFailure(t) == memory
\* What is remembered was not applied by somebody else meanwhile, or before.
Fresh(t) == run[t].alone /\ (kind = "sysmon" => run[t].target # memory)
FailsSeen(t) ==
    /\ run[t].at \in DOMAIN Parts(kind) /\ run[t].target # None
    /\ troubles < MaxTrouble /\ troubles' = troubles + 1
    /\ endpoint' \in IF kind = "sysmon" /\ ~present THEN {endpoint}
                     ELSE {endpoint, [endpoint EXCEPT ![Parts(kind)[run[t].at]] = run[t].target]}
    /\ memory' = AfterFailure(t) /\ doubt' = TRUE
    /\ failedFor' = IF Fresh(t) THEN run[t].target ELSE failedFor
    /\ run' = [run EXCEPT ![t] = Idle]
    /\ UNCHANGED <<kind, desired, present, cooling, changes>>

Remember(t) ==
    /\ run[t].at = Last
    /\ memory' = run[t].target /\ doubt' = ~run[t].alone /\ failedFor' = None
    /\ run' = [run EXCEPT ![t] = Idle]
    /\ UNCHANGED <<kind, desired, endpoint, present, cooling, changes, troubles>>

\* The agent is stopped, killed or upgraded: a global starts as None, a file stays.
Restart ==
    /\ troubles < MaxTrouble /\ troubles' = troubles + 1
    /\ run' = [t \in Thread |-> Idle]
    /\ memory' = IF kind = "sysmon" THEN memory ELSE None
    /\ doubt' = (doubt \/ ~Quiet)
    /\ failedFor' = None
    /\ UNCHANGED <<kind, desired, endpoint, present, cooling, changes>>

Next ==
    \/ \E s \in Setting : Change(s)
    \/ NoAuditd \/ Cool \/ Restart
    \/ \E t \in Thread :
          \/ ReconcileLinux(t) \/ ReconcileWindows(t) \/ UpdateSysmon(t) \/ InstallSysmon(t)
          \/ Fetch(t) \/ Command(t) \/ FailsUnseen(t) \/ FailsSeen(t) \/ Remember(t)

Spec == Init /\ [][Next]_vars

-----------------------------------------------------------------------------
(* Properties.                                                                *)

\* What the endpoint remembers to have applied is in force, in every part, when
\* the last application was alone and none of its commands failed, wherever it
\* and those before it were interrupted; and what was seen to fail is not taken
\* for applied by itself, so that the next check-in tries it again.
PolicyFollows ==
    Quiet =>
        /\ present /\ memory # None /\ ~doubt => \A p \in Mine : endpoint[p] = memory
        /\ present /\ failedFor # None => memory # failedFor

\* Not so: an endpoint that has applied what is asked for logs what is asked for.
\* Two applications that overlap can leave one part to each, a command that
\* fails on Windows is taken for done, and on Linux what a failed attempt left
\* stays when the server asks for the old rules again.
NeverStuck == Quiet /\ present /\ memory = desired => \A p \in Mine : endpoint[p] = desired
=============================================================================
