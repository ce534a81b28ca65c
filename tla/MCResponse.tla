----------------------------- MODULE MCResponse ------------------------------
(* Instances for TLC of the response side: playbooks and the queue of commands  *)
(* share no state here, and each behaviour is a behaviour of one of them.  The   *)
(* queue is looked at twice, with one command and with the order of two.        *)
EXTENDS Playbooks, AgentCommands, TLC

\* Isolations that are scheduled to be reverted.
FirstOnly == {<<1, 1>>}

\* Sweeps, polls and requests are served by the same workers.
Symmetry == Permutations(Worker) \cup Permutations(Slot)

VARIABLE part      \* the part this behaviour is a behaviour of

playbooksVars == <<created, outbox, enabled, runs, limits, trips, toggles, approval, revert,
                   due, sweepPc, dueSeen, rowsSeen, verdict, served, acted, calledOff>>
ResponseVars == <<part, playbooksVars, commandVars>>

ResponseInit ==
    /\ part \in {"playbooks", "orders", "command"}
    /\ Init /\ CommandInit

\* Only the part of this behaviour moves.
Only_playbooks == UNCHANGED <<part, commandVars>>
Only_command == UNCHANGED <<part, playbooksVars>>

\* One command of any label, among all misfortunes.
OneCommand == \A h \in Host : count'[h] <= 1

\* Scripts that wait for each other, among crashes: none is cancelled or run twice at
\* once, no agent is installed again, no result is late, and five minutes are as long
\* as in a timely instance.
ScriptsOnly ==
    /\ \A c \in CmdId : label'[c] \in {"-", "script"}
    /\ \A c \in CmdId : Cardinality({s \in Slot : run'[c][s].pc # "free"}) <= 1
    /\ late' = {}
    /\ \A c \in stale' \ stale : Pending(c[1]) = {} /\ ~Underway(c)
    /\ UNCHANGED <<cred, cancels>>

ResponseNext ==
    \/ part = "playbooks" /\ Next /\ Only_playbooks
    \/ part = "orders" /\ CommandNext /\ ScriptsOnly /\ Only_command
    \/ part = "command" /\ CommandNext /\ OneCommand /\ Only_command

ResponseSpec == ResponseInit /\ [][ResponseNext]_ResponseVars
==============================================================================
