----------------------------- MODULE HostScripts -----------------------------
(* The response scripts that change an endpoint: isolate_host, restore_network *)
(* and verify_isolation on three platforms, block_ip and unblock_ip, and       *)
(* quarantine_file.  A script is a sequence of commands; any of them may fail, *)
(* and the agent or the host may go down between two.  One script runs at a    *)
(* time.  The endpoint is the set of the facts the scripts make and look at.   *)
EXTENDS Integers, Sequences, FiniteSets

CONSTANTS
    Platforms,    \* the platforms of this instance
    AllowLists,        \* the allow lists of isolations: the channels whose address is in it
    MaxScript,    \* bound: scripts ever started
    MaxTrouble    \* bound: commands that fail although they could have worked

\* The agent fetches commands on one address of the server and ships logs to another.
Channel == {"check-in", "ingest"}

HostScriptsBounds ==
    /\ Platforms \subseteq {"windows", "linux", "macos"} /\ AllowLists \subseteq SUBSET Channel
    /\ MaxScript \in Nat /\ MaxTrouble \in Nat

VARIABLES
    platform,   \* what the endpoint runs
    host,       \* facts of the endpoint: a name, and the allow list it was made with
    script,     \* the script that is running, "none" in between
    list,       \* its allow list
    passed,     \* how many of its commands it has behind it
    told,       \* the answer of the last script; "nothing" once anything else has happened
    started, trouble   \* bounds

scriptsVars == <<platform, host, script, list, passed, told, started, trouble>>

The(name) == <<name, {}>>
With(name, l) == <<name, l>>
Has(h, name) == \E f \in h : f[1] = name
Without(h, names) == {f \in h : f[1] \notin names}
ListsOf(h, name) == {f[2] : f \in {g \in h : g[1] = name}}

-----------------------------------------------------------------------------
(* Commands: a "must" that fails ends the script as failed, a "try" goes on    *)
(* all the same, a "want" ends it well but with a warning, and a "probe" that  *)
(* nobody answers turns to the rollback.                                       *)

Cmd(how, need, bar, del, add) ==
    [how |-> how, need |-> need, bar |-> bar, del |-> del, add |-> add, load |-> FALSE]
Must(need, bar, del, add) == Cmd("must", need, bar, del, add)
Try(need, bar, del, add) == Cmd("try", need, bar, del, add)
Want(del, add) == Cmd("want", {}, {}, del, add)
Check(need, bar) == Must(need, bar, {}, {})
Probe == Cmd("probe", {}, {}, {}, {})
Load(how) == [Cmd(how, {}, {}, {}, {}) EXCEPT !.load = TRUE]

\* pfctl -f: the main ruleset is read anew from pf.conf, and with the block of the
\* isolation in it the anchor is attached and read from its file.
Loadable(h) == Has(h, "conf") => Has(h, "anchor-file")
Loaded(h) ==
    IF Has(h, "conf")
    THEN Without(h, {"reference", "rules"}) \cup {The("reference")}
           \cup {With("rules", l) : l \in ListsOf(h, "anchor-file")}
    ELSE Without(h, {"reference"})

Can(c, h) ==
    /\ \A n \in c.need : Has(h, n)
    /\ \A n \in c.bar : ~Has(h, n)
    /\ c.load => Loadable(h)
Effect(c, h) == IF c.load THEN Loaded(h) ELSE Without(h, c.del) \cup c.add

-----------------------------------------------------------------------------
(* Windows: six firewall rules and the default action of the profiles.        *)

WindowsBlocks == {"block-out", "block-in", "block-IPv6-out", "block-IPv6-in"}
WindowsRules == {"allow-out", "allow-in"} \cup WindowsBlocks

IsolateWindows(l) == <<
    Try({}, {}, WindowsRules, {}),
    Must({}, {}, {}, {With("allow-out", l)}), Must({}, {}, {}, {With("allow-in", l)}),
    Must({}, {}, {}, {With("block-out", l)}), Must({}, {}, {}, {With("block-in", l)}),
    Must({}, {}, {}, {The("block-IPv6-out")}), Must({}, {}, {}, {The("block-IPv6-in")}),
    Must({}, {}, {}, {The("default-block")}),
    Check(WindowsRules, {}),
    Probe >>
RollBackWindows == << Try({}, {}, {"default-block"}, {}), Try({}, {}, WindowsRules, {}) >>
RestoreWindows == <<
    Must({}, {}, {"default-block"}, {}), Try({}, {}, WindowsRules, {}), Check({}, WindowsRules) >>
VerifiedWindows(h) == Has(h, "default-block") /\ \A n \in WindowsRules : Has(h, n)

BlockIp == <<
    Try({}, {}, {"block-ip-out", "block-ip-in"}, {}),
    Must({}, {}, {}, {The("block-ip-out")}), Must({}, {}, {}, {The("block-ip-in")}) >>
UnblockIp == << Must({}, {}, {"block-ip-out", "block-ip-in"}, {}) >>

-----------------------------------------------------------------------------
(* Linux: a chain, jumped to from INPUT and OUTPUT, and a unit for the boot.   *)

Detach == <<
    Try({"in"}, {}, {"in"}, {}), Try({"out"}, {}, {"out"}, {}),
    Try({"chain"}, {}, {"accept", "drop"}, {}),
    Try({"chain"}, {"in", "out", "accept", "drop"}, {"chain"}, {}) >>

IsolateLinux(l) ==
    Detach \o <<
    Must({}, {"chain"}, {}, {The("chain")}),
    Must({"chain"}, {}, {}, {With("accept", l)}), Must({"chain"}, {}, {}, {The("drop")}),
    Must({"chain"}, {}, {}, {The("in")}), Must({"chain"}, {}, {}, {The("out")}),
    Check({"in"}, {}), Check({"out"}, {}),
    Probe,
    Want({"boot-list"}, {With("boot-list", l)}), Want({}, {The("unit")}),
    Want({}, {The("enabled")}) >>
RollBackLinux == Detach

\* Broken variant: the unit for the boot is left in place.
RestoreLinux_KeepsUnit == Detach \o << Check({}, {"chain"}) >>
RestoreLinux ==
    Detach \o <<
    Try({}, {}, {"enabled"}, {}), Try({}, {}, {"unit", "boot-list"}, {}),
    Check({}, {"chain"}), Check({}, {"unit"}) >>
VerifiedLinux(h) == Has(h, "in") /\ Has(h, "out") /\ Has(h, "drop")

-----------------------------------------------------------------------------
(* macOS: a pf anchor, referenced from pf.conf, and a daemon for the boot.     *)

IsolateMac(l) == <<
    Must({}, {}, {"anchor-file"}, {With("anchor-file", l)}),
    Must({}, {}, {}, {The("conf")}),
    Load("must"),
    Try({}, {}, {}, {The("pf")}),
    Check({"pf"}, {}), Check({"reference"}, {}), Check({"rules"}, {}),
    Probe,
    Want({}, {The("plist")}), Want({}, {}) >>
RollBackMac == << Try({}, {}, {"rules"}, {}), Try({}, {}, {"conf"}, {}), Load("try") >>
RestoreMac == <<
    Try({}, {}, {"rules"}, {}), Try({}, {}, {"conf"}, {}), Try({}, {}, {"anchor-file"}, {}),
    Try({}, {}, {"plist"}, {}),
    Load("must"), Check({}, {"reference"}), Check({}, {"conf"}), Check({}, {"plist"}) >>
VerifiedMac(h) == Has(h, "pf") /\ Has(h, "reference") /\ Has(h, "rules")

-----------------------------------------------------------------------------
(* The same on every platform.                                                *)

\* The file is copied and removed, or renamed; then it is described in a manifest.
Quarantine == <<
    Check({"file"}, {}), Must({}, {}, {}, {The("quarantined-file")}), Must({}, {}, {"file"}, {}),
    Must({}, {}, {}, {The("manifest")}) >>

Scripts ==
    {"isolate_host", "restore_network", "verify_isolation", "quarantine_file"}
      \cup IF platform = "windows" THEN {"block_ip", "unblock_ip"} ELSE {}

Commands(s, l) ==
    CASE s = "isolate_host" -> (CASE platform = "windows" -> IsolateWindows(l)
                                  [] platform = "linux" -> IsolateLinux(l)
                                  [] platform = "macos" -> IsolateMac(l))
      [] s = "roll-back" -> (CASE platform = "windows" -> RollBackWindows
                               [] platform = "linux" -> RollBackLinux
                               [] platform = "macos" -> RollBackMac)
      [] s = "restore_network" -> (CASE platform = "windows" -> RestoreWindows
                                     [] platform = "linux" -> RestoreLinux
                                     [] platform = "macos" -> RestoreMac)
      [] s = "block_ip" -> BlockIp
      [] s = "unblock_ip" -> UnblockIp
      [] s = "quarantine_file" -> Quarantine
      [] s = "verify_isolation" -> <<>>

Verified(h) ==
    CASE platform = "windows" -> VerifiedWindows(h)
      [] platform = "linux" -> VerifiedLinux(h)
      [] platform = "macos" -> VerifiedMac(h)

\* The answer of a script that has run to its end, and of a rollback: what it finds left.
Clear(h) ==
    CASE platform = "windows" -> \A n \in WindowsRules \cup {"default-block"} : ~Has(h, n)
      [] platform = "linux" -> ~Has(h, "in") /\ ~Has(h, "out")
      [] platform = "macos" -> ~Has(h, "reference")
Answer(s, h) ==
    CASE s = "isolate_host" -> "isolated"
      [] s = "roll-back" -> IF Clear(h) THEN "rolled-back" ELSE "rollback-failed"
      [] s = "verify_isolation" -> IF Verified(h) THEN "in-force" ELSE "not-in-force"
      [] s = "restore_network" -> "restored"
      [] s = "block_ip" -> "blocked"
      [] s = "unblock_ip" -> "unblocked"
      [] s = "quarantine_file" -> "quarantined"
Answers ==
    {"nothing", "failed", "isolation-failed", "isolated-until-reboot", "isolated",
     "rolled-back", "rollback-failed", "in-force", "not-in-force", "restored", "blocked",
     "unblocked", "quarantined"}

-----------------------------------------------------------------------------
(* What the facts mean to the traffic of the endpoint.                        *)

\* Everything but the allow list is blocked, both ways.
Contained(h) ==
    CASE platform = "windows" ->
           \A n \in WindowsBlocks : Has(h, n)
      [] platform = "linux" -> Has(h, "drop") /\ Has(h, "in") /\ Has(h, "out")
      [] platform = "macos" -> Has(h, "pf") /\ Has(h, "reference") /\ Has(h, "rules")

\* Nothing is blocked by an isolation.
Free(h) ==
    CASE platform = "windows" -> \A n \in WindowsRules \cup {"default-block"} : ~Has(h, n)
      [] platform = "linux" -> Has(h, "drop") => ~Has(h, "in") /\ ~Has(h, "out")
      [] platform = "macos" -> ~Contained(h)

\* The channels the agent has left.  On Windows a block rule wins over an allow rule.
Reaches(h) ==
    {c \in Channel :
       CASE platform = "windows" -> /\ \A l \in ListsOf(h, "block-out") : c \in l
                                    /\ Has(h, "default-block") =>
                                         \E l \in ListsOf(h, "allow-out") : c \in l
         [] platform = "linux" -> Free(h) \/ \E l \in ListsOf(h, "accept") : c \in l
         [] platform = "macos" -> Free(h) \/ \A l \in ListsOf(h, "rules") : c \in l}

\* Windows keeps its rules.  Linux loses them, and the unit builds them anew; macOS
\* starts with pf disabled and its ruleset read from pf.conf, and the daemon enables it.
AfterReboot(h) ==
    CASE platform = "windows" -> h
      [] platform = "linux" ->
           LET cold == Without(h, {"chain", "accept", "drop", "in", "out"})
           IN  IF Has(h, "unit") /\ Has(h, "enabled")
               THEN cold \cup {The("chain"), The("drop"), The("in"), The("out")}
                      \cup {With("accept", l) : l \in ListsOf(h, "boot-list")}
               ELSE cold
      [] platform = "macos" ->
           LET cold == Without(h, {"pf", "reference", "rules"})
           IN  (IF Loadable(cold) THEN Loaded(cold) ELSE cold)
                 \cup IF Has(h, "plist") THEN {The("pf")} ELSE {}

-----------------------------------------------------------------------------

ScriptsTypeOK ==
    /\ platform \in Platforms
    /\ IsFiniteSet(host) /\ \A f \in host : f[2] \subseteq Channel
    /\ script \in Scripts \cup {"none", "roll-back"}
    /\ list \in AllowLists \cup {{}} /\ passed \in Nat
    /\ told \in Answers
    /\ started \in 0 .. MaxScript /\ trouble \in 0 .. MaxTrouble

ScriptsInit ==
    /\ platform \in Platforms
    /\ host = {The("file")}
    /\ script = "none" /\ list = {} /\ passed = 0 /\ told = "nothing"
    /\ started = 0 /\ trouble = 0

Start(s, l) ==
    /\ script = "none" /\ started < MaxScript
    /\ s \in Scripts
    /\ script' = s /\ list' = l /\ passed' = 0
    /\ told' = "nothing" /\ started' = started + 1
    /\ UNCHANGED <<platform, host, trouble>>

\* The commands of the script that runs, and the next of them.
Running == script # "none" /\ passed < Len(Commands(script, list))
Now == Commands(script, list)[passed + 1]

End(answer) == script' = "none" /\ list' = {} /\ passed' = 0 /\ told' = answer
GoOn == passed' = passed + 1 /\ UNCHANGED <<script, list, told>>

\* The next command works ...
Works ==
    /\ Running /\ Now.how # "probe"
    /\ Can(Now, host)
    /\ host' = Effect(Now, host)
    /\ GoOn
    /\ UNCHANGED <<platform, started, trouble>>

\* ... or it does not, because it cannot or because something is wrong.
Fails ==
    /\ Running /\ Now.how # "probe"
    /\ IF Can(Now, host) THEN trouble < MaxTrouble /\ trouble' = trouble + 1
       ELSE UNCHANGED trouble
    /\ CASE Now.how = "must" ->
              End(IF script = "isolate_host" THEN "isolation-failed" ELSE "failed")
         [] Now.how = "try" -> GoOn
         [] Now.how = "want" -> End("isolated-until-reboot")
    /\ UNCHANGED <<platform, host, started>>

\* One of the addresses of the allow list answers.
Answered ==
    /\ Running /\ Now.how = "probe"
    /\ list \cap Reaches(host) # {}
    /\ GoOn
    /\ UNCHANGED <<platform, host, started, trouble>>

Unanswered ==
    /\ Running /\ Now.how = "probe"
    /\ IF list \cap Reaches(host) # {} THEN trouble < MaxTrouble /\ trouble' = trouble + 1
       ELSE UNCHANGED trouble
    /\ script' = "roll-back" /\ passed' = 0
    /\ UNCHANGED <<platform, host, list, told, started>>

Ends ==
    /\ script # "none" /\ ~Running
    /\ End(Answer(script, host))
    /\ UNCHANGED <<platform, host, started, trouble>>

\* The agent is stopped, and its scripts with it; or the whole host is.
AgentStops ==
    /\ script # "none"
    /\ End("nothing")
    /\ UNCHANGED <<platform, host, started, trouble>>
Reboot ==
    /\ host' = AfterReboot(host)
    /\ End("nothing")
    /\ UNCHANGED <<platform, started, trouble>>

ScriptsNext ==
    \/ \E s \in Scripts, l \in AllowLists : Start(s, IF s = "isolate_host" THEN l ELSE {})
    \/ Works \/ Fails \/ Answered \/ Unanswered \/ Ends \/ AgentStops \/ Reboot

ScriptsSpec == ScriptsInit /\ [][ScriptsNext]_scriptsVars

-----------------------------------------------------------------------------
(* Properties.                                                               *)

\* What a script says it has done is so, whatever was there before it and whatever
\* failed on the way: an isolation contains the host, leaves it a channel and, without a
\* warning, outlives a reboot; a restored host is free and stays free after a reboot; a
\* verification that finds the isolation in force, and a rollback that found it gone, are
\* right; a quarantined file is no longer where it was, and described.
AnswersAreTrue ==
    /\ told \in {"isolated", "isolated-until-reboot"} => Contained(host) /\ Reaches(host) # {}
    /\ told = "isolated" => Contained(AfterReboot(host)) /\ Reaches(AfterReboot(host)) # {}
    /\ told = "restored" => Free(host) /\ Free(AfterReboot(host))
    /\ told = "in-force" => Contained(host)
    /\ told = "rolled-back" => Free(host)
    /\ told = "blocked" => Has(host, "block-ip-out") /\ Has(host, "block-ip-in")
    /\ told = "unblocked" => ~Has(host, "block-ip-out") /\ ~Has(host, "block-ip-in")
    /\ told = "quarantined" => ~Has(host, "file") /\ Has(host, "manifest")

\* "... that isolation did not sever the channel that un-isolation has to arrive on."
CommandChannelKept == told = "isolated" => "check-in" \in Reaches(host)

\* "so the host is NOT isolated": a rollback is not undone by the next reboot.
RolledBackForGood == told = "rolled-back" => Free(AfterReboot(host))

\* "isolate_host FAILED -- host is NOT contained".
FailedMeansNotContained == told = "isolation-failed" => ~Contained(host)
=============================================================================
