------------------------------- MODULE RulePack -------------------------------
(* The YARA rules that taxii_client.py copies from a repository to disk, file  *)
(* by file, next to a table of what it has copied (_sync_github_yara_repo, and *)
(* sync_yara_forge where a rule is known by its id and not by its file).  The  *)
(* files change at once, the table when the sync commits; syncs may overlap    *)
(* and die.                                                                    *)
EXTENDS Integers, FiniteSets

CONSTANTS
    Key,        \* what a rule is known by: its path, or its id
    File,       \* the names of the files
    PathIsKey,  \* a rule is known by its file
    Syncer,
    MaxVersion, MaxRelease,   \* bounds: versions of a rule, changes of the repository
    MaxSync,    \* bound: syncs
    None

RulePackBounds == {MaxVersion, MaxRelease, MaxSync} \subseteq Nat /\ (PathIsKey => File = Key)

Rule == [version : 1 .. MaxVersion, file : File]
Release == [Key -> Rule \cup {None}]
Torn == 0
Idle == [pc |-> "idle"]
Mode == {"new", "updated", "all"}

VARIABLES
    release,   \* what the repository holds
    disk,      \* the file on disk: the rule and version that was last written to it
    tracked,   \* the table of synced rules
    sync,      \* what each syncer does
    releases, syncs

vars == <<release, disk, tracked, sync, releases, syncs>>

Busy ==
    [pc : {"write", "row", "commit"}, mode : Mode,
     parsed : Release, existing : Release,
     todo : SUBSET Key, key : Key \cup {None},
     rows : SUBSET Key,      \* the rows it has written and not committed
     alone : BOOLEAN]        \* history: no other sync has run since it began

TypeOK ==
    /\ release \in Release /\ tracked \in Release
    /\ disk \in [File -> (Key \X (Torn .. MaxVersion)) \cup {None}]
    /\ sync \in [Syncer -> Busy \cup {Idle}] /\ syncs \in 0 .. MaxSync
    /\ releases \in 0 .. MaxRelease

\* Rules that were synced before, or none.
First(k) == [version |-> 1, file |-> k]
Init ==
    /\ release = [k \in Key |-> IF PathIsKey THEN First(k) ELSE None]
    /\ disk = [f \in File |-> IF PathIsKey THEN <<f, 1>> ELSE None]
    /\ tracked = release
    /\ sync = [s \in Syncer |-> Idle] /\ syncs = 0 /\ releases = 0

Running == {s \in Syncer : sync[s] # Idle}
At(s, pc) == s \in Running /\ sync[s].pc = pc

\* A writer waits for the other one's commit.
MayWrite(s) == \A r \in Running \ {s} : sync[r].rows = {}

-----------------------------------------------------------------------------

\* The repository changes: rules come, go and change, and those known by an id may be renamed.
Publish(k, rule) ==
    /\ rule # release[k]
    /\ rule # None /\ PathIsKey => rule.file = k
    /\ rule # None /\ release[k] # None => rule.version > release[k].version
    /\ releases < MaxRelease /\ releases' = releases + 1
    /\ release' = [release EXCEPT ![k] = rule]
    /\ UNCHANGED <<disk, tracked, sync, syncs>>

Keys(rules) == {k \in Key : rules[k] # None}

\* Broken variant: a full sync leaves alone what the table says is there.
ToWrite_Changed(mode, parsed, existing) ==
    CASE mode = "new" -> Keys(parsed) \ Keys(existing)
      [] mode = "updated" -> {k \in Keys(parsed) \cap Keys(existing) : parsed[k] # existing[k]}
      [] mode = "all" -> {k \in Keys(parsed) : parsed[k] # existing[k]}
ToWrite(mode, parsed, existing) ==
    CASE mode = "new" -> Keys(parsed) \ Keys(existing)
      [] mode = "updated" -> {k \in Keys(parsed) \cap Keys(existing) :
                                parsed[k].version # existing[k].version}
      [] mode = "all" -> Keys(parsed)

\* What is downloaded: the files of the repository, or the rules that one file is split into.
Parsed == release

\* The download, which refuses a repository without files, and the table as it is then.
Fetch(s, mode) ==
    /\ sync[s] = Idle /\ syncs < MaxSync /\ syncs' = syncs + 1
    /\ PathIsKey => Keys(Parsed) # {}
    /\ sync' = [r \in Syncer |->
         IF r = s
         THEN [pc |-> "write", mode |-> mode, parsed |-> Parsed, existing |-> tracked,
               todo |-> ToWrite(mode, Parsed, tracked), key |-> None, rows |-> {},
               alone |-> Running = {}]
         ELSE IF r \in Running THEN [sync[r] EXCEPT !.alone = FALSE] ELSE Idle]
    /\ UNCHANGED <<release, disk, tracked, releases>>

WriteFile(s, k) ==
    /\ At(s, "write") /\ k \in sync[s].todo
    /\ LET rule == sync[s].parsed[k]
       IN  disk' = [disk EXCEPT ![rule.file] = <<k, rule.version>>]
    /\ sync' = [sync EXCEPT ![s].pc = "row", ![s].key = k]
    /\ UNCHANGED <<release, tracked, releases, syncs>>

WriteRow(s) ==
    /\ At(s, "row") /\ MayWrite(s)
    /\ sync' = [sync EXCEPT ![s].pc = "write", ![s].key = None,
                            ![s].todo = @ \ {sync[s].key}, ![s].rows = @ \cup {sync[s].key}]
    /\ UNCHANGED <<release, disk, tracked, releases, syncs>>

\* The process dies while it writes a file.
Tear(s, k) ==
    /\ At(s, "write") /\ k \in sync[s].todo
    /\ disk' = [disk EXCEPT ![sync[s].parsed[k].file] = <<k, Torn>>]
    /\ sync' = [sync EXCEPT ![s] = Idle]
    /\ UNCHANGED <<release, tracked, releases, syncs>>

\* A full sync removes what the table knows and the repository no longer has: first the
\* files the table names, then the rows.  A file without a row is not among them.
Stale(s) == IF sync[s].mode = "all" THEN Keys(sync[s].existing) \ Keys(sync[s].parsed) ELSE {}
Named(s) ==
    IF PathIsKey THEN Stale(s) ELSE {tracked[k].file : k \in Stale(s) \cap Keys(tracked)}
Remove(files) == disk' = [f \in File |-> IF f \in files THEN None ELSE disk[f]]

Prune(s) ==
    /\ At(s, "write") /\ sync[s].todo = {} /\ Remove(Named(s))
    /\ sync' = [sync EXCEPT ![s].pc = "commit"]
    /\ UNCHANGED <<release, tracked, releases, syncs>>

\* The process dies when it has removed some of them.
PruneDies(s) ==
    /\ At(s, "write") /\ sync[s].todo = {} /\ \E files \in SUBSET Named(s) : Remove(files)
    /\ sync' = [sync EXCEPT ![s] = Idle]
    /\ UNCHANGED <<release, tracked, releases, syncs>>

Commit(s) ==
    /\ At(s, "commit") /\ (Stale(s) # {} => MayWrite(s))
    /\ sync' = [sync EXCEPT ![s] = Idle]
    /\ tracked' = [k \in Key |-> CASE k \in sync[s].rows -> sync[s].parsed[k]
                                   [] k \in Stale(s) -> None
                                   [] OTHER -> tracked[k]]
    /\ UNCHANGED <<release, disk, releases, syncs>>

\* The process dies, or waits too long for the other writer: its rows are rolled back.
Dies(s) ==
    /\ s \in Running /\ sync' = [sync EXCEPT ![s] = Idle]
    /\ UNCHANGED <<release, disk, tracked, releases, syncs>>

Next ==
    \/ \E k \in Key, rule \in Rule \cup {None} : Publish(k, rule)
    \/ \E s \in Syncer :
         \/ \E mode \in Mode : Fetch(s, mode)
         \/ \E k \in Key : WriteFile(s, k) \/ Tear(s, k)
         \/ WriteRow(s) \/ Prune(s) \/ PruneDies(s) \/ Commit(s) \/ Dies(s)

Spec == Init /\ [][Next]_vars

-----------------------------------------------------------------------------
(* Properties.                                                               *)

\* "'all': full replace": whatever earlier syncs left half done or overwrote, a full sync
\* that runs by itself ends with every rule of the repository in its file, as the table
\* says, and without the files of the rules that the table had and the repository no longer
\* has.  A file that a killed sync left without a row it writes anew while the repository
\* has the rule, and leaves alone when it has not.
AllHeals ==
    [][\A s \in Syncer :
         Commit(s) /\ sync[s].mode = "all" /\ sync[s].alone =>
            /\ tracked' = sync[s].parsed
            /\ \A k \in Keys(tracked') : disk'[tracked'[k].file] = <<k, tracked'[k].version>>
            /\ \A k \in Stale(s) : \A f \in File :
                 disk'[f] # None => disk'[f][1] # k]_vars

\* What is tracked is on disk, when nobody syncs.
TrackedIsThere ==
    Running = {} =>
        \A k \in Keys(tracked) : disk[tracked[k].file] = <<k, tracked[k].version>>
=============================================================================
