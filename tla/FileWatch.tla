----------------------------- MODULE FileWatch ------------------------------
(* File integrity on an endpoint: every so often the agent compares the files  *)
(* it watches with a baseline it keeps on the disk, and what differs joins the *)
(* logs it ships.  A file is written at any moment, also between the steps of  *)
(* a check; the agent may stop anywhere, and what it held in memory goes.  The *)
(* check is the same in the three agents, the delivery is not: what the server *)
(* did not take is held for the next batch, up to a cap, on Linux and Windows, *)
(* and is gone on macOS, where the batch is posted once.                       *)
EXTENDS Naturals, FiniteSets

CONSTANTS
    Path,      \* the files an administrator may have watched
    Content,   \* what can be in a file, as its hash tells it apart
    MaxWrite,  \* bound: writes to files, which is also the last modification time
    MaxKept,   \* bound: writes that keep the time and the size of a file
    MaxStop    \* bound: stops of the agent

FileWatchBounds ==
    /\ IsFiniteSet(Path) /\ IsFiniteSet(Content)
    /\ {MaxWrite, MaxKept, MaxStop} \subseteq Nat
    /\ {"none", "unreadable", "nothing"} \cap Content = {}

VARIABLES
    file,     \* the disk: path -> [content, mtime], mtime 0 for no file
    writes, kept, stops,
    active,   \* active_fim_paths
    saved,    \* fim_state.json: path -> baseline
    state,    \* the baseline that this check works on
    fimPc,    \* "idle", "check", "hash", "save", "dump" or "ship"
    toCheck,  \* paths that this check has not looked at
    at, seenTime, \* the path it looks at, and its time and size
    events,   \* the events in memory: path -> the hash it tells
    heard,    \* the server: path -> the hash of the newest event it has
    lostPaths,  \* history: paths whose last event was not delivered and is not held, or
              \* whose baseline could not be kept
    stalePaths  \* history: paths written since this check looked, or keeping their time

check == <<state, fimPc, toCheck, at, seenTime, events>>
filesVars ==
    <<file, writes, kept, stops, active, saved, check, heard, lostPaths, stalePaths>>

NoFile == [content |-> "none", mtime |-> 0]
NoEntry == [hash |-> "none", mtime |-> 0]        \* no entry in the baseline
Hashes == Content \cup {"none", "unreadable"}
Baseline == [Path -> [hash : Hashes, mtime : 0 .. MaxWrite]]
NoEvents == [p \in Path |-> "nothing"]
Telling == [Path -> Hashes \cup {"nothing"}]

FimTypeOK ==
    /\ file \in [Path -> [content : Content \cup {"none"}, mtime : 0 .. MaxWrite]]
    /\ writes \in 0 .. MaxWrite /\ kept \in 0 .. MaxKept /\ stops \in 0 .. MaxStop
    /\ active \subseteq Path /\ saved \in Baseline /\ state \in Baseline
    /\ fimPc \in {"idle", "check", "hash", "save", "dump", "ship"}
    /\ toCheck \subseteq Path /\ at \in Path /\ seenTime \in 0 .. MaxWrite
    /\ events \in Telling /\ heard \in Telling
    /\ lostPaths \subseteq Path /\ stalePaths \subseteq Path

FimInit ==
    /\ file \in [Path -> {NoFile}]
    /\ writes = 0 /\ kept = 0 /\ stops = 0 /\ active = {}
    /\ saved = [p \in Path |-> NoEntry] /\ state = [p \in Path |-> NoEntry]
    /\ fimPc = "idle" /\ toCheck = {} /\ at = (CHOOSE p \in Path : TRUE) /\ seenTime = 0
    /\ events = NoEvents /\ heard = NoEvents /\ lostPaths = {} /\ stalePaths = {}

-----------------------------------------------------------------------------
(* The endpoint.                                                              *)

Write(p, c) ==
    /\ writes < MaxWrite /\ writes' = writes + 1
    /\ file' = [file EXCEPT ![p] = [content |-> c, mtime |-> writes + 1]]
    /\ stalePaths' = stalePaths \cup {p}
    /\ UNCHANGED <<kept, stops, active, saved, check, heard, lostPaths>>

DeleteFile(p) ==
    /\ file[p] # NoFile
    /\ file' = [file EXCEPT ![p] = NoFile] /\ stalePaths' = stalePaths \cup {p}
    /\ UNCHANGED <<writes, kept, stops, active, saved, check, heard, lostPaths>>

\* A write that gives the file its old size and time back.
WriteKeeping(p, c) ==
    /\ kept < MaxKept /\ kept' = kept + 1
    /\ file[p] # NoFile /\ file' = [file EXCEPT ![p].content = c]
    /\ stalePaths' = stalePaths \cup {p}
    /\ UNCHANGED <<writes, stops, active, saved, check, heard, lostPaths>>

-----------------------------------------------------------------------------
(* The agent.                                                                 *)

\* The answer to a check-in names the files to watch.
FimCheckIn(paths) ==
    /\ fimPc = "idle" /\ active' = paths
    /\ UNCHANGED <<file, writes, kept, stops, saved, check, heard, lostPaths,
                   stalePaths>>

\* _load_fim_state
Begin ==
    /\ fimPc = "idle" /\ active # {}
    /\ fimPc' = "check" /\ toCheck' = active /\ state' = saved
    /\ UNCHANGED <<file, writes, kept, stops, active, saved, at, seenTime, events,
                   heard, lostPaths, stalePaths>>

\* What is told anew makes up for what was lost.
Tells(p, hash) ==
    /\ events' = [events EXCEPT ![p] = hash]
    /\ lostPaths' = lostPaths \ {p}
Looked(p) == toCheck' = toCheck \ {p} /\ stalePaths' = stalePaths \ {p}

Gone(p) ==
    /\ fimPc = "check" /\ p \in toCheck /\ file[p] = NoFile
    /\ IF state[p] # NoEntry
       THEN Tells(p, "none") /\ state' = [state EXCEPT ![p] = NoEntry]
       ELSE UNCHANGED <<events, state, lostPaths>>
    /\ Looked(p)
    /\ UNCHANGED <<file, writes, kept, stops, active, saved, fimPc, at, seenTime, heard>>

Same(p) ==
    /\ fimPc = "check" /\ p \in toCheck /\ file[p] # NoFile
    /\ state[p] # NoEntry /\ state[p].mtime = file[p].mtime
    \* What was written with its old time since it was hashed stays unseen.
    /\ toCheck' = toCheck \ {p}
    /\ stalePaths' = stalePaths \ IF state[p].hash = file[p].content THEN {p} ELSE {}
    /\ UNCHANGED <<file, writes, kept, stops, active, saved, state, fimPc, at, seenTime,
                   events, heard, lostPaths>>

Differs(p) ==
    /\ fimPc = "check" /\ p \in toCheck /\ file[p] # NoFile
    /\ state[p] = NoEntry \/ state[p].mtime # file[p].mtime
    /\ at' = p /\ seenTime' = file[p].mtime /\ fimPc' = "hash" /\ Looked(p)
    /\ UNCHANGED <<file, writes, kept, stops, active, saved, state, events, heard,
                   lostPaths>>

\* Broken variant: the first hash is kept.
Entry_FirstHash(hash) ==
    [hash |-> IF state[at] = NoEntry THEN hash ELSE state[at].hash, mtime |-> seenTime]
Entry(hash) == [hash |-> hash, mtime |-> seenTime]
\* _hash_file, which may fail: a file that has been removed since is not readable.
Hash(hash) ==
    /\ fimPc = "hash" /\ hash \in {"unreadable", file[at].content} \ {"none"}
    /\ state' = [state EXCEPT ![at] = Entry(hash)]
    /\ IF state[at] = NoEntry \/ state[at].hash # hash
       THEN Tells(at, hash) ELSE UNCHANGED <<events, lostPaths>>
    /\ fimPc' = "check"
    /\ UNCHANGED <<file, writes, kept, stops, active, saved, toCheck, at, seenTime,
                   heard, stalePaths>>

\* Paths that are watched no more leave the baseline without a word; the file is
\* emptied, and then written, or neither can be done.
EndCheck ==
    /\ fimPc = "check" /\ toCheck = {}
    /\ state' = [p \in Path |-> IF p \in active THEN state[p] ELSE NoEntry]
    /\ \/ fimPc' = "dump" /\ saved' = [p \in Path |-> NoEntry] /\ UNCHANGED lostPaths
       \/ /\ fimPc' = "ship" /\ UNCHANGED saved
          /\ lostPaths' = lostPaths \cup {p \in Path : saved[p] # state'[p]}
    /\ UNCHANGED <<file, writes, kept, stops, active, toCheck, at, seenTime, events,
                   heard, stalePaths>>

Dump ==
    /\ fimPc = "dump" /\ fimPc' = "ship" /\ saved' = state
    /\ UNCHANGED <<file, writes, kept, stops, active, state, toCheck, at, seenTime,
                   events, heard, lostPaths, stalePaths>>

Unshipped == {p \in Path : events[p] # "nothing"}
Arrived == [p \in Path |-> IF p \in Unshipped THEN events[p] ELSE heard[p]]

ShipEnds ==
    /\ fimPc = "ship" /\ fimPc' = "idle"
    /\ UNCHANGED <<file, writes, kept, stops, active, saved, state, toCheck, at,
                   seenTime, stalePaths>>

\* The batch goes out and is answered.
Ship ==
    /\ ShipEnds
    /\ heard' = Arrived /\ events' = NoEvents
    /\ UNCHANGED lostPaths

\* No answer, whether the batch arrived or not.  Linux and Windows hold it, but the cap
\* of the spool, which other logs fill, may push out any of its events; macOS drops all.
ShipFails(arrives, dropped) ==
    /\ ShipEnds /\ dropped \subseteq Unshipped
    /\ heard' = IF arrives THEN Arrived ELSE heard
    /\ events' = [p \in Path |-> IF p \in dropped THEN "nothing" ELSE events[p]]
    /\ lostPaths' = lostPaths \cup IF arrives THEN {} ELSE dropped

\* The agent stops, is upgraded or is killed, and starts again.
Stop ==
    /\ stops < MaxStop /\ stops' = stops + 1
    /\ lostPaths' = lostPaths \cup Unshipped
    /\ events' = NoEvents /\ active' = {} /\ fimPc' = "idle" /\ toCheck' = {}
    /\ stalePaths' = Path
    /\ UNCHANGED <<file, writes, kept, saved, state, at, seenTime, heard>>

FimNext ==
    \/ \E p \in Path, c \in Content : Write(p, c) \/ WriteKeeping(p, c)
    \/ \E p \in Path : DeleteFile(p) \/ Gone(p) \/ Same(p) \/ Differs(p)
    \/ \E paths \in SUBSET Path : FimCheckIn(paths)
    \/ \E hash \in Hashes : Hash(hash)
    \/ \E arrives \in BOOLEAN, dropped \in SUBSET Path : ShipFails(arrives, dropped)
    \/ Begin \/ EndCheck \/ Dump \/ Ship \/ Stop

FimSpec == FimInit /\ [][FimNext]_filesVars

-----------------------------------------------------------------------------
(* Properties.                                                                *)

Told(p) == IF events[p] = "nothing" THEN heard[p] ELSE events[p]

\* After a check, what the server was told of a watched file, or will be by what
\* is held, is what is in the file: unless the file could not be read, has been
\* written since the check looked or kept its time and size; or its last event went
\* with the agent, was in a batch without an answer that macOS does not hold, or was
\* pushed out of the spool at its cap; or its baseline could not be kept.  The next
\* event of the path ends the last three.
ChangesTold ==
    fimPc \in {"ship", "idle"} =>
        \A p \in active \ (stalePaths \cup lostPaths) :
            state[p] # NoEntry => Told(p) \in {file[p].content, "unreadable"}

\* Not so: a change that went with the agent is told by a later check, since the
\* baseline is saved before the event is delivered.
NothingLost == fimPc = "idle" => \A p \in active \ stalePaths : state[p] # NoEntry =>
    Told(p) \in {file[p].content, "unreadable"}
=============================================================================
