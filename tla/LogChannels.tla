----------------------------- MODULE LogChannels ----------------------------
(* Which channels the endpoints of a group log: templates per group, and the   *)
(* channels an administrator defined, in one file of JSON.  Every request and  *)
(* every check-in reads the whole file, and whoever changes anything writes it *)
(* whole: the file is emptied, and then written.  A read that finds the file   *)
(* in need of normalising writes it too.                                       *)
EXTENDS Naturals, FiniteSets

CONSTANTS
    Group,    \* the groups of agents, without the default one
    BuiltIn,  \* channels of the catalogue
    Custom,   \* bound: the ids of channels that administrators define
    Call,     \* who asks at once: administrators, and endpoints that check in
    NoGroup   \* stands for a group without a template of its own

Default == "__default__"
Groups == Group \cup {Default}
Channels == BuiltIn \cup Custom

ChannelBounds ==
    /\ IsFiniteSet(Group) /\ IsFiniteSet(Custom)
    /\ Default \notin Group /\ \A S \in SUBSET Channels : NoGroup # S

File == [custom : SUBSET Custom,
         groups : [Groups -> (SUBSET Channels) \cup {NoGroup}]]
\* What is read when there is nothing, or nothing that can be parsed.
Nothing == [custom |-> {}, groups |-> [g \in Groups |-> NoGroup]]

VARIABLES
    disk,    \* the file; Nothing while it is empty
    clashed, \* history: a request wrote over what it had not read, or over a file that
             \* was being written, or was killed when it had emptied the file
    call,    \* where each request is, what it read and is to write, and for whom it is
    wanted,  \* history: what the file should say, by the saves that were answered
    retired  \* history: groups with a template from before a channel was deleted

vars == <<disk, clashed, call, wanted, retired>>

Kind == {"none", "save", "drop", "define", "remove", "check-in"}
TypeOK ==
    /\ disk \in File /\ clashed \in BOOLEAN /\ wanted \in File
    /\ \A c \in Call :
          /\ call[c].kind \in Kind
          /\ call[c].at \in {"start", "empty", "write", "act"}
          /\ call[c].file \in File /\ call[c].read \in File
          /\ call[c].group \in Groups /\ call[c].on \subseteq Channels
    /\ retired \subseteq Group \X Custom

Idle == [kind |-> "none", at |-> "start", next |-> "done", read |-> Nothing, file |-> Nothing,
         group |-> Default, on |-> {}]
First == [Nothing EXCEPT !.groups[Default] = {}]
Init ==
    /\ disk = First /\ clashed = FALSE /\ wanted = First /\ retired = {}
    /\ call = [c \in Call |-> Idle]

-----------------------------------------------------------------------------
(* _load_grouped_channel_config                                               *)

\* _normalize_linux_channel_dict: what is in no catalogue is not there.
Normal(file) ==
    LET groups == IF file.groups[Default] = NoGroup
                  THEN [file.groups EXCEPT ![Default] = {}] ELSE file.groups IN
    [file EXCEPT !.groups = [g \in Groups |->
        IF groups[g] = NoGroup THEN NoGroup ELSE groups[g] \cap (BuiltIn \cup file.custom)]]

\* A request reads; what it read may have to be written back first.
Reads(c, kind, g, on) ==
    /\ call[c] = Idle
    /\ call' = [call EXCEPT ![c] =
           [kind |-> kind, at |-> IF Normal(disk) = disk THEN "act" ELSE "empty",
            next |-> "act", read |-> disk, file |-> Normal(disk), group |-> g, on |-> on]]
    /\ UNCHANGED <<disk, clashed, wanted, retired>>

Save(c, g, on) == Reads(c, "save", g, on)
Drop(c, g) == Reads(c, "drop", g, {})
Define(c, x) == Reads(c, "define", Default, {x})
Remove(c, x) == Reads(c, "remove", Default, {x})
\* The endpoint of some group: which one is of no consequence for the file.
CheckIn(c) == Reads(c, "check-in", Default, {})

\* open(path, 'w'), and json.dump.
Empty(c) ==
    /\ call[c].at = "empty"
    /\ disk' = Nothing /\ call' = [call EXCEPT ![c].at = "write"]
    /\ clashed' = (clashed \/ disk # call[c].read \/ disk = Nothing)
    /\ UNCHANGED <<wanted, retired>>

-----------------------------------------------------------------------------
(* What each request makes of what it read.                                   *)

\* Removing a channel switches it off in every group.
\* Broken variant: its state stays in the templates.
Without_Kept(file, x) == [file EXCEPT !.custom = @ \ {x}]
Without(file, x) ==
    [custom |-> file.custom \ {x},
     groups |-> [g \in Groups |->
                   IF file.groups[g] = NoGroup THEN NoGroup ELSE file.groups[g] \ {x}]]

Made(kind, file, g, on) ==
    CASE kind = "save" -> [file EXCEPT !.groups[g] = on \cap (BuiltIn \cup file.custom)]
      [] kind = "drop" -> [file EXCEPT !.groups[g] = NoGroup]
      [] kind = "define" -> [file EXCEPT !.custom = @ \cup on]
      [] kind = "remove" -> Without(file, CHOOSE x \in on : TRUE)

\* A template that is not there cannot be dropped, a channel that is there not
\* be defined under its id, and one that is not there not be removed.
Refused(c) ==
    LET asked == call[c] file == call[c].file IN
    \/ asked.kind = "drop" /\ file.groups[asked.group] = NoGroup
    \/ asked.kind = "define" /\ asked.on \subseteq file.custom
    \/ asked.kind = "remove" /\ ~asked.on \subseteq file.custom

Refuse(c) ==
    /\ call[c].at = "act" /\ Refused(c)
    /\ call' = [call EXCEPT ![c] = Idle]
    /\ UNCHANGED <<disk, clashed, wanted, retired>>

Act(c) ==
    LET asked == call[c] IN
    /\ asked.at = "act" /\ asked.kind # "check-in" /\ ~Refused(c)
    /\ call' = [call EXCEPT ![c] =
           [kind |-> asked.kind, at |-> "empty", next |-> "done", group |-> asked.group,
            on |-> asked.on, read |-> asked.read,
            file |-> Made(asked.kind, asked.file, asked.group, asked.on)]]
    /\ UNCHANGED <<disk, clashed, wanted, retired>>

\* A group whose template is saved anew, or dropped, has no old one.
Retired(kind, g, on) ==
    CASE kind = "remove" -> retired \cup (Group \X on)
      [] kind \in {"save", "drop"} -> retired \ ({g} \X Custom)
      [] OTHER -> retired

Write(c) ==
    LET asked == call[c] IN
    /\ asked.at = "write" /\ disk' = asked.file
    /\ IF asked.next = "act"
       THEN /\ call' = [call EXCEPT ![c].at = "act", ![c].read = asked.file]
            /\ UNCHANGED <<wanted, retired>>
       ELSE /\ call' = [call EXCEPT ![c] = Idle]
            /\ wanted' = Made(asked.kind, wanted, asked.group, asked.on)
            /\ retired' = Retired(asked.kind, asked.group, asked.on)
    /\ UNCHANGED clashed

\* A check-in is answered with the channels of its group, as it has read them.
Answer(c) ==
    /\ call[c].at = "act" /\ call[c].kind = "check-in"
    /\ call' = [call EXCEPT ![c] = Idle]
    /\ UNCHANGED <<disk, clashed, wanted, retired>>

\* The process is killed; between the two halves of a write the file stays empty.
Dies(c) ==
    /\ call[c] # Idle /\ clashed' = (clashed \/ call[c].at = "write")
    /\ call' = [call EXCEPT ![c] = Idle]
    /\ UNCHANGED <<disk, wanted, retired>>

Next ==
    \/ \E c \in Call, g \in Groups, on \in SUBSET Channels : Save(c, g, on)
    \/ \E c \in Call, g \in Group : Drop(c, g)
    \/ \E c \in Call, x \in Custom : Define(c, x) \/ Remove(c, x)
    \/ \E c \in Call :
          \/ CheckIn(c) \/ Empty(c) \/ Write(c) \/ Act(c)
          \/ Refuse(c) \/ Answer(c) \/ Dies(c)

Spec == Init /\ [][Next]_vars

-----------------------------------------------------------------------------
(* Properties.                                                                *)

Quiet == \A c \in Call : call[c] = Idle

\* However requests and check-ins overlap or die: the file says what was saved last of each
\* group and each channel, and a channel that is defined anew under the id of one that was
\* deleted is switched on only where it has been switched on since; unless one of them was
\* killed while the file was empty, or wrote over what it had not read.
SavesKept ==
    Quiet /\ ~clashed =>
        /\ disk.custom = wanted.custom
        /\ \A g \in Groups : disk.groups[g] = wanted.groups[g]
        /\ \A pair \in retired :
              disk.groups[pair[1]] # NoGroup => pair[2] \notin disk.groups[pair[1]]

\* Not so: a check-in writes the file "ONLY when an existing file actually needed
\* upgrading".  One that reads the file when a save has emptied it takes it for one in
\* need of it, and writes the defaults over what was saved.
ReadsChangeNothing ==
    [][\A c \in Call : call[c].kind = "check-in" /\ call[c].at = "empty" /\ call'[c].at = "write"
                         => Normal(disk) # disk]_vars
=============================================================================
