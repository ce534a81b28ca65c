------------------------------- MODULE PackSwap -------------------------------
(* The YARAify rules: sync_yaraify extracts the whole pack beside the synced   *)
(* directory and swaps the two by renaming.  Syncs overlap and may die.        *)
EXTENDS Integers, FiniteSets

CONSTANTS
    Syncer,
    MaxPack,   \* bound: packs, each download bringing a newer one
    MaxDie     \* bound: deaths

PackSwapBounds == {MaxPack, MaxDie} \subseteq Nat

Pack == 0 .. MaxPack
NoPack == 0

VARIABLES
    final,     \* yaraify_synced: the pack it holds, NoPack when it does not exist
    stale,     \* yaraify_synced.stale
    pc, extract,   \* per syncer: its next step and its extracted pack
    packs,     \* how many packs have been downloaded
    alone,     \* history: the syncers that no other sync has met since they began
    succeeded, deaths

vars == <<final, stale, pc, extract, packs, alone, succeeded, deaths>>

Steps == {"idle", "clear", "aside", "place", "tidy"}

TypeOK ==
    /\ {final, stale, packs} \subseteq Pack /\ deaths \in 0 .. MaxDie
    /\ pc \in [Syncer -> Steps] /\ extract \in [Syncer -> Pack]
    /\ alone \subseteq Syncer /\ succeeded \in BOOLEAN

Init ==
    /\ final = NoPack /\ stale = NoPack
    /\ pc = [s \in Syncer |-> "idle"] /\ extract = [s \in Syncer |-> NoPack]
    /\ packs = 0 /\ alone = {} /\ succeeded = FALSE /\ deaths = 0

Goes(s, step) == pc' = [pc EXCEPT ![s] = step]

\* The download and the extraction; a refused one changes nothing.
Extract(s) ==
    /\ pc[s] = "idle" /\ packs < MaxPack
    /\ packs' = packs + 1 /\ extract' = [extract EXCEPT ![s] = packs + 1]
    /\ Goes(s, "clear")
    /\ alone' = IF \A r \in Syncer : pc[r] = "idle" THEN {s} ELSE {}
    /\ UNCHANGED <<final, stale, succeeded, deaths>>

\* Broken variant: it is left to the end of the next sync.
Cleared_Later == stale
\* What an earlier sync left aside is removed.
Cleared == NoPack
Clear(s) ==
    /\ pc[s] = "clear" /\ stale' = Cleared /\ Goes(s, "aside")
    /\ UNCHANGED <<final, extract, packs, alone, succeeded, deaths>>

\* Giving up removes the extracted pack.
GivesUp(s) == Goes(s, "idle") /\ extract' = [extract EXCEPT ![s] = NoPack]

\* The present pack is moved aside, if there is one; a directory is in the way when
\* another sync has moved one there.
Aside(s) ==
    /\ pc[s] = "aside"
    /\ \/ /\ final = NoPack /\ Goes(s, "place")
          /\ UNCHANGED <<final, stale, extract>>
       \/ /\ final # NoPack /\ stale = NoPack
          /\ stale' = final /\ final' = NoPack /\ Goes(s, "place")
          /\ UNCHANGED extract
       \/ final # NoPack /\ stale # NoPack /\ GivesUp(s) /\ UNCHANGED <<final, stale>>
    /\ UNCHANGED <<packs, alone, succeeded, deaths>>

\* The new pack takes its place, unless another sync was quicker.
Place(s) ==
    /\ pc[s] = "place"
    /\ IF final = NoPack
       THEN /\ final' = extract[s] /\ extract' = [extract EXCEPT ![s] = NoPack]
            /\ Goes(s, "tidy")
       ELSE GivesUp(s) /\ UNCHANGED final
    /\ UNCHANGED <<stale, packs, alone, succeeded, deaths>>

Tidy(s) ==
    /\ pc[s] = "tidy" /\ stale' = NoPack /\ Goes(s, "idle") /\ succeeded' = TRUE
    /\ UNCHANGED <<final, extract, packs, alone, deaths>>

\* A killed sync leaves everything where it is.
Dies(s) ==
    /\ pc[s] # "idle" /\ deaths < MaxDie /\ deaths' = deaths + 1
    /\ Goes(s, "idle") /\ extract' = [extract EXCEPT ![s] = NoPack]
    /\ UNCHANGED <<final, stale, packs, alone, succeeded>>

Next ==
    \E s \in Syncer :
        Extract(s) \/ Clear(s) \/ Aside(s) \/ Place(s) \/ Tidy(s) \/ Dies(s)

Spec == Init /\ [][Next]_vars

-----------------------------------------------------------------------------
(* Properties.                                                               *)

\* Once a sync has succeeded there is a pack in place whenever no sync runs, however
\* syncs overlapped, as long as none was killed.
PackStays ==
    succeeded /\ deaths = 0 /\ (\A s \in Syncer : pc[s] = "idle") => final # NoPack

\* Whatever killed and overlapping syncs have left, a sync that runs by itself finds
\* nothing in its way and ends with its pack in place.
Unhindered ==
    \A s \in alone :
        /\ pc[s] = "aside" => final = NoPack \/ stale = NoPack
        /\ pc[s] = "place" => final = NoPack
        /\ pc[s] = "tidy" => final = packs

\* "The swap below is a real atomic os.rename, not a cross-device copy that could fail or
\* leave a partial directory behind": there is a pack even when a sync was killed.
PackStaysAfterKill == succeeded /\ (\A s \in Syncer : pc[s] = "idle") => final # NoPack
=============================================================================
