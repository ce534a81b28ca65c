------------------------------ MODULE CveSync ------------------------------
(* The vulnerability feeds: NVD's recent CVEs, CISA's catalog of exploited ones *)
(* and FIRST's scores, each synchronised by a request of its own, and the match *)
(* of installed software against what they have stored.  A request downloads    *)
(* first; its rows become visible with its commit, and the commit of the status *)
(* that follows an error takes along what was written before the error.         *)
EXTENDS Naturals, FiniteSets

CONSTANTS
    Cve, Request,
    Recent,     \* the CVEs that NVD publishes while we look; the others are older
    Entries,    \* what a CVE may say of a product: a set of Entry
    MaxVersion, \* bound: versions of the product
    PageSize,   \* CVEs that NVD is asked for (200); no second page is
    BatchSize,  \* CVEs scored in one answer
    MaxNews,    \* bound: changes at the sources
    MaxFails    \* bound: syncs that fail or die

Version == 1 .. MaxVersion
\* The fields of a CPE match; 0: absent, and '*' for the flat version.
Entry == [flat : 0 .. MaxVersion, startInc : 0 .. MaxVersion, startExc : 0 .. MaxVersion,
          endInc : 0 .. MaxVersion, endExc : 0 .. MaxVersion]
CveBounds == Recent \subseteq Cve /\ Entries \subseteq Entry
             /\ {PageSize, BatchSize} \subseteq Nat \ {0}
             /\ {MaxVersion, MaxNews, MaxFails} \subseteq Nat

VARIABLES
    nvd, window, catalog,           \* the sources; window: published in the last 7 days
    records, affected, kev, epss,   \* cve_records, cve_affected_products, cve_kev, cve_epss
    failing,                        \* settings: the feeds whose last status is an error
    request, lock,                  \* the requests, and who holds the write lock
    said, catalogs,                 \* history: what the sources have said
    muddled,                        \* history: the feeds shown as a success by a sync that
                                    \* another sync of the feed overlapped with
    page,                           \* history: the CVEs that NVD's sync has brought, when it is
                                    \* shown as a success and was alone
    news, fails

source == <<nvd, window, catalog, said, catalogs, news>>
stored == <<records, affected, kev, epss>>
shown == <<failing, muddled, page>>
vars == <<source, stored, shown, request, lock, fails>>

Feed == {"nvd", "kev", "epss"}
Idle == [feed |-> "none", at |-> "idle", got |-> {}, says |-> [c \in Cve |-> {}],
         written |-> {}, outcome |-> "none", met |-> FALSE]

TypeOK ==
    /\ nvd \in [Cve -> SUBSET Entries] /\ affected \in [Cve -> SUBSET Entries]
    /\ records \in [Cve -> {"none", "stub", "rated"}]
    /\ window \subseteq Cve /\ catalog \subseteq Cve /\ kev \subseteq Cve /\ epss \subseteq Cve
    /\ failing \subseteq Feed /\ muddled \subseteq Feed /\ page \subseteq Cve
    /\ request \in [Request ->
          [feed : Feed \cup {"none"}, at : {"idle", "write", "status"}, got : SUBSET Cve,
           says : [Cve -> SUBSET Entries], written : SUBSET Cve,
           outcome : {"none", "success", "error"}, met : BOOLEAN]]
    /\ lock \in Request \cup {"free"}
    /\ said \in [Cve -> SUBSET SUBSET Entries] /\ catalogs \subseteq SUBSET Cve
    /\ news \in 0 .. MaxNews /\ fails \in 0 .. MaxFails

Init ==
    /\ nvd = [c \in Cve |-> {}] /\ window = {} /\ catalog = {}
    /\ records = [c \in Cve |-> "none"] /\ affected = [c \in Cve |-> {}]
    /\ kev = {} /\ epss = {} /\ failing = {} /\ page = {} /\ muddled = {}
    /\ request = [r \in Request |-> Idle] /\ lock = "free"
    /\ said = [c \in Cve |-> {}] /\ catalogs = {{}} /\ news = 0 /\ fails = 0

-----------------------------------------------------------------------------
(* The sources: a CVE is published or revised, grows older than a week, and is  *)
(* listed as exploited or taken off the list; a list without any is a download  *)
(* gone wrong.                                                                  *)

New == news < MaxNews /\ news' = news + 1 /\ UNCHANGED <<stored, shown, request, lock, fails>>

Publish(c, says) ==
    /\ New /\ c \in Recent /\ (said[c] = {} \/ c \in window)
    /\ nvd' = [nvd EXCEPT ![c] = says] /\ window' = window \cup {c}
    /\ said' = [said EXCEPT ![c] = @ \cup {says}]
    /\ UNCHANGED <<catalog, catalogs>>

Ages(c) ==
    /\ New /\ c \in window /\ window' = window \ {c}
    /\ UNCHANGED <<nvd, catalog, said, catalogs>>

List(listed) ==
    /\ New /\ listed # catalog /\ catalog' = listed
    /\ catalogs' = catalogs \cup {listed}
    /\ UNCHANGED <<nvd, window, said>>

-----------------------------------------------------------------------------
(* The three syncs.                                                            *)

\* Only the status is left to write: the download has served.
Ends(r, outcome) ==
    request' = [request EXCEPT ![r] =
        [Idle EXCEPT !.feed = request[r].feed, !.at = "status", !.outcome = outcome,
                     !.met = request[r].met,
                     !.got = IF request[r].feed = "nvd" THEN request[r].got ELSE {}]]

\* Of a week with more CVEs than a page holds, one page.
Pages == {p \in SUBSET window :
             IF Cardinality(window) < PageSize THEN p = window
             ELSE Cardinality(p) = PageSize}
Downloads(feed) ==
    CASE feed = "nvd" -> Pages
      [] feed = "kev" -> {catalog}
      [] feed = "epss" -> {{c \in Cve : records[c] # "none"}}

\* Nothing keeps a second sync of the feed from running beside the first.
Fetch(r, feed) ==
    /\ request[r].at = "idle"
    /\ \E got \in Downloads(feed) :
         LET empty  == feed # "nvd" /\ got = {}   \* no catalog: an error; no CVEs: nothing to do
             beside == {q \in Request : request[q].feed = feed}
             begun  == [feed |-> feed, at |-> IF empty THEN "status" ELSE "write", got |-> got,
                        says |-> [c \in Cve |-> IF feed = "nvd" /\ c \in got THEN nvd[c] ELSE {}],
                        written |-> {},
                        outcome |-> IF ~empty THEN "none"
                                    ELSE IF feed = "kev" THEN "error" ELSE "success",
                        met |-> beside # {}]
         IN request' = [q \in Request |->
                           IF q = r THEN begun
                           ELSE IF q \in beside THEN [request[q] EXCEPT !.met = TRUE]
                           ELSE request[q]]
    /\ UNCHANGED <<source, stored, shown, lock, fails>>

\* The rows of the CVEs in done as NVD has them; one in half has lost its products.
Upserted(r, done, half) ==
    /\ records' = [c \in Cve |-> IF c \in done \cup half THEN "rated" ELSE records[c]]
    /\ affected' = [c \in Cve |-> IF c \in half THEN {}
                                  ELSE IF c \in done THEN request[r].says[c] ELSE affected[c]]
    /\ UNCHANGED <<kev, epss>>

\* Broken variant: no stub for a CVE that NVD's sync has never stored.
Stubs_None(c) == records[c]
Stubs(c) == IF records[c] = "none" THEN "stub" ELSE records[c]
Mirrored(done) ==
    /\ kev' = done
    /\ records' = [c \in Cve |-> IF c \in done THEN Stubs(c) ELSE records[c]]
    /\ UNCHANGED <<affected, epss>>

Free(r) == lock \in {"free", r}

Write(r) ==
    /\ request[r].at = "write" /\ request[r].feed # "epss" /\ Free(r)
    /\ IF request[r].feed = "nvd" THEN Upserted(r, request[r].got, {})
       ELSE Mirrored(request[r].got)
    /\ Ends(r, "success")
    /\ UNCHANGED <<source, shown, lock, fails>>

\* One batch is downloaded, and the CVEs in rated are what FIRST scores of it; the
\* lock is held from the first row on.
Batch(r, batch, rated) ==
    /\ request[r].at = "write" /\ request[r].feed = "epss"
    /\ batch \subseteq request[r].got /\ rated \subseteq batch
    /\ \/ Cardinality(batch) = BatchSize
       \/ Cardinality(batch) < BatchSize /\ batch = request[r].got /\ batch # {}
    /\ IF rated = {} THEN UNCHANGED lock ELSE Free(r) /\ lock' = r
    /\ request' = [request EXCEPT ![r].got = @ \ batch, ![r].written = @ \cup rated]
    /\ UNCHANGED <<source, stored, shown, fails>>

Scored(r) == epss' = epss \cup request[r].written /\ UNCHANGED <<records, affected, kev>>
CommitScores(r) ==
    /\ request[r].at = "write" /\ request[r].feed = "epss" /\ request[r].got = {} /\ Free(r)
    /\ Scored(r) /\ lock' = "free" /\ Ends(r, "success")
    /\ UNCHANGED <<source, shown, fails>>

-----------------------------------------------------------------------------
(* Endings.  The handler catches what the sync raises, writes the status, and   *)
(* commits it with the rows written so far: no rollback.                        *)

\* Broken variant: the status of the failed sync is left as it was.
Told_Not(r) == failing
Told(r) == failing \cup {request[r].feed}

Shows(r, outcome) ==
    LET feed  == request[r].feed
        clean == outcome = "success" /\ ~request[r].met
    IN  /\ failing' = IF outcome = "error" THEN Told(r) ELSE failing \ {feed}
        /\ muddled' = IF outcome = "success" /\ ~clean THEN muddled \cup {feed}
                      ELSE muddled \ {feed}
        /\ page' = IF feed # "nvd" THEN page ELSE IF clean THEN request[r].got ELSE {}

Status(r) ==
    /\ request[r].at = "status" /\ Free(r)
    /\ Shows(r, request[r].outcome)
    /\ request' = [request EXCEPT ![r] = Idle]
    /\ UNCHANGED <<source, stored, lock, fails>>

Fails == fails < MaxFails /\ fails' = fails + 1

\* An entry is not what the code expects: those before it have been written.
Raise(r, done, c, half) ==
    /\ request[r].at = "write" /\ Free(r) /\ Fails
    /\ done \subseteq request[r].got /\ c \in request[r].got \ done
    /\ CASE request[r].feed = "nvd" -> Upserted(r, done, IF half THEN {c} ELSE {})
         [] request[r].feed = "kev" -> ~half /\ Mirrored(done)
         [] request[r].feed = "epss" -> ~half /\ done = {} /\ Scored(r)
    /\ Shows(r, "error")
    /\ request' = [request EXCEPT ![r] = Idle] /\ lock' = "free"
    /\ UNCHANGED source

\* The source does not answer, or the lock is not given within 30 seconds.
GiveUp(r) ==
    /\ request[r].at = "write" /\ request[r].written = {}
    /\ Fails /\ Ends(r, "error")
    /\ UNCHANGED <<source, stored, shown, lock>>

\* Killed, or refused the lock for the status too: what is not committed is lost.
Dies(r) ==
    /\ request[r].at # "idle" /\ Fails
    /\ request' = [request EXCEPT ![r] = Idle]
    /\ lock' = IF lock = r THEN "free" ELSE lock
    /\ UNCHANGED <<source, stored, shown>>

Next ==
    \/ \E c \in Cve : Ages(c) \/ \E says \in SUBSET Entries : Publish(c, says)
    \/ \E listed \in SUBSET Cve : List(listed)
    \/ \E r \in Request :
          \/ \E feed \in Feed : Fetch(r, feed)
          \/ Write(r) \/ CommitScores(r) \/ Status(r) \/ GiveUp(r) \/ Dies(r)
          \/ \E batch, rated \in SUBSET Cve : Batch(r, batch, rated)
          \/ \E done \in SUBSET Cve, c \in Cve, half \in BOOLEAN : Raise(r, done, c, half)

Spec == Init /\ [][Next]_vars

-----------------------------------------------------------------------------
(* The match: an installed version against the entries that are stored.         *)

Ranged(e) == e.startInc # 0 \/ e.startExc # 0 \/ e.endInc # 0 \/ e.endExc # 0
\* Broken variant: a range that ends before a version ends with it.
Matches_Closed(v, e) ==
    IF Ranged(e) THEN (e.endInc # 0 => v <= e.endInc) /\ (e.endExc # 0 => v <= e.endExc)
    ELSE e.flat \in {0, v}
Matches(v, e) ==
    IF Ranged(e) THEN /\ e.startInc # 0 => v >= e.startInc
                      /\ e.startExc # 0 => v > e.startExc
                      /\ e.endInc # 0 => v <= e.endInc
                      /\ e.endExc # 0 => v < e.endExc
    ELSE e.flat \in {0, v}
Correlated(v) ==
    {c \in Cve : records[c] # "none" /\ \E e \in affected[c] : Matches(v, e)}

-----------------------------------------------------------------------------
(* Properties.                                                                  *)

\* Every CVE that is exploited or scored can be browsed, and one that NVD has
\* rated keeps its rating whatever is listed and taken off afterwards.
Browsable ==
    /\ \A c \in kev \cup epss : records[c] # "none"
    /\ \A c \in Cve : affected[c] # {} => records[c] = "rated"

\* What is shown of a feed is of a sync that failed, or of one that was not alone.
Doubtful(feed) == feed \in failing \/ feed \in muddled

\* A host is told of a CVE on the word of one edition of it, whatever syncs overlap; and what
\* an edition says is lost only while a failure is shown, or a success that had not the feed
\* to itself, or of a CVE too old by now, or one that a full page has left out.
Matched ==
    \A c \in Cve :
        /\ \A v \in Version : c \in Correlated(v) =>
              \E says \in said[c] : \A w \in Version :
                 c \in Correlated(w) <=> \E e \in says :
                    \/ ~Ranged(e) /\ (e.flat = 0 \/ e.flat = w)
                    \/ /\ Ranged(e)
                       /\ w \in e.startExc + 1 .. MaxVersion /\ w \in e.startInc .. MaxVersion
                       /\ w \in 1 .. IF e.endInc = 0 THEN MaxVersion ELSE e.endInc
                       /\ w \in 1 .. IF e.endExc = 0 THEN MaxVersion ELSE e.endExc - 1
        /\ records[c] = "rated" /\ affected[c] \notin said[c] =>
              \/ Doubtful("nvd") \/ c \notin window
              \/ c \notin page /\ Cardinality(page) = PageSize

\* The list of exploited CVEs is a catalog that CISA has published, unless the last sync
\* is shown as failed, or was not alone.
Mirror == ~Doubtful("kev") => kev \in catalogs

VulnerabilitiesTold == Browsable /\ Matched /\ Mirror

\* Not so: "an honest mirror of the current catalog" at all times.
AlwaysAMirror == kev \in catalogs
=============================================================================
