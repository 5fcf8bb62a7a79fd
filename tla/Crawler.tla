------------------------------ MODULE Crawler -------------------------------
(***************************************************************************)
(* The share crawlers of a storage server: ShareCrawler and its subclass     *)
(* BucketCountingCrawler (storage/crawler.py), and LeaseCheckingCrawler      *)
(* (storage/expirer.py).  A crawler walks the buckets in slices, sleeps in   *)
(* between, and keeps its place in a state file.  The node may be stopped,   *)
(* killed and started again, and buckets come and go.                        *)
(*                                                                           *)
(* A bucket is a number whose tens are its prefix, so that the order of the  *)
(* numbers is that of the names.                                             *)
(***************************************************************************)
EXTENDS Integers, Sequences, FiniteSets, FiniteSetsExt, SequencesExt

CONSTANTS Kinds,      \* which crawlers: "plain", "count", "lease"
          NumPrefixes,\* how many prefix directories there are
          Buckets, InitialBuckets,
          MaxCycles, MaxStops, MaxKills, MaxChanges

VARIABLES kind, disk,
          mem,   \* self.state and the position that is not saved
          file,  \* the state file
          up,    \* "down", "asleep", "slice" (in the middle of one), "dead" (no timer will come)
          seen,  \* how often a bucket has been processed in this cycle
          stable,\* the buckets that have been there since the cycle started
          used   \* [stops, kills, changes]: against the bounds; killed: in this cycle

crawlerVars == <<kind, disk, mem, file, up, seen, stable, used>>

None == -1
PrefixOf(b) == b \div 10
Listing(p) == SetToSortSeq({b \in disk : PrefixOf(b) = p}, LAMBDA a, b : a < b)

\* bucket-counts: the key of a cycle is its number, which the state file keeps
\* as a string.
NoCounts == <<>>
Stringy(counts) == [key \in {<<"str", k[2]>> : k \in DOMAIN counts} |->
                      LET same == {k \in DOMAIN counts : k[2] = key[2]}
                      IN  IF <<"int", key[2]>> \in same THEN counts[<<"int", key[2]>>] ELSE counts[key]]

Fresh == [cycle |-> None, finished |-> None, prefix |-> 0, bucket |-> 0, hist |-> "dict",
          counts |-> NoCounts, total |-> None]

\* load_state and add_initial_state.  What is loaded in the middle of a cycle has
\* the histogram of lease ages in the form of a report.
load_state(saved) ==
    [last |-> saved, cache |-> 0, listing |-> <<>>, todo |-> <<>>, entered |-> FALSE]

\* get_state: the lease checker's has, in a cycle, the histogram as a list.
get_state(m) ==
    [m.last EXCEPT !.hist = IF kind = "lease" /\ m.last.cycle # None THEN "list" ELSE "dict"]

\* save_state: what get_state returns is saved, as JSON.
save_state(m) == [get_state(m) EXCEPT !.counts = Stringy(@)]

CrawlerInit ==
    /\ kind \in Kinds /\ disk = InitialBuckets
    /\ file = Fresh /\ mem = load_state(Fresh) /\ up = "asleep"
    /\ seen = [b \in Buckets |-> 0] /\ stable = {}
    /\ used = [stops |-> 0, kills |-> 0, changes |-> 0, killed |-> FALSE]

startService ==
    /\ up = "down"
    /\ mem' = load_state(file) /\ up' = "asleep"
    /\ UNCHANGED <<kind, disk, file, seen, stable, used>>

\* stopService, which may come while the crawler sleeps (or is dead).
stopService ==
    /\ up \in {"asleep", "dead"} /\ used.stops < MaxStops
    /\ file' = save_state(mem) /\ up' = "down"
    /\ used' = [used EXCEPT !.stops = @ + 1]
    /\ UNCHANGED <<kind, disk, mem, seen, stable>>

\* SIGKILL
Kill ==
    /\ up # "down" /\ used.kills < MaxKills
    /\ up' = "down" /\ used' = [used EXCEPT !.kills = @ + 1, !.killed = TRUE]
    /\ UNCHANGED <<kind, disk, mem, file, seen, stable>>

\* Uploads and deletions.
Change ==
    /\ used.changes < MaxChanges
    /\ \E b \in Buckets :
          /\ disk' = IF b \in disk THEN disk \ {b} ELSE disk \cup {b}
          /\ stable' = stable \ {b}
    /\ used' = [used EXCEPT !.changes = @ + 1]
    /\ UNCHANGED <<kind, mem, file, up, seen>>

\* start_current_prefix starts a cycle if none is going on.
NewCycle(last) == [last EXCEPT !.cycle = last.finished + 1, !.hist = "dict"]

start_slice ==
    /\ up = "asleep" /\ up' = "slice"
    /\ IF mem.last.cycle = None
       THEN /\ mem.last.finished + 1 < MaxCycles
            /\ mem' = [mem EXCEPT !.last = NewCycle(@)]
            /\ seen' = [b \in Buckets |-> 0] /\ stable' = disk
            /\ used' = [used EXCEPT !.killed = FALSE]
       ELSE UNCHANGED <<mem, seen, stable, used>>
    /\ UNCHANGED <<kind, disk, file>>

\* process_prefixdir of BucketCountingCrawler: the buckets of prefix i are counted.
Counted(counts, i, n) ==
    LET key == <<"int", mem.last.cycle>>
        old == IF key \in DOMAIN counts THEN counts[key] ELSE <<>>
        new == [p \in DOMAIN old \cup {i} |-> IF p = i THEN n ELSE old[p]]
    IN  [k \in DOMAIN counts \cup {key} |-> IF k = key THEN new ELSE counts[k]]

\* The loop of start_current_prefix: the listing of a prefix is kept until the
\* next prefix is listed.
EnterPrefix ==
    LET i       == mem.last.prefix + 1
        buckets == IF mem.cache = i THEN mem.listing ELSE Listing(i)
    IN  /\ up = "slice" /\ ~ mem.entered /\ i <= NumPrefixes
        /\ mem' = [mem EXCEPT !.cache = i, !.listing = buckets, !.entered = TRUE,
                              !.todo = IF kind = "count" THEN <<>>
                                       ELSE SelectSeq(buckets, LAMBDA b : b > mem.last.bucket),
                              !.last.counts = IF kind = "count" THEN Counted(@, i, Len(buckets)) ELSE @]
        /\ UNCHANGED <<kind, disk, file, up, seen, stable, used>>

\* The end of a slice: the state is saved and the timer set again.
Yield(m) == file' = save_state(m) /\ mem' = [m EXCEPT !.entered = FALSE, !.todo = <<>>] /\ up' = "asleep"
GoOn(m) == mem' = m /\ UNCHANGED <<file, up>>

\* The place is not noted after each bucket.
process_prefixdir_unnoted ==
    LET b == mem.todo[1]
    IN  /\ up = "slice" /\ mem.todo # <<>>
        /\ seen' = [seen EXCEPT ![b] = @ + 1]
        /\ LET m == [mem EXCEPT !.todo = Tail(@), !.last.bucket = IF mem.todo = <<b>> THEN b ELSE @]
           IN  GoOn(m) \/ Yield(m)
        /\ UNCHANGED <<kind, disk, stable, used>>

\* process_prefixdir.  A bucket that is gone raises an exception (the stat of
\* its directory), and so does a lease whose age is to be counted in a
\* histogram that is a list: nothing sets the timer again.
process_prefixdir ==
    LET b == mem.todo[1]
    IN  /\ up = "slice" /\ mem.todo # <<>>
        /\ IF kind = "lease" /\ (b \notin disk \/ mem.last.hist = "list")
           THEN up' = "dead" /\ UNCHANGED <<mem, file, seen>>
           ELSE /\ seen' = [seen EXCEPT ![b] = @ + 1]
                /\ LET m == [mem EXCEPT !.todo = Tail(@), !.last.bucket = b] IN GoOn(m) \/ Yield(m)
        /\ UNCHANGED <<kind, disk, stable, used>>

FinishPrefix ==
    /\ up = "slice" /\ mem.entered /\ mem.todo = <<>>
    /\ LET m == [mem EXCEPT !.last.prefix = @ + 1, !.entered = FALSE] IN GoOn(m) \/ Yield(m)
    /\ UNCHANGED <<kind, disk, seen, stable, used>>

\* finished_cycle of BucketCountingCrawler: only a whole cycle is reported.
finished_cycle(last) ==
    LET key    == <<"int", last.cycle>>
        counts == IF key \in DOMAIN last.counts THEN last.counts[key] ELSE <<>>
    IN  IF Cardinality(DOMAIN counts) # NumPrefixes THEN last
        ELSE [last EXCEPT !.total = FoldSet(LAMBDA p, n : n + counts[p], 0, DOMAIN counts),
                          !.counts = [k \in {key} |-> counts]]

FinishCycle ==
    /\ up = "slice" /\ ~ mem.entered /\ mem.last.prefix = NumPrefixes
    /\ LET last == IF kind = "count" THEN finished_cycle(mem.last) ELSE mem.last
       IN  Yield([mem EXCEPT !.last = [last EXCEPT !.prefix = 0, !.bucket = 0,
                                                   !.finished = last.cycle, !.cycle = None]])
    /\ UNCHANGED <<kind, disk, seen, stable, used>>

CrawlerNext ==
    \/ startService \/ stopService \/ Kill \/ Change
    \/ start_slice \/ EnterPrefix \/ process_prefixdir \/ FinishPrefix \/ FinishCycle

CrawlerSpec == CrawlerInit /\ [][CrawlerNext]_crawlerVars

-----------------------------------------------------------------------------
(* "If the crawler is never interrupted by SIGKILL, this method will be      *)
(* called exactly once per share (per cycle)" (process_bucket): when a cycle *)
(* is finished every bucket that was there all the time has been processed,  *)
(* and none twice unless the node was killed, wherever slices ended and the  *)
(* node was stopped.                                                         *)
OncePerCycle ==
    mem.last.cycle # None /\ mem'.last.cycle = None /\ up = "slice" /\ kind # "count" =>
       /\ \A b \in stable : seen[b] > 0
       /\ ~ used.killed => \A b \in Buckets : seen[b] <= 1

(* The number of buckets that is reported counts every prefix of one cycle:  *)
(* a cycle that was interrupted by a restart reports nothing                 *)
(* (BucketCountingCrawler.finished_cycle).                                   *)
CountIsWhole == used.changes = 0 /\ mem.last.total # None => mem.last.total = Cardinality(InitialBuckets)

=============================================================================
