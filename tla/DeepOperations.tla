--------------------------- MODULE DeepOperations ---------------------------
(***************************************************************************)
(* The walk over everything that can be reached from a directory           *)
(* (dirnode.py, deep_stats.py, check_results.py, monitor.py), as a         *)
(* deep-check, with or without repair: one node at a time, files of a      *)
(* directory before its subdirectories, while others change the            *)
(* directories and may cancel the walk.                                    *)
(*                                                                         *)
(* A node stands for its verify cap; literal files have none and are       *)
(* visited as often as they are linked.                                    *)
(***************************************************************************)
EXTENDS Sequences, FiniteSets, SequencesExt, Integers

CONSTANTS Root, Folders, Files, Literals, Unknowns,  \* the nodes
          Listings,   \* directory -> the sequences of children it may have
          Repair,     \* start_deep_check_and_repair?
          MaxChanges  \* bound on changes of directories

VARIABLES links,    \* directory -> its children now
          stack,    \* what is left to do, the next thing first
          found,    \* verify caps met
          visits,   \* node -> how often the walker was given it
          listed,   \* ghost: directory -> the children the walk was told
          results,  \* counters of the deep-check results
          stats,    \* counters of the deep stats
          monitor,  \* [cancelled, status]
          changes

walkVars == <<links, stack, found, visits, listed, results, stats, monitor, changes>>

Nodes == Folders \cup Files \cup Literals \cup Unknowns
Task(do, n) == [do |-> do, node |-> n]
Running == monitor.status = "running"

(* deep_traverse.                                                          *)
WalkInit ==
  /\ links \in [Folders -> UNION {Listings[d] : d \in Folders}]
  /\ \A d \in Folders : links[d] \in Listings[d]
  /\ stack = <<Task("dir", Root)>> /\ found = {Root}
  /\ visits = [n \in Nodes |-> 0]
  /\ listed = [d \in Folders |-> <<>>]
  /\ results = [checked |-> 0, healthy |-> 0, unhealthy |-> 0, unrecoverable |-> 0, attempted |-> 0,
                successful |-> 0, unsuccessful |-> 0, healthy_post |-> 0, unhealthy_post |-> 0]
  /\ stats = [directories |-> 0, files |-> 0, literal |-> 0, unknown |-> 0, largest |-> 0]
  /\ monitor = [cancelled |-> FALSE, status |-> "running"]
  /\ changes = MaxChanges

-----------------------------------------------------------------------------
(* DeepStats.add_node.                                                     *)
AddStats(s, n) ==
  CASE n \in Unknowns -> [s EXCEPT !.unknown = @ + 1]
    [] n \in Folders -> [s EXCEPT !.directories = @ + 1]
    [] n \in Files -> [s EXCEPT !.files = @ + 1]
    [] n \in Literals -> [s EXCEPT !.files = @ + 1, !.literal = @ + 1]

(* CiphertextFileNode._maybe_repair and _gather_repair_results: health     *)
(* before, whether a repair was attempted, health after.                   *)
Checks ==
  {[pre |-> "healthy", post |-> "healthy", attempted |-> FALSE]}
  \cup {[pre |-> p, post |-> q, attempted |-> Repair] : p \in {"unhealthy", "unrecoverable"},
          q \in IF Repair THEN {"healthy", "unhealthy"} ELSE {"unhealthy"}}

If(b) == IF b THEN 1 ELSE 0

(* DeepCheckResults.add_check, DeepCheckAndRepairResults.                  *)
(* add_check_and_repair.                                                   *)
Checked(r, c) ==
  [r EXCEPT !.checked = @ + 1,
            !.healthy = @ + If(c.pre = "healthy"),
            !.unhealthy = @ + If(c.pre # "healthy"),
            !.unrecoverable = @ + If(c.pre = "unrecoverable"),
            !.attempted = @ + If(c.attempted),
            !.successful = @ + If(c.attempted /\ c.post = "healthy"),
            !.unsuccessful = @ + If(c.attempted /\ c.post # "healthy"),
            !.healthy_post = @ + If(Repair /\ c.post = "healthy"),
            !.unhealthy_post = @ + If(Repair /\ c.post # "healthy")]

(* DeepChecker.add_node: literal and unknown nodes have nothing to check.  *)
add_node(n, c) ==
  /\ visits' = [visits EXCEPT ![n] = @ + 1]
  /\ stats' = AddStats(stats, n)
  /\ results' = IF n \in Literals \cup Unknowns THEN results ELSE Checked(results, c)

Ends(status) ==
  /\ monitor' = [monitor EXCEPT !.status = status]
  /\ stack' = <<>>

-----------------------------------------------------------------------------
(* _deep_traverse_dirnode, up to the directory's own add_node.             *)
_deep_traverse_dirnode ==
  /\ Running /\ stack # <<>> /\ Head(stack).do = "dir"
  /\ IF monitor.cancelled
     THEN Ends("OperationCancelledError") /\ UNCHANGED <<visits, stats, results>>
     ELSE /\ \E c \in Checks : add_node(Head(stack).node, c)
          /\ stack' = <<Task("list", Head(stack).node)>> \o Tail(stack)
          /\ UNCHANGED monitor
  /\ UNCHANGED <<links, found, listed, changes>>

IsNew_by_link(kids, i) == kids[i] \in Literals \/ kids[i] \notin found

(* The i-th child is walked: the first link to a verify cap that was not   *)
(* met before, or a literal file.                                          *)
IsNew(kids, i) ==
  \/ kids[i] \in Literals
  \/ kids[i] \notin found /\ \A j \in 1..(i - 1) : kids[j] # kids[i]

(* _deep_traverse_dirnode_children: the unknown children are given to the  *)
(* walker at once; enter_directory.                                        *)
Children(n, kids) ==
  LET walked == {i \in DOMAIN kids : kids[i] \notin Unknowns /\ IsNew(kids, i)}
      fileKids == SetToSortSeq({i \in walked : kids[i] \notin Folders}, <)
      dirKids == SetToSortSeq({i \in walked : kids[i] \in Folders}, <)
      unknown == SelectSeq(kids, LAMBDA k : k \in Unknowns)
      Times(u) == Len(SelectSeq(unknown, LAMBDA k : k = u))
  IN /\ found' = found \cup ({kids[i] : i \in walked} \ Literals)
     /\ stack' = [i \in DOMAIN fileKids |-> Task("file", kids[fileKids[i]])]
                 \o [i \in DOMAIN dirKids |-> Task("dir", kids[dirKids[i]])] \o Tail(stack)
     /\ visits' = [k \in Nodes |-> visits[k] + IF k \in Unknowns THEN Times(k) ELSE 0]
     /\ stats' = [stats EXCEPT !.unknown = @ + Len(unknown),
                               !.largest = IF Len(kids) > @ THEN Len(kids) ELSE @]
     /\ listed' = [listed EXCEPT ![n] = kids]

(* node.list(), which may fail, and what is made of it.                    *)
List ==
  /\ Running /\ stack # <<>> /\ Head(stack).do = "list"
  /\ \/ ~monitor.cancelled /\ Children(Head(stack).node, links[Head(stack).node]) /\ UNCHANGED monitor
     \/ /\ Ends(IF monitor.cancelled THEN "OperationCancelledError" ELSE "failed")
        /\ UNCHANGED <<found, visits, stats, listed>>
  /\ UNCHANGED <<links, results, changes>>

File ==
  /\ Running /\ stack # <<>> /\ Head(stack).do = "file"
  /\ \E c \in Checks : add_node(Head(stack).node, c)
  /\ stack' = Tail(stack)
  /\ UNCHANGED <<links, found, listed, monitor, changes>>

(* walker.finish, monitor.finish.                                          *)
Finish ==
  /\ Running /\ stack = <<>>
  /\ Ends("finished")
  /\ UNCHANGED <<links, found, visits, listed, results, stats, changes>>

(* Monitor.cancel.                                                         *)
Cancel ==
  /\ Running /\ ~monitor.cancelled
  /\ monitor' = [monitor EXCEPT !.cancelled = TRUE]
  /\ UNCHANGED <<links, stack, found, visits, listed, results, stats, changes>>

(* Somebody changes a directory.                                           *)
Change ==
  /\ Running /\ changes > 0 /\ changes' = changes - 1
  /\ \E d \in Folders : \E l \in Listings[d] \ {links[d]} : links' = [links EXCEPT ![d] = l]
  /\ UNCHANGED <<stack, found, visits, listed, results, stats, monitor>>

WalkNext == _deep_traverse_dirnode \/ List \/ File \/ Finish \/ Cancel \/ Change

WalkSpec == WalkInit /\ [][WalkNext]_walkVars

-----------------------------------------------------------------------------
(* The docstring of deep_traverse: any file or directory is given to the   *)
(* walker once only, whatever links there are to it and whatever loops     *)
(* there are among the directories.                                        *)
OnceOnly == \A n \in Folders \cup Files : visits[n] <= 1

(* A walk that finished was given the root and all that it was told of:    *)
(* each child of each directory it visited, as the directory was when it   *)
(* was read; and the counters it reports are those of that set.            *)
WalkComplete ==
  monitor.status = "finished" =>
    LET Reached == {Root} \cup UNION {ToSet(listed[d]) : d \in Folders}
        Distributed == Reached \cap (Folders \cup Files)
    IN /\ {n \in Nodes : visits[n] > 0} = Reached
       /\ results.checked = Cardinality(Distributed)
       /\ stats.directories = Cardinality(Reached \cap Folders)
       /\ stats.files - stats.literal = Cardinality(Reached \cap Files)

(* The counters agree with each other at any time of the walk: what was    *)
(* not healthy was tried to be repaired, and each repair succeeded or did  *)
(* not.                                                                    *)
CountersAgree ==
  LET r == results
  IN /\ r.checked = r.healthy + r.unhealthy /\ r.unrecoverable <= r.unhealthy
     /\ Repair => /\ r.attempted = r.unhealthy /\ r.successful + r.unsuccessful = r.attempted
                  /\ r.healthy_post = r.healthy + r.successful
                  /\ r.healthy_post + r.unhealthy_post = r.checked

-----------------------------------------------------------------------------
(***************************************************************************)
(* The handles of slow operations (web/operations.py, monitor.py): the     *)
(* client picks a handle and starts an operation, polls and perhaps        *)
(* cancels it under that handle; the table forgets a handle when a timer   *)
(* fires.  Time is in days.                                                *)
(***************************************************************************)
CONSTANTS Handles,       \* handles that clients pick
          Retains,       \* values of retain-for=
          UNCOLLECTED_HANDLE_LIFETIME,
          COLLECTED_HANDLE_LIFETIME,
          Reuse,         \* may a handle be picked again once it is released?
          MaxOps,        \* bound on operations started
          MaxDay         \* bound on the clock

VARIABLES ops,      \* the operations started: [handle, added, done, cancelled,
                    \*   got, retained]; got and done are days, or -1
          handles,  \* handle -> its operation's number, or 0
          timers,   \* handle -> the day its timer fires, or -1
          now

ophandleVars == <<ops, handles, timers, now>>

OpNums == 1..MaxOps

NoOp == [handle |-> "", added |-> -1, done |-> -1, got |-> -1, cancelled |-> FALSE,
         released |-> FALSE, retained |-> FALSE]

OphandleInit ==
  /\ ops = [i \in OpNums |-> NoOp]
  /\ handles = [h \in Handles |-> 0]
  /\ timers = [h \in Handles |-> -1]
  /\ now = 0

-----------------------------------------------------------------------------
(* _set_timer; retain-for=, if given, is days from now.                    *)
_set_timer(t, h, days) == [t EXCEPT ![h] = now + days]

(* add_monitor.                                                            *)
add_monitor(h, retain_for) ==
  \E i \in OpNums :
    /\ ops[i] = NoOp /\ \A j \in 1..(i - 1) : ops[j] # NoOp
    /\ handles[h] = 0 /\ (~Reuse => \A j \in OpNums : ops[j].handle # h)
    /\ ops' = [ops EXCEPT ![i] = [NoOp EXCEPT !.handle = h, !.added = now, !.retained = retain_for # -1]]
    /\ handles' = [handles EXCEPT ![h] = i]
    /\ timers' = IF retain_for # -1 THEN _set_timer(timers, h, retain_for) ELSE timers
    /\ UNCHANGED now

(* Monitor.finish, and its observer _operation_complete, which knows only  *)
(* the handle.                                                             *)
_operation_complete(i) ==
  LET h == ops[i].handle
      added == ops[handles[h]].added
      when == IF now - added > UNCOLLECTED_HANDLE_LIFETIME THEN now - added
              ELSE UNCOLLECTED_HANDLE_LIFETIME
  IN IF handles[h] # 0 /\ timers[h] = -1 THEN _set_timer(timers, h, when) ELSE timers

FinishOperation(i) ==
  /\ ops[i] # NoOp /\ ops[i].done = -1
  /\ timers' = _operation_complete(i)
  /\ ops' = [ops EXCEPT ![i].done = now]
  /\ UNCHANGED <<handles, now>>

(* getChild for t=cancel: the handle is released at once.                  *)
CancelOperation(h) ==
  /\ handles[h] # 0
  /\ ops' = [ops EXCEPT ![handles[h]].cancelled = TRUE, ![handles[h]].released = TRUE]
  /\ handles' = [handles EXCEPT ![h] = 0]
  /\ timers' = [timers EXCEPT ![h] = -1]
  /\ UNCHANGED now

(* getChild's timers: with release-after-complete the handle is released,  *)
(* and then given the timer of a collected one.                            *)
getChild(h, retain_for, release) ==
  IF retain_for # -1 THEN IF release THEN [timers EXCEPT ![h] = -1] ELSE _set_timer(timers, h, retain_for)
  ELSE _set_timer(timers, h, COLLECTED_HANDLE_LIFETIME)

Get(h, retain_for, release) ==
  /\ handles[h] # 0
  /\ LET i == handles[h]
         finished == ops[i].done # -1
     IN /\ ops' = [ops EXCEPT ![i].got = IF finished THEN now ELSE @,
                              ![i].retained = @ \/ retain_for # -1,
                              ![i].released = @ \/ (finished /\ release)]
        /\ handles' = IF finished /\ release THEN [handles EXCEPT ![h] = 0] ELSE handles
        /\ timers' = IF finished THEN getChild(h, retain_for, release)
                     ELSE IF retain_for # -1 THEN _set_timer(timers, h, retain_for) ELSE timers
  /\ UNCHANGED now

(* _release_ophandle, called by the timer.                                 *)
_release_ophandle(h) ==
  /\ timers[h] # -1 /\ timers[h] <= now
  /\ handles' = [handles EXCEPT ![h] = 0]
  /\ timers' = [timers EXCEPT ![h] = -1]
  /\ UNCHANGED <<ops, now>>

Day ==
  /\ now < MaxDay /\ \A h \in Handles : timers[h] = -1 \/ timers[h] > now
  /\ now' = now + 1
  /\ UNCHANGED <<ops, handles, timers>>

OphandleNext ==
  \/ \E h \in Handles :
       \/ \E r \in Retains \cup {-1} : add_monitor(h, r) \/ \E b \in BOOLEAN : Get(h, r, b)
       \/ CancelOperation(h) \/ _release_ophandle(h)
  \/ \E i \in OpNums : FinishOperation(i)
  \/ Day

OphandleSpec == OphandleInit /\ [][OphandleNext]_ophandleVars

-----------------------------------------------------------------------------
(* Until when the handle of an operation is promised to be valid.          *)
Promised(o) ==
  CASE o.done = -1 -> now + 1
    [] o.done # -1 /\ o.got # -1 -> o.got + COLLECTED_HANDLE_LIFETIME
    [] OTHER -> o.done + IF o.done - o.added > UNCOLLECTED_HANDLE_LIFETIME THEN o.done - o.added
                         ELSE UNCOLLECTED_HANDLE_LIFETIME

(* docs/frontends/webapi.rst, "default handle lifetimes": without          *)
(* retain-for=, and unless the client lets go of it, a handle is valid     *)
(* until its operation finishes, then for four days or as long as the      *)
(* operation took, or for a day after the results were fetched.            *)
HandleKept ==
  \A i \in OpNums :
    LET o == ops[i]
    IN o # NoOp /\ ~o.retained /\ ~o.released /\ now < Promised(o) => handles[o.handle] = i

(* No results are kept for ever: once its operation is over, a handle has  *)
(* a timer that will release it.                                           *)
HandleExpires ==
  \A h \in Handles : handles[h] # 0 /\ ops[handles[h]].done # -1 => timers[h] # -1

-----------------------------------------------------------------------------
(***************************************************************************)
(* What the commands check, deep-check, manifest and stats make of such    *)
(* operations (scripts/tahoe_check.py, tahoe_manifest.py,                  *)
(* slow_operation.py; web/directory.py, web/check_results.py).  The node   *)
(* writes one line per node that the walk comes to, and at the end one of  *)
(* statistics, or the error; the command reads them as they come.  For     *)
(* stats the command polls.                                                *)
(***************************************************************************)
CONSTANTS Reached,  \* nodes that the walk comes to
          MaxNamed  \* locations named in one command line

VARIABLES walker,  \* the node's: [left, status]
          wire,    \* lines on their way
          said,    \* ghost: the lines about nodes, of this location
          st       \* the command's

streamVars == <<walker, wire, said, st>>

Counts0 == [objects |-> 0, healthy |-> 0, unhealthy |-> 0, attempted |-> 0, successful |-> 0,
            healthy_post |-> 0, unhealthy_post |-> 0]

Streaming == {"deep-check", "deep-check --repair", "manifest", "manifest --storage-index"}

StreamInit ==
  /\ walker = [left |-> {}, status |-> "none"] /\ wire = <<>> /\ said = {}
  /\ \E kind \in Streaming \cup {"check", "check --repair", "stats"}, named \in 0..MaxNamed :
       /\ kind \in {"stats", "manifest", "manifest --storage-index"} => named = 1
       /\ st = [kind |-> kind, named |-> named, at |-> 1, pc |-> "ask", rc |-> 0, in_error |-> FALSE,
                counts |-> Counts0, summary |-> FALSE, shown |-> {}]

(* The exit status of a command that ends in a traceback.                  *)
Raised == 99

Exit(rc) == [st EXCEPT !.pc = "exit", !.rc = rc]
OnlySt(s) == st' = s /\ UNCHANGED <<walker, wire, said>>

(* The next location, or the end; rc counts only if a location was named.  *)
NextLocation(s) ==
  IF s.at < s.named THEN [s EXCEPT !.pc = "ask", !.at = @ + 1]
  ELSE [s EXCEPT !.pc = "exit", !.rc = IF s.named = 0 THEN 0 ELSE @]

(* No such alias, no connection or an error: nothing is read.              *)
NotAsked == st.pc = "ask" /\ OnlySt(Exit(1))

(* _POST_stream_deep_check, _POST_stream_manifest: a walk begins.          *)
deep_traverse == [left |-> Reached, status |-> "walking"]

(* deepcheck_location, ManifestStreamer.run.                               *)
Asked ==
  /\ st.pc = "ask" /\ st.kind \in Streaming
  /\ walker' = deep_traverse /\ wire' = <<>> /\ said' = {}
  /\ st' = [st EXCEPT !.pc = "read", !.rc = 0, !.in_error = FALSE, !.counts = Counts0, !.summary = FALSE,
                      !.shown = {}]

(* SlowOperationRunner.run, _POST_start_deep_stats.                        *)
start_deep_stats ==
  /\ st.pc = "ask" /\ st.kind = "stats"
  /\ walker' = deep_traverse
  /\ st' = [st EXCEPT !.pc = "poll"]
  /\ UNCHANGED <<wire, said>>

-----------------------------------------------------------------------------
Type(n) ==
  CASE n \in Folders -> "directory"
    [] n \in Files \cup Literals -> "file"
    [] n \in Unknowns -> "unknown"
HasIndex(n) == n \in Folders \cup Files

(* json_check_results, json_check_and_repair_results: nothing is checked   *)
(* where there is no storage index.                                        *)
json_check_and_repair_results(n) ==
  IF HasIndex(n)
  THEN [pre : {TRUE}, post : {TRUE}, attempted : {FALSE}, successful : {FALSE}]
       \cup [pre : {FALSE}, post : BOOLEAN, attempted : {TRUE}, successful : BOOLEAN]
  ELSE {[attempted |-> FALSE]}

json_check_results(n) == IF HasIndex(n) THEN [pre : BOOLEAN] ELSE {[pre |-> TRUE]}

LineResults(n) ==
  CASE st.kind = "deep-check --repair" -> json_check_and_repair_results(n)
    [] st.kind = "deep-check" -> json_check_results(n)
    [] OTHER -> {[pre |-> TRUE]}

Line(type, n, r) == [type |-> type, node |-> n, results |-> r]
NoResults == [pre |-> TRUE]

Walks == walker.status = "walking"

(* The streamers' add_node.                                                *)
write_line(n) ==
  /\ Walks /\ n \in walker.left
  /\ walker' = [walker EXCEPT !.left = @ \ {n}]
  /\ IF st.kind = "stats" THEN UNCHANGED <<wire, said>>
     ELSE \E r \in LineResults(n) :
            wire' = Append(wire, Line(Type(n), n, r)) /\ said' = said \cup {Line(Type(n), n, r)}
  /\ UNCHANGED st

(* The streamers' finish.                                                  *)
finish ==
  /\ Walks /\ walker.left = {}
  /\ walker' = [walker EXCEPT !.status = "finished"]
  /\ wire' = IF st.kind = "stats" THEN wire ELSE Append(wire, Line("stats", Root, NoResults))
  /\ UNCHANGED <<said, st>>

(* _error: a line that begins with ERROR, and the traceback.               *)
_error ==
  /\ Walks
  /\ walker' = [walker EXCEPT !.status = "failed"]
  /\ wire' = IF st.kind = "stats" THEN wire
             ELSE wire \o <<Line("ERROR:", Root, NoResults), Line("trace", Root, NoResults)>>
  /\ UNCHANGED <<said, st>>

(* The connection is lost: the read raises, stopProducing cancels.         *)
Lost ==
  /\ st.pc = "read"
  /\ st' = Exit(Raised)
  /\ walker' = [walker EXCEPT !.status = IF Walks THEN "cancelled" ELSE @]
  /\ wire' = <<>> /\ UNCHANGED said

-----------------------------------------------------------------------------
(* DeepCheckOutput.lineReceived.                                           *)
CountChecked(k, line) ==
  [k EXCEPT !.objects = @ + 1, !.healthy = @ + If(line.results.pre), !.unhealthy = @ + If(~line.results.pre)]

(* DeepCheckAndRepairOutput.lineReceived.                                  *)
CountRepaired(k, line) ==
  LET r == line.results
      lit == ~HasIndex(line.node)
      was == lit \/ r.pre
      is == lit \/ r.post
  IN [k EXCEPT !.objects = @ + 1, !.healthy = @ + If(was), !.unhealthy = @ + If(~was),
               !.healthy_post = @ + If(is), !.unhealthy_post = @ + If(~is),
               !.attempted = @ + If(r.attempted), !.successful = @ + If(r.attempted /\ r.successful)]

Received(line) ==
  IF st.in_error THEN st
  ELSE IF line.type = "ERROR:" THEN [st EXCEPT !.in_error = TRUE, !.rc = 1]
  ELSE IF line.type \notin {"file", "directory"} THEN st
  ELSE CASE st.kind = "deep-check" -> [st EXCEPT !.counts = CountChecked(@, line)]
         [] st.kind = "deep-check --repair" -> [st EXCEPT !.counts = CountRepaired(@, line)]
         [] st.kind = "manifest" -> [st EXCEPT !.shown = @ \cup {line.node}]
         [] st.kind = "manifest --storage-index" ->
              IF HasIndex(line.node) THEN [st EXCEPT !.shown = @ \cup {line.node}] ELSE st

lineReceived ==
  /\ st.pc = "read" /\ wire # <<>>
  /\ wire' = Tail(wire) /\ st' = Received(Head(wire))
  /\ UNCHANGED <<walker, said>>

(* The end of the answer: done prints the summary, unless in error.        *)
done ==
  /\ st.pc = "read" /\ wire = <<>> /\ walker.status \in {"finished", "failed"}
  /\ OnlySt(NextLocation([st EXCEPT !.summary = st.kind \in {"deep-check", "deep-check --repair"} /\ ~st.in_error]))

(* wait_for_results, poll: an operation that failed, a handle that is gone *)
(* or no connection ends it with 0 too; results are written once finished. *)
poll ==
  /\ st.pc = "poll"
  /\ \/ OnlySt(Exit(0))
     \/ walker.status = "finished" /\ OnlySt([Exit(0) EXCEPT !.summary = TRUE])

(* check: location by location, until one fails.  With --repair the answer *)
(* for an object without storage index lacks what is shown of it.          *)
check_location ==
  /\ st.pc = "ask" /\ st.kind \in {"check", "check --repair"}
  /\ \E n \in Reached \ Unknowns :
       IF st.kind = "check --repair" /\ ~HasIndex(n) THEN OnlySt(Exit(Raised))
       ELSE OnlySt(NextLocation([st EXCEPT !.counts.objects = @ + 1]))

StreamNext ==
  \/ NotAsked \/ Asked \/ start_deep_stats \/ (\E n \in Reached : write_line(n)) \/ finish \/ _error \/ Lost
  \/ lineReceived \/ done \/ poll \/ check_location

StreamSpec == StreamInit /\ [][StreamNext]_streamVars

-----------------------------------------------------------------------------
Known == {l \in said : l.type \in {"file", "directory"}}
Healthy(l) == "pre" \notin DOMAIN l.results \/ l.results.pre
HealthyPost(l) == "post" \notin DOMAIN l.results \/ l.results.post
HowMany(P(_)) == Cardinality({l \in Known : P(l)})

(* A deep-check prints a summary of a location only if the walk reached    *)
(* its end, and then the numbers are those of the nodes that were checked  *)
(* and repaired, literal files among them.                                 *)
SummaryTrue ==
  st.summary =>
    /\ walker.status = "finished" /\ walker.left = {}
    /\ st.kind = "deep-check" =>
         st.counts = [Counts0 EXCEPT !.objects = Cardinality(Known), !.healthy = HowMany(Healthy),
                                     !.unhealthy = HowMany(LAMBDA l : ~Healthy(l))]
    /\ st.kind = "deep-check --repair" =>
         st.counts = [objects |-> Cardinality(Known), healthy |-> HowMany(Healthy),
                      unhealthy |-> HowMany(LAMBDA l : ~Healthy(l)),
                      attempted |-> HowMany(LAMBDA l : l.results.attempted),
                      successful |-> HowMany(LAMBDA l : l.results.attempted /\ l.results.successful),
                      healthy_post |-> HowMany(HealthyPost),
                      unhealthy_post |-> HowMany(LAMBDA l : ~HealthyPost(l))]

(* An exit status of 0 from a manifest, or from a deep-check of one named  *)
(* location, means that the walk reached its end, and that the manifest    *)
(* shows every file and directory; an error that the node met half way is  *)
(* never taken for the end.  (Without a named location, and for stats, the *)
(* status is 0 also after an error.)                                       *)
ExitTrue ==
  st.pc = "exit" /\ st.rc = 0 /\ st.named >= 1 =>
    /\ st.kind \in Streaming => walker.status = "finished"
    /\ st.kind \in {"deep-check", "deep-check --repair"} => st.summary
    /\ st.kind = "manifest" => st.shown = Reached \ Unknowns
    /\ st.kind = "manifest --storage-index" => st.shown = {n \in Reached : HasIndex(n)}
    /\ st.kind \in {"check", "check --repair"} => st.counts.objects = st.named
=============================================================================
