----------------------------- MODULE Downloader -----------------------------
(***************************************************************************)
(* Reading an immutable file: the ShareFinder that asks servers which       *)
(* shares they hold, the SegmentFetcher that picks shares and collects K    *)
(* validated blocks of one segment, the Shares (module DownloadShare), the  *)
(* DownloadNode that queues segment requests, decodes and checks segments,  *)
(* and one Segmentation per read() call (immutable/downloader/).            *)
(*                                                                          *)
(* All of it runs in one reactor thread.  Calls made with eventually() wait *)
(* in the queue q, in order; answers of servers, timers, the decoding       *)
(* thread and the consumers come in between at any time.                    *)
(***************************************************************************)
EXTENDS Integers, Sequences, FiniteSets, SequencesExt

CONSTANTS Servers,     \* the servers in the order of get_servers_for_psi
          FileSize, K, N,
          Readers,     \* read() calls
          Grids,       \* what the servers may hold, how it was encoded, who
                       \* reads and what may happen meanwhile
          max_outstanding_requests

VARIABLES grid,  \* the world outside: [segsize, guessmax, overrun, holds, flaw, mixed],
                 \* readers: the read() calls that are made, stops: those whose
                 \* consumer may call stopProducing, and at most so many errors
                 \* of remote calls and pauses of consumers
          fd,    \* ShareFinder
          nd,    \* DownloadNode
          sf,    \* nd's _active_segment, a SegmentFetcher (NoFetcher: None)
          sh,    \* the Shares found so far: <<server, shnum>> -> Share
          rd,    \* the Segmentations
          q,     \* the eventual-send queue
          env    \* [errors, pauses, erred, stopped]: what the outside has done

vars == <<grid, fd, nd, sf, sh, rd, q, env>>

D == INSTANCE DownloadShare
        WITH SegSize <- grid.segsize, GuessMax <- grid.guessmax
NoSeg == D!NoSeg

Holds(v) == grid.holds[v]                \* share numbers on server v
Place == (1 .. Len(Servers)) \X (0 .. N - 1)
\* _dyhb_rtt, then shnum: servers are numbered in the order of their round trips.
Sooner(a, b) == a[1] < b[1] \/ (a[1] = b[1] /\ a[2] < b[2])
Sorted(S) == SetToSortSeq(S, Sooner)

NoFetcher == [seg |-> NoSeg]
Fetcher(seg, shares) ==
    [seg |-> seg, shares |-> Sorted(shares), max |-> 1, active |-> {}, blocks |-> {},
     nomore |-> FALSE, running |-> TRUE]

\* eventually(): a loop that is queued already will see everything its next
\* call would see.
Loops == {<<"fetcher">>, <<"finder">>}
Eventually(queue, e) == IF e \in Loops /\ e \in Range(queue) THEN queue ELSE Append(queue, e)

NewFinder == [hungry |-> FALSE, left |-> [i \in 1 .. Len(Servers) |-> i],
              pending |-> {}, overdue |-> {}, timers |-> {}]

NewNode == [ueb |-> FALSE, requests |-> <<>>, decoding |-> FALSE, shares |-> {},
            sht |-> D!H!IncompleteHashTree(N),
            cht |-> D!H!IncompleteHashTree(D!guessed_num_segments),
            bht |-> <<>>]

NewSegmentation(offset, size) ==
    [st |-> "new", alive |-> FALSE, hungry |-> TRUE, seg |-> NoSeg, active |-> FALSE,
     guessed |-> FALSE, offset |-> offset, size |-> size, sent |-> <<>>, error |-> ""]

Init ==
    /\ grid \in Grids
    /\ fd = NewFinder
    /\ nd = NewNode
    /\ sf = NoFetcher
    /\ sh = <<>>
    /\ rd = [r \in DOMAIN Readers |-> NewSegmentation(Readers[r][1], Readers[r][2])]
    /\ q = <<>>
    /\ env = [errors |-> 0, pauses |-> 0, erred |-> {}, stopped |-> FALSE]

-----------------------------------------------------------------------------
(* A handler calls others that change several objects in one turn: the      *)
(* operators below take and return the record w of all of them.             *)
World == [fd |-> fd, nd |-> nd, sf |-> sf, sh |-> sh, rd |-> rd, q |-> q]
Become(w) == /\ fd' = w.fd /\ nd' = w.nd /\ sf' = w.sf
             /\ sh' = w.sh /\ rd' = w.rd /\ q' = w.q
Tell(w, e) == [w EXCEPT !.q = Eventually(@, e)]
TellAll(w, es) == [w EXCEPT !.q = @ \o es]

Shnum(p) == p[2]
Active(f) == {Shnum(p) : p \in f.active}
Blocks(f) == {b[1] : b \in f.blocks}
segment_size(w) == IF w.nd.ueb THEN grid.segsize ELSE D!guessed_segment_size

-----------------------------------------------------------------------------
(* Share, as seen by its callers *)

schedule_loop(w, p) ==
    IF w.sh[p].scheduled THEN w
    ELSE Tell([w EXCEPT !.sh[p].scheduled = TRUE], <<"share", p>>)

get_block(w, p) == schedule_loop([w EXCEPT !.sh[p].seg = w.sf.seg], p)

\* Share.loop; what it tells the observer of its block request goes through
\* the queue to SegmentFetcher._block_request_activity.
after_loop(w, p, r) ==
    TellAll([w EXCEPT !.sh[p] = r.s, !.nd.ueb = r.ueb, !.nd.sht = r.sht,
                      !.nd.cht = r.cht, !.nd.bht = r.bht],
            [i \in DOMAIN r.out |-> <<"block", p, r.out[i][1], r.out[i][2]>>])

share_loop(w, p) ==
    after_loop(w, p, D!loop([s |-> w.sh[p], ueb |-> w.nd.ueb, sht |-> w.nd.sht,
                             cht |-> w.nd.cht, bht |-> w.nd.bht,
                             out |-> <<>>, go |-> TRUE, retired |-> FALSE],
                            grid.flaw[p], Shnum(p), grid.overrun))

-----------------------------------------------------------------------------
(* ShareFinder *)

hungry(w) == Tell([w EXCEPT !.fd.hungry = TRUE], <<"finder">>)

finder_loop(w) ==
    LET f == w.fd
    IN  IF ~ f.hungry \/ Cardinality(f.pending \ f.overdue) >= max_outstanding_requests
        THEN w
        ELSE IF f.left # <<>>           \* send_request
        THEN Tell([w EXCEPT !.fd.left = Tail(@), !.fd.pending = @ \cup {Head(f.left)},
                            !.fd.timers = @ \cup {Head(f.left)}], <<"finder">>)
        ELSE IF f.pending # {} THEN w
        ELSE Tell(w, <<"no_more_shares">>)

request_retired(w, v) ==
    [w EXCEPT !.fd.pending = @ \ {v}, !.fd.overdue = @ \ {v}, !.fd.timers = @ \ {v}]

\* _got_response, _create_share and _deliver_shares
got_response(w, v) ==
    LET found == {v} \X Holds(v)
        fresh == Holds(v) \ DOMAIN w.nd.bht
        tree  == D!H!IncompleteHashTree(D!best_num_segments(w.nd.ueb))
    IN  IF found = {} THEN w
        ELSE Tell([w EXCEPT !.sh = @ @@ [p \in found |-> D!NewShare],
                            !.nd.bht = @ @@ [n \in fresh |-> tree],
                            !.fd.hungry = FALSE],
                  <<"got_shares", found>>)

-----------------------------------------------------------------------------
(* SegmentFetcher *)

\* stop: the block requests are cancelled.  Calls already queued for a fetcher
\* that has stopped return at once, so they are taken out of the queue.
ToFetcher(e) == e[1] \in {"fetcher", "block"}
stop(w) ==
    [w EXCEPT !.sh = [p \in DOMAIN @ |-> IF p \in w.sf.active THEN [@[p] EXCEPT !.seg = NoSeg]
                                                              ELSE @[p]],
              !.sf.running = FALSE, !.sf.active = {}, !.sf.shares = <<>>,
              !.q = SelectSeq(@, LAMBDA e : ~ ToFetcher(e))]

\* The fetcher is not woken up by the shares it gets.
add_shares_silent(w, shares) ==
    IF ~ w.sf.running THEN w ELSE [w EXCEPT !.sf.shares = Sorted(Range(@) \cup shares)]

\* add_shares: a fetcher that has stopped has no list of shares left; the
\* AttributeError ends up in the log.
add_shares(w, shares) ==
    IF ~ w.sf.running THEN w
    ELSE Tell([w EXCEPT !.sf.shares = Sorted(Range(@) \cup shares)], <<"fetcher">>)

\* The while loop of _do_loop with _find_and_use_share: start block requests
\* until K shares are in hand or under way, one server being asked for more
\* than max blocks only when there is no other choice.
RECURSIVE fill(_)
fill(w) ==
    LET f       == w.sf
        have    == Blocks(f) \cup Active(f)
        useful  == {i \in DOMAIN f.shares : Shnum(f.shares[i]) \notin have}
        Load(i) == Cardinality({p \in f.active : p[1] = f.shares[i][1]})
        allowed == {i \in useful : Load(i) < f.max}
        first   == CHOOSE i \in allowed : \A j \in allowed : i <= j
        more    == IF f.nomore THEN w ELSE hungry(w)      \* _ask_for_more_shares
    IN  IF Cardinality(have) >= K THEN [w |-> w, starved |-> FALSE]
        ELSE IF allowed # {}
        THEN fill(get_block([w EXCEPT !.sf.shares = RemoveAt(@, first),
                                      !.sf.active = @ \cup {f.shares[first]}],
                            f.shares[first]))
        ELSE IF useful # {} THEN fill([more EXCEPT !.sf.max = @ + 1])
        ELSE [w |-> more, starved |-> f.nomore]

-----------------------------------------------------------------------------
(* DownloadNode *)

start_new_segment(w) ==
    IF w.sf # NoFetcher \/ w.nd.requests = <<>> THEN w
    ELSE Tell([w EXCEPT !.sf = Fetcher(w.nd.requests[1].seg,
                                       {p \in w.nd.shares : w.sh[p].alive})],
              <<"fetcher">>)

get_segment(w, r, seg) ==
    start_new_segment([w EXCEPT !.nd.requests = Append(@, [seg |-> seg, r |-> r]),
                                !.rd[r].active = TRUE])

\* _extract_requests, a _deliver for each, and on to the next segment.
retire(w, seg, result) ==
    LET mine == SelectSeq(w.nd.requests, LAMBDA t : t.seg = seg)
        rest == SelectSeq(w.nd.requests, LAMBDA t : t.seg # seg)
    IN  start_new_segment(
            TellAll([w EXCEPT !.nd.requests = rest, !.sf = NoFetcher],
                    [i \in DOMAIN mine |-> <<"deliver", mine[i].r, result>>]))

fetch_failed(w, error) == retire(w, w.sf.seg, [ok |-> FALSE, error |-> error])

\* SegmentFetcher.loop; with K blocks the node starts decoding them in a
\* thread, and until that is done the stopped fetcher stays _active_segment.
fetcher_loop(w) ==
    LET f == fill(w)
    IN  IF ~ w.sf.running THEN w
        ELSE IF w.nd.ueb /\ w.sf.seg >= D!num_segments
        THEN fetch_failed(stop(w), "BadSegmentNumberError")
        ELSE IF f.starved THEN fetch_failed(stop(f.w), "NotEnoughSharesError")
        ELSE IF Cardinality(f.w.sf.blocks) >= K
        THEN [stop(f.w) EXCEPT !.nd.decoding = TRUE]
        ELSE f.w

block_request_activity(w, p, state, true) ==
    Tell([w EXCEPT !.sf.active = @ \ {p},
                   !.sf.blocks = IF state = "COMPLETE" THEN @ \cup {<<Shnum(p), true>>} ELSE @],
         <<"fetcher">>)

\* The shares are not kept for the fetchers of later segments.
got_shares_once(w, found) == IF w.sf = NoFetcher THEN w ELSE add_shares(w, found)

got_shares(w, found) ==
    LET known == [w EXCEPT !.nd.shares = @ \cup found]
    IN  IF w.sf = NoFetcher THEN known ELSE add_shares(known, found)

no_more_shares(w) ==
    IF w.sf = NoFetcher \/ ~ w.sf.running THEN w ELSE Tell([w EXCEPT !.sf.nomore = TRUE], <<"fetcher">>)

\* _cancel_request.  stop() of a fetcher that has stopped already, which is the
\* case while its blocks are being decoded, raises an AttributeError.
cancel_request(w, r) ==
    LET left   == SelectSeq(w.nd.requests, LAMBDA t : t.r # r)
        w1     == [w EXCEPT !.nd.requests = left]
        wanted == \E i \in DOMAIN left : left[i].seg = w.sf.seg
    IN  IF w.sf = NoFetcher \/ wanted THEN [w |-> w1, raised |-> FALSE]
        ELSE IF ~ w.sf.running THEN [w |-> w1, raised |-> TRUE]
        ELSE [w |-> start_new_segment([stop(w1) EXCEPT !.sf = NoFetcher]), raised |-> FALSE]

-----------------------------------------------------------------------------
(* Segmentation *)

fetch_next(w, r) ==
    LET s   == w.rd[r]
        seg == IF s.offset = 0 THEN 0 ELSE s.offset \div segment_size(w)
    IN  IF s.size = 0
        THEN [w EXCEPT !.rd[r].alive = FALSE, !.rd[r].hungry = FALSE, !.rd[r].st = "done"]
        ELSE get_segment([w EXCEPT !.rd[r].seg = seg, !.rd[r].guessed = ~ w.nd.ueb], r, seg)

maybe_fetch_next(w, r) ==
    IF ~ w.rd[r].alive \/ ~ w.rd[r].hungry \/ w.rd[r].seg # NoSeg THEN w
    ELSE fetch_next(w, r)

seg_error(w, r, error) ==     \* _error
    [w EXCEPT !.rd[r].alive = FALSE, !.rd[r].hungry = FALSE, !.rd[r].st = "failed",
              !.rd[r].error = error]

\* A segment is written from its first byte, wherever the read starts.
got_segment_whole(w, r, result, pause) ==
    maybe_fetch_next(
        [w EXCEPT !.rd[r].sent = @ \o [i \in 1 .. result.len |-> <<result.start + i - 1, result.true>>],
                  !.rd[r].offset = result.start + result.len,
                  !.rd[r].size = IF @ > result.len THEN @ - result.len ELSE 0,
                  !.rd[r].hungry = @ /\ ~ pause], r)

\* _got_segment: the part of the read that starts at its first missing byte;
\* the consumer may pause us from inside its write().
got_segment(w, r, result, pause) ==
    LET s    == w.rd[r]
        end  == Min({result.start + result.len, s.offset + s.size})
        hit  == result.start <= s.offset /\ s.offset < end
        new  == [i \in 1 .. end - s.offset |-> <<s.offset + i - 1, result.true>>]
        got  == [w EXCEPT !.rd[r].sent = @ \o new, !.rd[r].offset = end,
                          !.rd[r].size = @ - Len(new),
                          !.rd[r].hungry = @ /\ ~ pause]
    IN  IF hit THEN maybe_fetch_next(got, r)
        ELSE IF s.guessed THEN maybe_fetch_next(w, r)     \* WrongSegmentError
        ELSE seg_error(w, r, "WrongSegmentError")

\* _deliver and the callbacks of _fetch_next.
deliver(w, r, result, pause) ==
    LET retired == [w EXCEPT !.rd[r].active = FALSE, !.rd[r].seg = NoSeg]
    IN  IF ~ w.rd[r].active THEN w
        ELSE IF result.ok THEN got_segment(retired, r, result, pause)
        ELSE IF result.error = "BadSegmentNumberError" /\ w.rd[r].guessed
        THEN maybe_fetch_next(retired, r)                 \* _retry_bad_segment
        ELSE seg_error(retired, r, result.error)

-----------------------------------------------------------------------------
(* Actions *)

\* One call of the eventual-send queue.
Handle(w, e, pause) ==
    CASE e[1] = "finder"         -> finder_loop(w)
      [] e[1] = "got_shares"     -> got_shares(w, e[2])
      [] e[1] = "no_more_shares" -> no_more_shares(w)
      [] e[1] = "fetcher"        -> fetcher_loop(w)
      [] e[1] = "block"          -> block_request_activity(w, e[2], e[3], e[4])
      [] e[1] = "share"          -> share_loop(w, e[2])
      [] e[1] = "fetch"          -> maybe_fetch_next(w, e[2])
      [] e[1] = "deliver"        -> deliver(w, e[2], e[3], pause)

Turn ==
    /\ q # <<>>
    /\ \E w \in {Handle([World EXCEPT !.q = Tail(q)], Head(q), FALSE)} : Become(w)
    /\ UNCHANGED <<grid, env>>

\* The same, for a segment whose consumer pauses us while it is written.
DeliverAndPause ==
    /\ q # <<>> /\ Head(q)[1] = "deliver" /\ env.pauses < grid.pauses
    /\ rd[Head(q)[2]].active /\ Head(q)[3].ok
    /\ \E w \in {Handle([World EXCEPT !.q = Tail(q)], Head(q), TRUE)} : Become(w)
    /\ env' = [env EXCEPT !.pauses = @ + 1]
    /\ UNCHANGED grid

\* DownloadNode.read
Read(r) ==
    /\ r \in grid.readers /\ rd[r].st = "new"
    /\ \E w \in {IF rd[r].size = 0 THEN [World EXCEPT !.rd[r].st = "done"]
                 ELSE maybe_fetch_next([World EXCEPT !.rd[r].st = "reading",
                                                     !.rd[r].alive = TRUE], r)} : Become(w)
    /\ UNCHANGED <<grid, env>>

resumeProducing(r) ==
    /\ rd[r].st = "reading" /\ ~ rd[r].hungry
    /\ Become(Tell([World EXCEPT !.rd[r].hungry = TRUE], <<"fetch", r>>))
    /\ UNCHANGED <<grid, env>>

\* stopProducing: when cancelling raises, the read's Deferred never fires.
stopProducing(r) ==
    /\ r \in grid.stops /\ rd[r].st = "reading"
    /\ \E w \in {[World EXCEPT !.rd[r].hungry = FALSE, !.rd[r].alive = FALSE,
                               !.rd[r].active = FALSE]} :
       \E c \in {IF rd[r].active THEN cancel_request(w, r) ELSE [w |-> w, raised |-> FALSE]} :
          Become([c.w EXCEPT !.rd[r].st = IF c.raised THEN "hung" ELSE "stopped"])
    /\ env' = [env EXCEPT !.stopped = TRUE]
    /\ UNCHANGED grid

\* The answer of server v to get_buckets.
AnswerDyhb(v) ==
    /\ v \in fd.pending
    /\ \E w \in {Tell(got_response(request_retired(World, v), v), <<"finder">>)} : Become(w)
    /\ UNCHANGED <<grid, env>>

\* get_buckets fails: _got_error only logs.
DyhbError(v) ==
    /\ v \in fd.pending /\ env.errors < grid.errors
    /\ Become(Tell(request_retired(World, v), <<"finder">>))
    /\ env' = [env EXCEPT !.errors = @ + 1, !.erred = @ \cup ({v} \X Holds(v))]
    /\ UNCHANGED grid

\* overdue: the timer of a request fires before its answer.
Overdue(v) ==
    /\ v \in fd.timers
    /\ Become(Tell([World EXCEPT !.fd.timers = @ \ {v}, !.fd.overdue = @ \cup {v}],
                   <<"finder">>))
    /\ UNCHANGED <<grid, env>>

Region(p, front) == {part \in sh[p].pending : D!Front(part) = front}

\* The answer to a read of the asked-for parts of one region of share p.
AnswerRead(p, front) ==
    /\ p \in DOMAIN sh /\ Region(p, front) # {}
    /\ LET got == [World EXCEPT !.sh[p] = D!got_data(@, grid.flaw[p], Region(p, front))]
       IN  Become(IF sh[p].alive THEN schedule_loop(got, p)
                  ELSE [World EXCEPT !.sh[p].pending = @ \ Region(p, front)])
    /\ UNCHANGED <<grid, env>>

\* _got_error and _fail
ReadError(p, front) ==
    /\ p \in DOMAIN sh /\ Region(p, front) # {} /\ env.errors < grid.errors
    /\ Become(TellAll([World EXCEPT !.sh[p].alive = FALSE,
                                    !.sh[p].pending = @ \ Region(p, front)],
                      IF sh[p].seg = NoSeg THEN <<>>
                      ELSE << <<"block", p, "DEAD", FALSE>> >>))
    /\ env' = [env EXCEPT !.errors = @ + 1, !.erred = @ \cup {p}]
    /\ UNCHANGED grid

\* The thread that decodes has finished: _process, _check_ciphertext_hash and
\* the delivery of process_blocks.  A mixed encoding is one whose uploader made
\* the shares from different ciphertexts.
Decoded ==
    /\ nd.decoding
    /\ LET seg   == sf.seg
           true  == (\A b \in sf.blocks : b[2]) /\ ~ grid.mixed
           check == D!H!set_hashes(nd.cht, D!NoLeaves,
                                   [l \in {seg} |-> IF true THEN D!Ok ELSE D!Bad])
           len   == IF seg = D!num_segments - 1
                    THEN D!sizes(grid.segsize).tail_segment_size ELSE grid.segsize
           done  == [World EXCEPT !.nd.decoding = FALSE, !.nd.cht = check.tree]
           result == IF check.ok THEN [ok |-> TRUE, start |-> seg * grid.segsize,
                                       len |-> len, true |-> true]
                     ELSE [ok |-> FALSE, error |-> "BadCiphertextHashError"]
       IN  \E w \in {retire(done, seg, result)} : Become(w)
    /\ UNCHANGED <<grid, env>>

Next ==
    \/ Turn \/ DeliverAndPause \/ Decoded
    \/ \E r \in DOMAIN rd : Read(r) \/ resumeProducing(r) \/ stopProducing(r)
    \/ \E v \in 1 .. Len(Servers) : AnswerDyhb(v) \/ DyhbError(v) \/ Overdue(v)
    \/ \E p \in Place, front \in BOOLEAN : AnswerRead(p, front) \/ ReadError(p, front)

\* The reactor empties the queue, the decoding thread finishes, every remote
\* call is answered or fails (a lost connection fails its calls), and a paused
\* consumer resumes in the end.  Each formula says of one of them what weak
\* fairness would: its step, once it is due, does not stay due for ever.
Fairness ==
    /\ []<>(q = <<>>)
    /\ []<>(~ nd.decoding)
    /\ \A v \in 1 .. Len(Servers) : []<>(v \notin fd.pending)
    /\ \A p \in Place, front \in BOOLEAN : []<>(p \notin DOMAIN sh \/ Region(p, front) = {})
    /\ \A r \in DOMAIN Readers : []<>(rd[r].st = "reading" => rd[r].hungry)

Spec == Init /\ [][Next]_vars /\ Fairness

-----------------------------------------------------------------------------
(* Properties *)

(* A read hands its consumer the bytes of its range in order, each once,    *)
(* without a gap and only from segments that decoded to the true            *)
(* ciphertext, whatever was guessed about the segment size, whichever       *)
(* shares were corrupt and however other reads were interleaved; a read     *)
(* that says it is done has handed over the whole range (Segmentation,      *)
(* process_blocks, Share._satisfy_data_block).                              *)
RightBytes ==
    \A r \in DOMAIN rd :
        /\ rd[r].sent = [i \in 1 .. rd[r].offset - Readers[r][1] |->
                            <<Readers[r][1] + i - 1, TRUE>>]
        /\ rd[r].offset + rd[r].size = Readers[r][1] + Readers[r][2]
        /\ rd[r].st = "done" => rd[r].size = 0

(* A read fails for want of shares only when fewer than K different shares  *)
(* are free of flaws on servers that answered: no share is lost between the *)
(* finder, the node and a fetcher, and none is given up because of a copy   *)
(* of it that is bad (SegmentFetcher._no_shares_error).                     *)
FailsOnlyWhenShort ==
    \A r \in DOMAIN rd :
        rd[r].error = "NotEnoughSharesError" =>
            Cardinality({n \in 0 .. N - 1 :
                \E v \in 1 .. Len(Servers) :
                    /\ n \in Holds(v) /\ grid.flaw[<<v, n>>] = <<"none">>
                    /\ <<v, n>> \notin env.erred}) < K

(* The finder's bookkeeping survives answers that race their timers: what   *)
(* is overdue or timed is still pending (the assertion in overdue()), never *)
(* more than the limit is pending in time, and a fetcher that is running    *)
(* has at most one block request under way for a share number.              *)
RequestsBounded ==
    /\ fd.overdue \cup fd.timers \subseteq fd.pending
    /\ fd.overdue \cap fd.timers = {}
    /\ Cardinality(fd.timers) <= max_outstanding_requests
    /\ sf # NoFetcher /\ sf.running =>
          Cardinality(Active(sf)) = Cardinality(sf.active)

(* No share is lost sight of, and none asked for too often.                 *)
SharesAccounted == FailsOnlyWhenShort /\ RequestsBounded

Ended(r) == rd[r].st \in {"done", "failed", "stopped"}
Undisturbed == env.errors = 0 /\ ~ env.stopped

(* Every read whose servers answer ends, in success or in failure, when no  *)
(* consumer stops early and no call fails (DownloadNode.read: a Deferred    *)
(* that fires when the read is finished).                                   *)
ReadsEnd ==
    \A r \in DOMAIN Readers : rd[r].st = "reading" ~> (Ended(r) \/ ~ Undisturbed)

-----------------------------------------------------------------------------
(* A file of four bytes, 2-of-3 encoded, share 1 on both of two servers; one *)
(* or two reads of it, of its second half and of its first.                  *)
Fine == <<"none">>
Flawless == [p \in Place |-> Fine]
Flawed(p, f) == [Flawless EXCEPT ![p] = f]

MCServers == <<"s1", "s2">>
MCReaders == << <<2, 2>>, <<0, 2>>, <<0, 0>> >>

\* Segments of two bytes as guessed, no fault, one read.
Plain ==
    [segsize |-> 2, guessmax |-> 2, overrun |-> TRUE, holds |-> << {0, 1}, {1, 2} >>,
     flaw |-> Flawless, mixed |-> FALSE,
     readers |-> {1}, stops |-> {}, errors |-> 0, pauses |-> 0]

Parts == {"offsets", "data", "crypttext_hash_tree", "block_hashes", "share_hashes", "ueb"}

\* One share is bad or ends early in one of its parts, or the encoding is wrong.
Damaged == {[Plain EXCEPT !.flaw = Flawed(<<1, 0>>, f)] :
                f \in ({"bad", "short"} \X Parts) \ {<<"short", "offsets">>}}
           \cup {[Plain EXCEPT !.mixed = TRUE]}

\* The segment size is guessed too large or too small, the server does not
\* tolerate reads past the end, a remote call fails, or two reads are under
\* way and one may be stopped.
TwoReads == [Plain EXCEPT !.readers = {1, 2, 3}, !.holds = << {0}, {1} >>]
Disturbed ==
    {[Plain EXCEPT !.guessmax = 4, !.pauses = 1],
     [Plain EXCEPT !.segsize = 4, !.pauses = 1],
     [Plain EXCEPT !.overrun = FALSE],
     [Plain EXCEPT !.errors = 1],
     TwoReads,
     [TwoReads EXCEPT !.stops = {2}]}

MCGrids == Damaged \cup Disturbed
=============================================================================
