------------------------------ MODULE SftpFile ------------------------------
(***************************************************************************)
(* A file handle of the SFTP frontend (frontends/sftpd.py): GeneralSFTPFile, *)
(* which queues the requests of a client, and the OverwriteableFileConsumer  *)
(* behind it, which merges the writes of the client with the download of the *)
(* old contents in a temporary file.  At close the temporary file is         *)
(* uploaded.                                                                 *)
(*                                                                           *)
(* A byte of a file is Old (as downloaded), Zero, the number of the write    *)
(* that put it there, or Junk (never written in the temporary file).         *)
(***************************************************************************)
EXTENDS Integers, Sequences, FiniteSets, FiniteSetsExt

CONSTANTS Opens,      \* how the file is opened: [flags, size, short, faults, writes, reads, resizes]
                      \* (size NoFile: there is none yet; then what may fail and how many requests come)
          MaxSize,    \* the end of the largest write
          MaxQueue,   \* requests that wait for one another
          Chunks      \* lengths of the pieces a download comes in

VARIABLES open,   \* the member of Opens
          h,      \* the handle: [has_changed, closed, failed, opened, async, writes, resizes, told]
          c,      \* its consumer
          dl,     \* the download of the old contents: "no", "asked", "going", "over"
          rd,     \* the readChunk requests, in order
          want,   \* the contents the handle stands for
          nested, \* whether an overwrite has been inside another one while both were pending
          stored  \* what close has uploaded (None: nothing)

fileVars == <<open, h, c, dl, rd, want, nested, stored>>

NoFile == -1
Old == -2
Zero == -3
Junk == -4
None == <<NoFile>>

Fill(n, b) == [i \in 1 .. n |-> b]

\* seek(pos), write(data) on the temporary file, and truncate, which extends as well.
Put(f, pos, data) ==
    IF data = <<>> THEN f ELSE
    [i \in 1 .. Max({Len(f), pos + Len(data)}) |->
        IF i \in pos + 1 .. pos + Len(data) THEN data[i - pos]
        ELSE IF i <= Len(f) THEN f[i] ELSE Junk]
Truncate(f, size) == SubSeq(f \o Fill(Max({0, size - Len(f)}), Junk), 1, size)
Extend(f, size) == f \o Fill(size - Len(f), Zero)

-----------------------------------------------------------------------------
(* OverwriteableFileConsumer.  fired holds the reads whose milestone has     *)
(* been passed and whose callbacks wait for the reactor.                     *)

NewConsumer(download_size) ==
    [f |-> <<>>, download_size |-> download_size, current_size |-> download_size,
     downloaded |-> 0, milestones |-> {}, overwrites |-> {}, is_closed |-> FALSE,
     done |-> "no", fired |-> {}]

\* download_done: only the first call counts.
download_done(k, res) ==
    IF k.done # "no" THEN k
    ELSE [k EXCEPT !.done = res, !.milestones = {},
                   !.fired = @ \cup {<<m[2], res>> : m \in k.milestones}]

First(S) == CHOOSE x \in S : \A y \in S : x[1] < y[1] \/ (x[1] = y[1] /\ x[2] <= y[2])

_update_downloaded(k, new_downloaded) ==
    LET head      == First(k.overwrites)
        milestone == IF k.overwrites # {} /\ head[1] <= new_downloaded
                     THEN Max({new_downloaded, head[2]}) ELSE new_downloaded
        passed    == {m \in k.milestones : m[1] <= milestone}
        k1        == [k EXCEPT !.downloaded = new_downloaded, !.milestones = @ \ passed,
                               !.fired = @ \cup {<<m[2], "ok">> : m \in passed}]
    IN  IF k1.milestones = {} /\ milestone >= k.download_size THEN download_done(k1, "ok") ELSE k1

\* Consecutive overwrites are merged: the last one decides where they end.
RECURSIVE Merge(_, _)
Merge(overwrites, end) ==
    IF overwrites = {} \/ First(overwrites)[1] > end THEN [rest |-> overwrites, end |-> end]
    ELSE Merge(overwrites \ {First(overwrites)}, First(overwrites)[2])

\* write(data): data is for the positions downloaded .. upto - 1, without the
\* regions that have been overwritten; next is where the download stands then.
RECURSIVE Lay(_, _, _)
Lay(k, next, upto) ==
    LET start    == First(k.overwrites)[1]
        Data(to) == Put(k.f, k.downloaded, Fill(Max({0, Min({to, upto}) - k.downloaded}), Old))
        m        == Merge(k.overwrites \ {First(k.overwrites)}, First(k.overwrites)[2])
        k1       == [k EXCEPT !.f = IF start > k.downloaded THEN Data(start) ELSE @,
                              !.overwrites = m.rest]
    IN  IF k.overwrites = {} \/ start >= next
        THEN _update_downloaded([k EXCEPT !.f = Data(upto)], next)
        ELSE IF m.end >= next
        THEN _update_downloaded([k1 EXCEPT !.overwrites = @ \cup {<<next, m.end>>}], next)
        ELSE Lay(IF m.end >= k.downloaded THEN _update_downloaded(k1, m.end) ELSE k1, next, upto)

write(k, length) ==
    IF k.is_closed \/ k.downloaded >= k.download_size THEN k
    ELSE Lay(k, k.downloaded + length, Min({k.downloaded + length, k.download_size}))

\* The overwritten region is not remembered: the download may write over it.
overwrite_forgotten(k, offset, data) ==
    [k EXCEPT !.f = Put(Put(@, Min({k.current_size, offset}), Fill(Max({0, offset - k.current_size}), Zero)),
                        offset, data),
              !.current_size = Max({@, offset + Len(data)})]

overwrite(k, offset, data) ==
    LET gap   == Max({0, offset - k.current_size})
        start == offset - gap
        end   == offset + Len(data)
    IN  [k EXCEPT !.f = Put(Put(@, start, Fill(gap, Zero)), offset, data),
                  !.current_size = Max({@, end}),
                  !.overwrites = IF end > k.downloaded THEN @ \cup {<<start, end>>} ELSE @]

set_current_size(k, size) ==
    LET k1 == IF size < k.current_size \/ size < k.downloaded
              THEN [k EXCEPT !.f = Truncate(@, size)] ELSE k
        k2 == IF size > k.current_size
              THEN overwrite(k1, k.current_size, Fill(size - k.current_size, Zero)) ELSE k1
        k3 == [k2 EXCEPT !.current_size = size, !.download_size = Min({@, size})]
    IN  IF k3.downloaded >= k3.download_size THEN download_done(k3, "ok") ELSE k3

\* close of the consumer.
shut(k) == download_done([k EXCEPT !.is_closed = TRUE], "ok")

\* read: the request is answered at once, or waits for a milestone.
needed(k, r) == Min({r.offset + r.length, k.download_size})
Clipped(k, r) == [r EXCEPT !.length = Min({@, k.current_size - r.offset})]

\* _reached_in_read
Reached(k, r, res, view) ==
    IF res # "ok" \/ k.is_closed \/ k.current_size < r.offset + r.length
    THEN [r EXCEPT !.st = "error"]
    ELSE [r EXCEPT !.st = "answered",
                   !.right = SubSeq(k.f, r.offset + 1, r.offset + r.length)
                             = SubSeq(view, r.offset + 1, r.offset + r.length)]

-----------------------------------------------------------------------------
(* GeneralSFTPFile: async is the callback chain, failed whether its result   *)
(* is a Failure, opened whether there is a consumer.                         *)

FileInit ==
    \E o \in Opens :
        LET fresh == "TRUNC" \in o.flags \/ o.size = NoFile
        IN  /\ open = o
            /\ h = [has_changed |-> o.flags \cap {"CREAT", "TRUNC"} # {} /\ "EXCL" \notin o.flags,
                    closed |-> FALSE, failed |-> FALSE, opened |-> fresh, writes |-> 0, resizes |-> 0,
                    told |-> "no", async |-> IF fresh THEN <<>> ELSE << <<"version">> >>]
            /\ c = IF fresh THEN download_done(NewConsumer(0), "ok") ELSE NewConsumer(0)
            /\ dl = IF fresh THEN "no" ELSE "asked"
            /\ rd = <<>> /\ want = <<>> /\ nested = FALSE /\ stored = None

Requested(op) == [h EXCEPT !.async = Append(@, op)]
MayRequest == ~ h.closed /\ Len(h.async) < MaxQueue

readChunk(offset, length) ==
    /\ MayRequest /\ "READ" \in open.flags /\ Len(rd) < open.reads
    /\ rd' = Append(rd, [st |-> "queued", offset |-> offset, length |-> length, right |-> TRUE])
    /\ h' = Requested(<<"read", Len(rd) + 1>>)
    /\ UNCHANGED <<open, c, dl, want, nested, stored>>

writeChunk(offset, length) ==
    /\ MayRequest /\ "WRITE" \in open.flags /\ h.writes < open.writes
    /\ h' = [Requested(<<"write", offset, Fill(length, h.writes + 1)>>) EXCEPT
                !.has_changed = TRUE, !.writes = @ + 1]
    /\ UNCHANGED <<open, c, dl, rd, want, nested, stored>>

setAttrs(size) ==
    /\ MayRequest /\ "WRITE" \in open.flags /\ h.resizes < open.resizes
    /\ h' = [Requested(<<"set", size>>) EXCEPT !.resizes = @ + 1]
    /\ UNCHANGED <<open, c, dl, rd, want, nested, stored>>

\* close: what was changed is committed before the handle is closed.
close ==
    /\ ~ h.closed
    /\ LET commits == open.flags \cap {"WRITE", "CREAT"} # {} /\ h.has_changed
       IN  h' = [h EXCEPT !.closed = TRUE, !.told = IF commits THEN "no" ELSE "ok",
                          !.async = @ \o IF open.short THEN <<>>
                                         ELSE IF commits THEN << <<"commit">>, <<"close">> >>
                                         ELSE << <<"close">> >>]
    /\ UNCHANGED <<open, c, dl, rd, want, nested, stored>>

Op == h.async[1]
At(ops) == h.async # <<>> /\ Op[1] \in ops
Result(failed) == [h EXCEPT !.async = Tail(@), !.failed = failed]

\* open: get_best_readable_version and the start of the download.
_read ==
    /\ At({"version"}) /\ ~ open.short
    /\ \/ /\ h' = [Result(FALSE) EXCEPT !.opened = TRUE]
          /\ c' = NewConsumer(open.size)
          /\ want' = Fill(open.size, Old)
          /\ dl' = "going"
       \/ "version" \in open.faults /\ h' = Result(TRUE) /\ dl' = "over" /\ UNCHANGED <<c, want>>
    /\ UNCHANGED <<open, rd, nested, stored>>

\* What addCallback added is skipped while the result is a Failure; where it
\* added an errback of the request (addCallbacks) the Failure ends there.
\* Without a consumer the callback itself fails, and the request hears nothing.
OnFailure ==
    /\ At({"write", "set", "commit", "read"}) /\ (h.failed \/ ~ h.opened) /\ ~ open.short
    /\ h' = Result(Op[1] \in {"write", "commit"} \/ ~ h.failed)
    /\ rd' = IF Op[1] = "read" THEN [rd EXCEPT ![Op[2]].st = IF h.failed THEN "error" ELSE "lost"] ELSE rd
    /\ UNCHANGED <<open, c, dl, want, nested, stored>>

Inside(S) == \E a, b \in S : a[1] < b[1] /\ b[2] < a[2]

\* The write was promised to the client already when the disk turns out to be full.
_write ==
    /\ At({"write"}) /\ ~ h.failed /\ h.opened
    /\ LET offset == IF "APPEND" \in open.flags THEN c.current_size ELSE Op[2]
       IN  /\ want' = Put(Extend(want, Max({Len(want), offset})), offset, Op[3])
           /\ \/ c' = overwrite(c, offset, Op[3]) /\ h' = Result(FALSE)
              \/ "disk" \in open.faults /\ UNCHANGED c /\ h' = Result(TRUE)
    /\ nested' = (nested \/ Inside(c'.overwrites))
    /\ UNCHANGED <<open, dl, rd, stored>>

_set ==
    /\ At({"set"}) /\ ~ h.failed /\ h.opened
    /\ c' = set_current_size(c, Op[2])
    /\ want' = SubSeq(Extend(want, Max({Len(want), Op[2]})), 1, Op[2])
    /\ nested' = (nested \/ Inside(c'.overwrites))
    /\ h' = Result(FALSE)
    /\ UNCHANGED <<open, dl, rd, stored>>

\* The chain goes on while the read waits for its milestone.
_readChunk ==
    /\ At({"read"}) /\ ~ h.failed /\ h.opened
    /\ LET i == Op[2]
           r == Clipped(c, rd[i])
       IN  IF rd[i].offset >= c.current_size
           THEN rd' = [rd EXCEPT ![i].st = "error"] /\ UNCHANGED c
           ELSE IF c.done # "no" \/ needed(c, r) <= c.downloaded
           THEN rd' = [rd EXCEPT ![i] = Reached(c, r, IF c.done = "no" THEN "ok" ELSE c.done, want)]
                /\ UNCHANGED c
           ELSE /\ rd' = [rd EXCEPT ![i] = [r EXCEPT !.st = "waiting"]]
                /\ c' = [c EXCEPT !.milestones = @ \cup {<<needed(c, r), i>>}]
    /\ h' = Result(FALSE)
    /\ UNCHANGED <<open, dl, want, nested, stored>>

\* The callback of a milestone runs in a later turn.
Fired ==
    /\ \E x \in c.fired :
          /\ rd' = [rd EXCEPT ![x[1]] = Reached(c, rd[x[1]], x[2], want)]
          /\ c' = [c EXCEPT !.fired = @ \ {x}]
    /\ UNCHANGED <<open, h, dl, want, nested, stored>>

\* When the download is done, the temporary file is uploaded and linked, or published.
_commit ==
    /\ At({"commit"}) /\ ~ h.failed /\ h.opened /\ c.done # "no"
    /\ \/ c.done = "ok" /\ stored' = c.f /\ h' = Result(FALSE)
       \/ (c.done # "ok" \/ "upload" \in open.faults) /\ h' = Result(TRUE) /\ UNCHANGED stored
    /\ UNCHANGED <<open, c, dl, rd, want, nested>>

_do_close ==
    /\ At({"close"})
    /\ LET k == IF h.opened THEN shut(c) ELSE c
       IN  /\ c' = k
           /\ h' = [Result(FALSE) EXCEPT
                       !.told = IF @ = "no" THEN IF h.failed \/ (h.opened /\ k.done # "ok")
                                                 THEN "error" ELSE "ok"
                                ELSE @]
    /\ UNCHANGED <<open, dl, rd, want, nested, stored>>

\* The producer hands over a piece, finishes, or fails.
Download ==
    /\ dl = "going"
    /\ \/ \E n \in Chunks :
             c.downloaded < c.download_size /\ c.downloaded + n <= open.size /\ c' = write(c, n) /\ UNCHANGED dl
       \/ c.downloaded >= c.download_size /\ c' = download_done(c, "ok") /\ dl' = "over"
       \/ "download" \in open.faults /\ c' = download_done(c, "failed") /\ dl' = "over"
    /\ UNCHANGED <<open, h, rd, want, nested, stored>>

(* ShortReadOnlySFTPFile: the chain starts with the download of the whole    *)
(* file; a read that comes after one that was told of its failure finds no   *)
(* data, fails on that, and hears nothing.                                   *)
ShortRead ==
    /\ open.short
    /\ \/ /\ At({"version"})
          /\ \/ h' = [Result(FALSE) EXCEPT !.opened = TRUE] /\ c' = write(NewConsumer(open.size), open.size)
                /\ want' = Fill(open.size, Old)
             \/ "download" \in open.faults /\ h' = Result(TRUE) /\ UNCHANGED <<c, want>>
          /\ UNCHANGED rd
       \/ /\ At({"read"})
          /\ h' = Result(~ h.opened /\ ~ h.failed)
          /\ rd' = [rd EXCEPT ![Op[2]] =
                       IF h.failed \/ (h.opened /\ @.offset >= open.size) THEN [@ EXCEPT !.st = "error"]
                       ELSE IF ~ h.opened THEN [@ EXCEPT !.st = "lost"]
                       ELSE Reached(c, Clipped(c, @), "ok", want)]
          /\ UNCHANGED <<c, want>>
    /\ UNCHANGED <<open, dl, nested, stored>>

FileNext ==
    \/ \E offset \in 0 .. MaxSize - 1 : \E length \in 1 .. MaxSize - offset :
          readChunk(offset, length) \/ writeChunk(offset, length)
    \/ \E size \in 0 .. MaxSize : setAttrs(size)
    \/ close \/ _read \/ OnFailure \/ _write \/ _set \/ _readChunk \/ Fired
    \/ _commit \/ _do_close \/ Download \/ ShortRead

FileSpec == FileInit /\ [][FileNext]_fileVars

-----------------------------------------------------------------------------
(* A close that reports success has uploaded what the client wrote on top of *)
(* what was there: however reads, writes, truncations and the pieces of the  *)
(* download were interleaved, the committed file has every written byte,     *)
(* zeros where the file was extended and downloaded bytes elsewhere (close,  *)
(* _commit).  Left out are writes that fail, and an overwrite inside another *)
(* one that is still to be downloaded: merging the two regions keeps the end *)
(* of the inner one (write, end = end1), and the download clobbers the rest. *)
CommitsTheContents ==
    stored # None /\ ~ nested /\ "disk" \notin open.faults => stored = want

(* A read that is answered with data gets the bytes of the file as it stands *)
(* then, never the garbage of a region that has not been downloaded          *)
(* (OverwriteableFileConsumer.read and its milestones).                      *)
ReadsTheContents == ~ nested => \A i \in DOMAIN rd : rd[i].right

(* When the chain is empty, the download is over and no callback is pending, *)
(* no read still waits for a milestone: truncation, failure and close fire   *)
(* the milestones that cannot be reached any more (download_done).           *)
NoReadForgotten ==
    h.async = <<>> /\ dl # "going" /\ c.fired = {} => \A i \in DOMAIN rd : rd[i].st # "waiting"
=============================================================================
