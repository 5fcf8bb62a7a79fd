--------------------------- MODULE HttpImmutable ----------------------------
(***************************************************************************)
(* Uploading an immutable share over the HTTP storage protocol, both ends: *)
(* http_client.py and the adapters of storage_client.py that give it the   *)
(* shape of the Foolscap one, and HTTPServer (http_server.py) with its     *)
(* uploads in progress.  One share of one storage index; the clients race  *)
(* to upload it, each with an upload secret of its own.                    *)
(*                                                                         *)
(* Requests travel on connections of their own, so they are served in any  *)
(* order.  A connection may break: before the server sees the request, or  *)
(* on the way back, when the client learns nothing of what was done.  The  *)
(* storage server behind the protocol (its buckets, incoming directory and *)
(* timeouts) is ImmutableStorage's subject and is reduced here to the one  *)
(* bucket.                                                                 *)
(***************************************************************************)
EXTENDS Integers, Sequences

CONSTANTS Clients,      \* uploading clients
          Chunks,       \* the chunks of the share, as 1..n
          MaxBreaks     \* bound on broken connections and dropped uploads

VARIABLES upload,  \* the upload in progress: [secret, written], or NoUpload
          stored,  \* whose upload was completed and stored, or None
          cl,      \* client -> what it knows and has outstanding
          net,     \* requests on their way: [from, op, chunk]
          left     \* what is left of the bound

uploadVars == <<upload, stored, cl, net, left>>

None == "None"
NoUpload == [secret |-> None, written |-> {}]
NewClient == [st |-> "new", sent |-> {}, finished |-> FALSE, abort |-> "no"]

HttpUploadInit ==
  /\ upload = NoUpload /\ stored = None
  /\ cl = [c \in Clients |-> NewClient]
  /\ net = {} /\ left = MaxBreaks

\* `heard`: the client still waits for the answer.
Request(c, op, k) == [from |-> c, op |-> op, chunk |-> k, heard |-> TRUE]

(* _HTTPStorageServer.allocate_buckets: a fresh upload secret, and a POST. *)
AskToAllocate(c) ==
  /\ cl[c].st = "new"
  /\ cl' = [cl EXCEPT ![c].st = "allocating"]
  /\ net' = net \cup {Request(c, "allocate", 0)}
  /\ UNCHANGED <<upload, stored, left>>

(* _HTTPBucketWriter.write: the chunks are sent without waiting for each   *)
(* other; close only waits for `finished`.                                 *)
AskToWrite(c, k) ==
  /\ cl[c].st = "writing" /\ k \notin cl[c].sent
  /\ cl' = [cl EXCEPT ![c].sent = @ \cup {k}]
  /\ net' = net \cup {Request(c, "write", k)}
  /\ UNCHANGED <<upload, stored, left>>

(* _HTTPBucketWriter.abort.                                                *)
AskToAbort(c) ==
  /\ cl[c].st \in {"writing", "failed"} /\ cl[c].abort = "no"
  /\ cl' = [cl EXCEPT ![c].st = "failed", ![c].abort = "asked"]
  /\ net' = net \cup {Request(c, "abort", 0)}
  /\ UNCHANGED <<upload, stored, left>>

(* validate_upload_secret: the upload in progress is nobody else's.        *)
validate_upload_secret(secret) == upload = NoUpload \/ upload.secret = secret

(* get_write_bucket: the code the request ends with, 0 if it goes on.      *)
get_write_bucket(secret) ==
  IF ~validate_upload_secret(secret) THEN 401
  ELSE IF upload = NoUpload THEN 404 ELSE 0

(* allocate_buckets: the share is already there, being uploaded by someone *)
(* (no bucket, no error), or ours to write.                                *)
allocate_buckets(c) ==
  IF stored # None THEN [code |-> "already", up |-> upload, st |-> stored]
  ELSE IF upload # NoUpload THEN [code |-> "refused", up |-> upload, st |-> stored]
  ELSE [code |-> "allocated", up |-> [secret |-> c, written |-> {}], st |-> stored]

(* write_share_data: the chunk is written; the last one closes the bucket, *)
(* which stores the share and forgets the upload (remove_write_bucket).    *)
write_share_data(c, k) ==
  LET code == get_write_bucket(c)
      w == upload.written \cup {k}
  IN IF code # 0 THEN [code |-> "error", up |-> upload, st |-> stored]
     ELSE IF w = Chunks
     THEN [code |-> "created", up |-> NoUpload, st |-> upload.secret]
     ELSE [code |-> "ok", up |-> [upload EXCEPT !.written = w], st |-> stored]

abort_share_upload_blind(c) == [code |-> "aborted", up |-> NoUpload, st |-> stored]

(* abort_share_upload: without an upload to abort the answer tells whether *)
(* the share was uploaded already.                                         *)
abort_share_upload(c) ==
  LET code == get_write_bucket(c)
  IN IF code = 404 THEN [code |-> IF stored # None THEN "not allowed" ELSE "not found",
                         up |-> upload, st |-> stored]
     ELSE IF code # 0 THEN [code |-> "unauthorized", up |-> upload, st |-> stored]
     ELSE [code |-> "aborted", up |-> NoUpload, st |-> stored]

Serve(r) ==
  IF r.op = "allocate" THEN allocate_buckets(r.from)
  ELSE IF r.op = "abort" THEN abort_share_upload(r.from)
  ELSE write_share_data(r.from, r.chunk)

(* create, write_share_chunk, abort_upload and _HTTPBucketWriter.write:    *)
(* what the client makes of the response; a broken connection, or a code   *)
(* it does not expect, is a failure.                                       *)
_create(k, code) ==
  [k EXCEPT !.st = IF code \in {"already", "refused"} THEN code
                   ELSE IF code = "allocated" THEN "writing" ELSE "gave up"]

_abort_upload(k, code) == [k EXCEPT !.abort = code]

_write_share_chunk(k, code) ==
  IF code = "created" THEN [k EXCEPT !.finished = TRUE]
  ELSE IF code = "ok" THEN k
  ELSE [k EXCEPT !.st = IF @ = "writing" THEN "failed" ELSE @]

Answered(k, op, code) ==
  IF op = "allocate" THEN _create(k, code)
  ELSE IF op = "abort" THEN _abort_upload(k, code) ELSE _write_share_chunk(k, code)

Served(r) ==
  /\ net' = net \ {r}
  /\ \E a \in {Serve(r)}, lost \in BOOLEAN :
       /\ lost => r.heard /\ left > 0
       /\ upload' = a.up /\ stored' = a.st
       /\ cl' = IF r.heard
                THEN [cl EXCEPT ![r.from] = Answered(@, r.op, IF lost THEN "lost" ELSE a.code)]
                ELSE cl
       /\ left' = IF lost THEN left - 1 ELSE left

\* The client's request times out: the server may or may not see it yet.
TimedOut(r) ==
  /\ r.heard /\ left > 0
  /\ left' = left - 1
  /\ cl' = [cl EXCEPT ![r.from] = Answered(@, r.op, "lost")]
  /\ net' \in {net \ {r}, (net \ {r}) \cup {[r EXCEPT !.heard = FALSE]}}
  /\ UNCHANGED <<upload, stored>>

(* A bucket's timeout, or a restart of the server: the upload is gone      *)
(* (external: BucketWriter's timer, StorageServer's cleaning).             *)
UploadDropped ==
  /\ upload # NoUpload /\ left > 0
  /\ left' = left - 1
  /\ upload' = NoUpload
  /\ UNCHANGED <<stored, cl, net>>

HttpUploadNext ==
  \/ \E c \in Clients : AskToAllocate(c) \/ AskToAbort(c) \/ \E k \in Chunks : AskToWrite(c, k)
  \/ \E r \in net : Served(r) \/ TimedOut(r)
  \/ UploadDropped

HttpUploadSpec == HttpUploadInit /\ [][HttpUploadNext]_uploadVars

-----------------------------------------------------------------------------
(* A client that was told its upload is finished finds its share stored,   *)
(* and one whose abort was granted, or found nothing, never does: chunks   *)
(* still on their way when the abort is served write nothing, not even     *)
(* into the upload another client began meanwhile (write_share_data,       *)
(* abort_share_upload, the secrets of UploadsInProgress).                  *)
ToldTheTruth ==
  \A c \in Clients :
    /\ cl[c].finished => stored = c
    /\ cl[c].abort \in {"aborted", "not found"} => stored # c
    /\ cl[c].abort = "not allowed" => stored # None

-----------------------------------------------------------------------------
(***************************************************************************)
(* Reading a range of a share over the HTTP storage protocol: read_range   *)
(* and its producer on the server (http_server.py), read_share_chunk on    *)
(* the client (http_client.py).  The share may be changed, or be gone,     *)
(* between two pieces of the answer, and the connection may break.         *)
(***************************************************************************)
CONSTANTS ReadSize,     \* bytes a producer reads at a time (65536)
          Contents,     \* what the share may hold: sequences of bytes
          Ranges,       \* the ranges asked for: records [offset, length]
          MaxReadBreaks,    \* bound on broken connections
          MaxChanges    \* bound on changes to the share

VARIABLES mutable, \* whether the share is a mutable one
          share,   \* its contents, or Gone
          read,    \* the read in progress
          seen,    \* ghost: contents the share had since the read began
          read_left     \* what is left of the bounds

readVars == <<mutable, share, read, seen, read_left>>

Gone == <<0>>
NoRead == [st |-> "idle", range |-> [offset |-> 0, length |-> 0], remaining |-> 0,
           start |-> 0, supposed |-> 0, body |-> << >>]

HttpReadInit ==
  /\ mutable \in BOOLEAN
  /\ share \in Contents
  /\ read = NoRead /\ seen = {}
  /\ read_left = [breaks |-> MaxReadBreaks, changes |-> MaxChanges]

Slice(s, start, n) == SubSeq(s, start + 1, IF start + n > Len(s) THEN Len(s) ELSE start + n)

(* read_range: a range past the end is shortened, and one with nothing in  *)
(* it is answered by the code alone.                                       *)
read_range(r, share_length) ==
  LET end == IF r.offset + r.length < share_length THEN r.offset + r.length ELSE share_length
  IN IF r.offset >= end THEN [code |-> 204, remaining |-> 0]
     ELSE [code |-> 206, remaining |-> end - r.offset]

(* read_share_chunk/read_mutable_chunk: the length is taken before the     *)
(* first byte is read.                                                     *)
ReadBegins(r) ==
  /\ read.st = "idle"
  /\ LET a == IF share = Gone THEN [code |-> 404, remaining |-> 0]
              ELSE read_range(r, Len(share))
     IN read' = [read EXCEPT !.range = r, !.start = r.offset, !.supposed = a.remaining,
                  !.remaining = a.remaining,
                  !.st = IF a.code = 206 THEN "producing"
                         ELSE IF a.code = 204 THEN "empty" ELSE "failed"]
  /\ seen' = {share}
  /\ UNCHANGED <<mutable, share, read_left>>

(* _ReadRangeProducer.resumeProducing: the next piece; an empty read while *)
(* bytes are owed ends the response early.                                 *)
resumeProducing ==
  /\ read.st = "producing"
  /\ LET n == IF read.remaining < ReadSize THEN read.remaining ELSE ReadSize
         data == IF share = Gone THEN << >> ELSE Slice(share, read.start, n)
         owed == read.remaining - Len(data)
     IN read' = [read EXCEPT !.start = @ + Len(data), !.remaining = owed,
                  !.body = @ \o data,
                  !.st = IF data = << >> \/ owed = 0 THEN "sent" ELSE "producing"]
  /\ UNCHANGED <<mutable, share, seen, read_left>>

\* The connection breaks while the body is being sent.
ReadBreaks ==
  /\ read.st = "producing" /\ read_left.breaks > 0
  /\ read_left' = [read_left EXCEPT !.breaks = @ - 1]
  /\ read' = [read EXCEPT !.st = "sent"]
  /\ UNCHANGED <<mutable, share, seen>>

(* limited_content: a body longer than announced is refused.               *)
limited_content(r) == Len(r.body) <= r.supposed

(* read_share_chunk of the client: the body must be as long as the         *)
(* Content-Range said, and no longer than was asked for.                   *)
read_share_chunk(r) ==
  IF r.supposed > r.range.length \/ ~limited_content(r) \/ Len(r.body) # r.supposed THEN "failed" ELSE "ok"

ReadEnds ==
  /\ read.st = "sent"
  /\ read' = [read EXCEPT !.st = read_share_chunk(read)]
  /\ UNCHANGED <<mutable, share, seen, read_left>>

(* slot_testv_and_readv_and_writev, or the removal of the share, while it  *)
(* is read (external: MutableSlot).  An immutable share can only go.       *)
ShareChanges ==
  /\ read.st = "producing" /\ read_left.changes > 0 /\ share # Gone
  /\ read_left' = [read_left EXCEPT !.changes = @ - 1]
  /\ share' \in (IF mutable THEN Contents \cup {Gone} ELSE {Gone}) \ {share}
  /\ seen' = seen \cup {share'}
  /\ UNCHANGED <<mutable, read>>

HttpReadNext ==
  \/ \E r \in Ranges : ReadBegins(r)
  \/ resumeProducing \/ ReadBreaks \/ ReadEnds \/ ShareChanges

HttpReadSpec == HttpReadInit /\ [][HttpReadNext]_readVars

-----------------------------------------------------------------------------
(* A read that succeeds gave the bytes asked for, as far as the share had  *)
(* them, each as the share held it at some moment of the read; whatever    *)
(* broke or changed meanwhile, no short or shifted answer is taken for     *)
(* the data ("Length of response sent from server ... didn't match").      *)
ReadIsExact ==
  LET At(i) == {s[i] : s \in {t \in seen \ {Gone} : Len(t) >= i}}
  IN /\ read.st = "ok" =>
          /\ Len(read.body) = read.supposed
          /\ \A i \in 1..Len(read.body) : read.body[i] \in At(read.range.offset + i)
          /\ Len(read.body) < read.range.length =>
               \E s \in seen \ {Gone} : Len(s) = read.range.offset + Len(read.body)
     /\ read.st = "empty" =>
          read.range.length = 0 \/ \E s \in seen \ {Gone} : Len(s) <= read.range.offset
=============================================================================
