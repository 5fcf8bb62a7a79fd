-------------------------- MODULE ImmutableStorage --------------------------
(***************************************************************************)
(* The immutable side of a storage server: storage/server.py (class        *)
(* StorageServer and its Foolscap wrapper), storage/immutable.py           *)
(* (BucketWriter), the immutable endpoints of storage/http_server.py, and  *)
(* what storage/expirer.py does to one bucket of shares.                   *)
(*                                                                         *)
(* A share lives at a path: in incoming/ while a BucketWriter writes it,   *)
(* in its final home once the writer is closed.  Every operation on a file *)
(* goes through the path, never through the object that created it, which  *)
(* is why an event that arrives late for an old writer (a timeout, a lost  *)
(* connection, a remote call) could hit the file of a younger one.         *)
(***************************************************************************)
EXTENDS Integers, FiniteSets, FiniteSetsExt

CONSTANTS
  SI,          \* storage indexes
  ShNum,       \* share numbers
  Client,      \* clients: one lease secret, upload secret and connection each
  NoClient,    \* the client of a writer that does not exist yet
  Val,         \* what a client may write at a position of a share
  Hole,        \* a position nobody has written
  NoFile,      \* what a path holds when no file is there
  Size,        \* allocated_size of every upload, in positions
  Capacity,    \* free space of an empty disk, less reserved_space
  LeaseSize,   \* space taken by one lease record
  MaxGen,      \* bound: BucketWriters created per path between two restarts
  Epoch,       \* the time at which the run starts
  MaxNow,      \* bound: the time at which the clock stops
  Duration,    \* DEFAULT_RENEWAL_TIME (31 days)
  ReadOnly,    \* readonly_storage
  Mode,        \* expiration mode: "off", "age" or "cutoff-date"
  Override,    \* expiration_override_lease_duration, 0 for None
  Cutoff       \* expiration_cutoff_date

Path == SI \X ShNum
Pos  == 0 .. (Size - 1)
Gen  == 1 .. MaxGen
Time == Epoch .. MaxNow

(* expiration time of the lease each client holds, 0 when it holds none *)
Leases == [Client -> {0} \cup (Epoch + Duration .. MaxNow + Duration)]
File   == [data : [Pos -> Val \cup {Hole}], leases : Leases]

ASSUME ConstantsOK ==
  /\ IsFiniteSet(SI) /\ IsFiniteSet(ShNum) /\ IsFiniteSet(Client)
  /\ Size \in Nat \ {0} /\ Capacity \in Nat /\ LeaseSize \in Nat /\ MaxGen \in Nat
  /\ Epoch \in Nat \ {0} /\ MaxNow \in Nat /\ Epoch <= MaxNow
  /\ Duration \in Nat /\ Override \in Nat /\ Cutoff \in Nat
  /\ ReadOnly \in BOOLEAN /\ Mode \in {"off", "age", "cutoff-date"}
  /\ Hole \notin Val /\ NoFile \notin File /\ NoClient \notin Client

VARIABLES
  now,       \* the clock
  up,        \* the server process is running
  quiet,     \* the clients have stopped sending requests
  shares,    \* final homes
  incoming,  \* incoming/
  writers,   \* the BucketWriter objects of each path, oldest first
  born,      \* how many there are
  registry,  \* StorageServer._bucket_writers: the writer of a path, 0 for none
  uploads,   \* UploadsInProgress of the HTTP server: likewise
  told,      \* history: when a client was last promised the share of a path
  created    \* history: the paths whose upload was answered with CREATED

vars == <<now, up, quiet, shares, incoming, writers, born, registry, uploads,
          told, created>>

(***************************************************************************)
(* A BucketWriter.  marker is the canary's disconnect marker: registered   *)
(* with the connection, or fired (its callback is in the event queue,      *)
(* where dontNotifyOnDisconnect no longer reaches it).                     *)
(***************************************************************************)
Writer == [state  : {"unborn", "open", "closed"},
           timer  : BOOLEAN,
           via    : {"foolscap", "http"},
           client : Client \cup {NoClient},
           ref    : BOOLEAN,   \* a Foolscap client can still call it
           marker : {"none", "registered", "fired"}]

NoWriters == [g \in Gen |->
  [state |-> "unborn", timer |-> FALSE, via |-> "http",
   client |-> NoClient, ref |-> FALSE, marker |-> "none"]]

NewWriter(c, proto) ==
  [state |-> "open", timer |-> TRUE, via |-> proto, client |-> c,
   ref |-> (proto = "foolscap"),
   marker |-> IF proto = "foolscap" THEN "registered" ELSE "none"]

Closed(w) ==
  [w EXCEPT !.state = "closed", !.timer = FALSE,
            !.marker = IF @ = "registered" THEN "none" ELSE @]

Exists(dir)     == {p \in Path : dir[p] # NoFile}
Bucket(si)      == {si} \X ShNum
Written(f)      == {i \in Pos : f.data[i] # Hole}
Leased(f)       == {c \in Client : f.leases[c] # 0}
Blank           == [i \in Pos |-> Hole]
NoLeases        == [c \in Client |-> 0]

(* Mutated forms, here and below: what a slip in the code would make of the *)
(* definition that follows.                                                 *)
WithLease_long(f, c)  == [f EXCEPT !.leases[c] = now + Duration + 1]
WithLease_once(f, c)  == [f EXCEPT !.leases[c] = IF @ = 0 THEN now + Duration ELSE @]
WithLease(f, c)       == [f EXCEPT !.leases[c] = now + Duration]

(***************************************************************************)
(* Space.  A file in incoming/ is sparse: it takes the positions written   *)
(* so far and its lease.                                                   *)
(***************************************************************************)
LeaseRecords(dir) ==
  Cardinality({pc \in Path \X Client :
                 dir[pc[1]] # NoFile /\ dir[pc[1]].leases[pc[2]] # 0})

Used ==
  Size * Cardinality(Exists(shares))
  + Cardinality({pi \in Path \X Pos :
                   incoming[pi[1]] # NoFile /\ incoming[pi[1]].data[pi[2]] # Hole})
  + LeaseSize * (LeaseRecords(shares) + LeaseRecords(incoming))

get_available_space ==
  IF ReadOnly \/ Used > Capacity THEN 0 ELSE Capacity - Used

allocated_size == Size * Cardinality({p \in Path : registry[p] # 0})

(***************************************************************************)
(* _add_or_renew_leases goes through the shares in the order of the        *)
(* directory listing.  A share on which the client has a lease is renewed; *)
(* another one gets a new lease if there is space for it, and the first    *)
(* one without space raises NoSpace, which ends the loop.  The result is   *)
(* the set of paths reached: all of them unless NoSpace was raised.        *)
(***************************************************************************)
RenewedPaths(paths, c) ==
  LET holds == {p \in paths : c \in Leased(shares[p])}
      lacks == paths \ holds
      room(S) == \/ S = {}
                 \/ LeaseSize * Cardinality(S) <= get_available_space
  IN  {S \in SUBSET paths :
         /\ room(S \cap lacks)
         /\ S # paths => \E p \in lacks \ S : ~ room((S \cap lacks) \cup {p})}

Renew(S, c) == [p \in Path |-> IF p \in S THEN WithLease(shares[p], c) ELSE shares[p]]

-----------------------------------------------------------------------------
(***************************************************************************)
(* StorageServer.allocate_buckets: lease every share of the bucket that is *)
(* already here, then create a BucketWriter for each requested share that  *)
(* is neither here nor in incoming/, while space lasts (remaining space is *)
(* taken before the leases are written).  When a lease finds no space the  *)
(* call fails before any writer is created.                                *)
(***************************************************************************)
remaining_space_unreserved == get_available_space
remaining_space == get_available_space - allocated_size

Wanted(si, sharenums) ==
  {p \in {si} \X sharenums : shares[p] = NoFile /\ incoming[p] = NoFile}

Accepted(si, sharenums) ==
  LET wanted == Wanted(si, sharenums)
  IN  {A \in SUBSET wanted :
         /\ A # {} => Size * Cardinality(A) <= remaining_space
         /\ A # wanted => Size * (Cardinality(A) + 1) > remaining_space}

CreateWriters(A, c, proto) ==
  /\ incoming' = [p \in Path |->
       IF p \in A THEN WithLease([data |-> Blank, leases |-> NoLeases], c)
                  ELSE incoming[p]]
  /\ born' = [p \in Path |-> IF p \in A THEN born[p] + 1 ELSE born[p]]
  /\ writers' = [p \in Path |->
       IF p \in A THEN [writers[p] EXCEPT ![born[p] + 1] = NewWriter(c, proto)]
                  ELSE writers[p]]
  /\ registry' = [p \in Path |-> IF p \in A THEN born[p] + 1 ELSE registry[p]]
  /\ uploads' = [p \in Path |->
       IF p \in A /\ proto = "http" THEN born[p] + 1 ELSE uploads[p]]

(* recorded only on a server that expires leases: elsewhere it says nothing *)
Promise(S, c) ==
  told' = [p \in Path |-> IF p \in S /\ Mode # "off"
                          THEN [told[p] EXCEPT ![c] = now] ELSE told[p]]

allocate_buckets(c, si, sharenums, proto) ==
  /\ up /\ ~ quiet
  /\ \A p \in {si} \X sharenums : born[p] < MaxGen
  /\ LET alreadygot == Bucket(si) \cap Exists(shares)
     IN  \E S \in RenewedPaths(alreadygot, c), A \in Accepted(si, sharenums) :
           /\ shares' = Renew(S, c)
           /\ IF S = alreadygot
                THEN CreateWriters(A, c, proto) /\ Promise(S, c)
                ELSE UNCHANGED <<incoming, born, writers, registry, uploads, told>>
  /\ UNCHANGED <<now, up, quiet, created>>

(***************************************************************************)
(* What BucketWriter.close and BucketWriter.abort do once their guards     *)
(* have passed.  Both work on the path and end in bucket_writer_closed,    *)
(* which deletes the registry entry of the path, cancels the disconnect    *)
(* marker and drops the HTTP server's entry for this writer.               *)
(***************************************************************************)
bucket_writer_closed(p, g) ==
  /\ registry' = [registry EXCEPT ![p] = 0]
  /\ uploads' = IF uploads[p] = g THEN [uploads EXCEPT ![p] = 0] ELSE uploads

close(p, g, f) ==
  /\ shares' = [shares EXCEPT ![p] = f]
  /\ incoming' = [incoming EXCEPT ![p] = NoFile]
  /\ writers' = [writers EXCEPT ![p][g] = Closed(@)]
  /\ bucket_writer_closed(p, g)

abort_unguarded(p, g) ==
  /\ incoming' = [incoming EXCEPT ![p] = NoFile]
  /\ writers' = [writers EXCEPT ![p][g] = Closed(@)]
  /\ bucket_writer_closed(p, g)
  /\ UNCHANGED shares

abort(p, g) ==
  IF writers[p][g].state = "closed"
  THEN UNCHANGED <<shares, incoming, writers, registry, uploads>>
  ELSE /\ incoming' = [incoming EXCEPT ![p] = NoFile]
       /\ writers' = [writers EXCEPT ![p][g] = Closed(@)]
       /\ bucket_writer_closed(p, g)
       /\ UNCHANGED shares

(***************************************************************************)
(* The Foolscap client's calls on a remote BucketWriter.  A call on a      *)
(* closed writer raises (AlreadyCancelled from the timer, or the           *)
(* precondition) and changes nothing.  A write that disagrees with what is *)
(* there raises ConflictingWriteError, one past the allocated size         *)
(* DataTooLargeError.                                                      *)
(***************************************************************************)
Conflicts_none(f, R, v) == {}
Conflicts(f, R, v) == {i \in R \cap Written(f) : f.data[i] # v}
Store(f, R, v) == [f EXCEPT !.data = [i \in Pos |-> IF i \in R THEN v ELSE @[i]]]

callable(p, g) == up /\ ~ quiet /\ writers[p][g].ref

remote_write(p, g, lo, hi, v) ==
  /\ callable(p, g)
  /\ writers[p][g].state = "open"
  /\ hi <= Size
  /\ Conflicts(incoming[p], lo .. (hi - 1), v) = {}
  /\ incoming' = [incoming EXCEPT ![p] = Store(@, lo .. (hi - 1), v)]
  /\ UNCHANGED <<now, up, quiet, shares, writers, born, registry, uploads, told, created>>

remote_close(p, g) ==
  /\ callable(p, g)
  /\ writers[p][g].state = "open"
  /\ close(p, g, incoming[p])
  /\ UNCHANGED <<now, up, quiet, born, told, created>>

remote_abort(p, g) ==
  /\ callable(p, g)
  /\ abort(p, g)
  /\ UNCHANGED <<now, up, quiet, born, told, created>>

(***************************************************************************)
(* The connection of a client is lost: its references die and the          *)
(* disconnect callbacks of its writers enter the event queue, which runs   *)
(* them later, one by one.                                                 *)
(***************************************************************************)
LoseConnection(c) ==
  /\ up
  /\ \E p \in Path, g \in Gen : writers[p][g].client = c /\ writers[p][g].ref
  /\ writers' = [p \in Path |-> [g \in Gen |->
       IF writers[p][g].client # c THEN writers[p][g]
       ELSE [writers[p][g] EXCEPT
               !.ref = FALSE,
               !.marker = IF @ = "registered" THEN "fired" ELSE @]]]
  /\ UNCHANGED <<now, up, quiet, shares, incoming, born, registry, uploads, told, created>>

MarkerDone(w) == [w EXCEPT !.marker = "none"]

disconnected(p, g) ==
  /\ up
  /\ writers[p][g].marker = "fired"
  /\ IF writers[p][g].state = "closed"
     THEN /\ writers' = [writers EXCEPT ![p][g] = MarkerDone(@)]
          /\ UNCHANGED <<incoming, registry, uploads>>
     ELSE /\ incoming' = [incoming EXCEPT ![p] = NoFile]
          /\ writers' = [writers EXCEPT ![p][g] = MarkerDone(Closed(@))]
          /\ bucket_writer_closed(p, g)
  /\ UNCHANGED <<now, up, quiet, shares, born, told, created>>

(* The 30 minute timer of a writer, which every write restarts. *)
_abort_due_to_timeout(p, g) ==
  /\ up
  /\ writers[p][g].timer
  /\ abort(p, g)
  /\ UNCHANGED <<now, up, quiet, born, told, created>>

(***************************************************************************)
(* The HTTP endpoints.  A request names the path and the upload secret of  *)
(* its client; the HTTP server finds the writer in its own table.  The     *)
(* body is written in chunks of one position: a chunk that conflicts or    *)
(* does not fit ends the request and leaves the chunks before it.  The     *)
(* write that completes the share closes it.                               *)
(***************************************************************************)
_is_finished(f)       == Written(f) = Pos

get_write_bucket(p, c) == uploads[p] # 0 /\ writers[p][uploads[p]].client = c

write_share_data(p, c, lo, hi, v) ==
  LET g     == uploads[p]
      stops == Conflicts(incoming[p], lo .. (hi - 1), v)
               \cup {i \in lo .. (hi - 1) : i >= Size}
      end   == IF stops = {} THEN hi ELSE Min(stops)
      f     == Store(incoming[p], lo .. (end - 1), v)
      done  == stops = {} /\ _is_finished(f)
  IN  /\ up /\ ~ quiet
      /\ get_write_bucket(p, c)
      /\ IF done
         THEN close(p, g, f) /\ created' = created \cup {p}
         ELSE /\ incoming' = [incoming EXCEPT ![p] = f]
              /\ UNCHANGED <<shares, writers, registry, uploads, created>>
      /\ UNCHANGED <<now, up, quiet, born, told>>

abort_share_upload(p, c) ==
  /\ up /\ ~ quiet
  /\ get_write_bucket(p, c)
  /\ abort(p, uploads[p])
  /\ UNCHANGED <<now, up, quiet, born, told, created>>

(***************************************************************************)
(* Leases.  renew_lease stops with IndexError at the first share on which  *)
(* the client has no lease, having renewed those listed before it.         *)
(***************************************************************************)
add_lease(c, si) ==
  /\ up /\ ~ quiet
  /\ LET here == Bucket(si) \cap Exists(shares)
     IN  \E S \in RenewedPaths(here, c) :
           /\ shares' = Renew(S, c)
           /\ IF S = here THEN Promise(S, c) ELSE UNCHANGED told
  /\ UNCHANGED <<now, up, quiet, incoming, writers, born, registry, uploads, created>>

renew_lease(c, si) ==
  /\ up /\ ~ quiet
  /\ LET here  == Bucket(si) \cap Exists(shares)
         holds == {p \in here : c \in Leased(shares[p])}
     IN  \E S \in SUBSET holds :
           /\ holds = here => S = here
           /\ shares' = Renew(S, c)
  /\ UNCHANGED <<now, up, quiet, incoming, writers, born, registry, uploads, told, created>>

(***************************************************************************)
(* LeaseCheckingCrawler.process_bucket: cancel the expired leases of each  *)
(* share; cancelling the last lease of a share unlinks it.                 *)
(***************************************************************************)
GrantRenewTime(exp) == exp - Duration

Expired_nominal(exp) == Mode = "age" /\ now - GrantRenewTime(exp) > exp

Expired(exp) ==
  CASE Mode = "off" -> FALSE
    [] Mode = "age" ->
         now - GrantRenewTime(exp) > (IF Override = 0 THEN exp ELSE Override)
    [] Mode = "cutoff-date" -> GrantRenewTime(exp) < Cutoff

cancel_lease(f, doomed) ==
  [f EXCEPT !.leases = [c \in Client |-> IF c \in doomed THEN 0 ELSE @[c]]]

process_share(f) ==
  LET doomed == {c \in Leased(f) : Expired(f.leases[c])}
  IN  IF doomed # {} /\ doomed = Leased(f) THEN NoFile ELSE cancel_lease(f, doomed)

process_bucket(si) ==
  /\ up
  /\ shares' = [p \in Path |->
       IF p \in Bucket(si) /\ shares[p] # NoFile THEN process_share(shares[p])
       ELSE shares[p]]
  /\ created' = {p \in created : shares'[p] # NoFile}
  /\ UNCHANGED <<now, up, quiet, incoming, writers, born, registry, uploads, told>>

(***************************************************************************)
(* The process.  stopService aborts the uploads in progress, a crash just  *)
(* ends the process; either way every object is gone.  A new StorageServer *)
(* removes incoming/ before it serves anything.                            *)
(***************************************************************************)
Gone ==
  /\ up' = FALSE
  /\ writers' = [p \in Path |-> NoWriters]
  /\ born' = [p \in Path |-> 0]
  /\ registry' = [p \in Path |-> 0]
  /\ uploads' = [p \in Path |-> 0]
  /\ UNCHANGED <<now, quiet, shares, told, created>>

stopService ==
  /\ up
  /\ incoming' = [p \in Path |-> IF registry[p] # 0 THEN NoFile ELSE incoming[p]]
  /\ Gone

Crash == up /\ UNCHANGED incoming /\ Gone

Start_unclean ==
  /\ ~ up
  /\ up' = TRUE
  /\ UNCHANGED <<now, quiet, shares, incoming, writers, born, registry, uploads, told, created>>

Start ==
  /\ ~ up
  /\ up' = TRUE
  /\ incoming' = [p \in Path |-> NoFile]
  /\ UNCHANGED <<now, quiet, shares, writers, born, registry, uploads, told, created>>

Tick ==
  /\ now < MaxNow
  /\ now' = now + 1
  /\ UNCHANGED <<up, quiet, shares, incoming, writers, born, registry, uploads, told, created>>

Quiesce ==
  /\ ~ quiet
  /\ quiet' = TRUE
  /\ UNCHANGED <<now, up, shares, incoming, writers, born, registry, uploads, told, created>>

-----------------------------------------------------------------------------
Init ==
  /\ now = Epoch /\ up = TRUE /\ quiet = FALSE
  /\ shares = [p \in Path |-> NoFile]
  /\ incoming = [p \in Path |-> NoFile]
  /\ writers = [p \in Path |-> NoWriters]
  /\ born = [p \in Path |-> 0]
  /\ registry = [p \in Path |-> 0]
  /\ uploads = [p \in Path |-> 0]
  /\ told = [p \in Path |-> [c \in Client |-> 0]]
  /\ created = {}

ClientRequest ==
  \E c \in Client :
    \/ \E si \in SI, sharenums \in SUBSET ShNum, proto \in {"foolscap", "http"} :
         allocate_buckets(c, si, sharenums, proto)
    \/ \E p \in Path, lo \in Pos, hi \in 1 .. (Size + 1), v \in Val :
         lo < hi /\ write_share_data(p, c, lo, hi, v)
    \/ \E p \in Path : abort_share_upload(p, c)
    \/ \E si \in SI : add_lease(c, si)
    \/ \E si \in SI : renew_lease(c, si)

WriterCall ==
  \E p \in Path, g \in Gen :
    \/ \E lo \in Pos, hi \in 1 .. Size, v \in Val :
         lo < hi /\ remote_write(p, g, lo, hi, v)
    \/ remote_close(p, g)
    \/ remote_abort(p, g)
    \/ disconnected(p, g)
    \/ _abort_due_to_timeout(p, g)

Next ==
  \/ ClientRequest
  \/ WriterCall
  \/ \E c \in Client : LoseConnection(c)
  \/ \E si \in SI : process_bucket(si)
  \/ stopService \/ Crash \/ Start
  \/ Tick

Spec == Init /\ [][Next]_vars

(***************************************************************************)
(* A timer that nothing restarts runs out, a server that went down is      *)
(* started again, and stays up long enough now and then for the crawler to *)
(* reach every bucket.  Nothing is assumed of the clients.                 *)
(***************************************************************************)
FairSpec ==
  /\ Init /\ [][Next \/ Quiesce]_vars
  /\ \A p \in Path, g \in Gen : WF_vars(_abort_due_to_timeout(p, g))
  /\ WF_vars(Start)
  /\ \A si \in SI : SF_vars(process_bucket(si))

-----------------------------------------------------------------------------
(* Type invariant. *)
TypeOK ==
  /\ now \in Time /\ up \in BOOLEAN /\ quiet \in BOOLEAN
  /\ shares \in [Path -> File \cup {NoFile}]
  /\ incoming \in [Path -> File \cup {NoFile}]
  /\ writers \in [Path -> [Gen -> Writer]]
  /\ born \in [Path -> 0 .. MaxGen]
  /\ registry \in [Path -> 0 .. MaxGen]
  /\ uploads \in [Path -> 0 .. MaxGen]
  /\ told \in [Path -> [Client -> {0} \cup Time]]
  /\ created \in SUBSET Path

(* The server's tables, the writer objects and the files agree: while the  *)
(* server runs, a path has a file in incoming/ exactly when it has a       *)
(* registered writer; that writer is open, is the only open one of the     *)
(* path and no share is in the final home it will be renamed to; the HTTP  *)
(* server tracks exactly the open writers it created.  A late timeout,     *)
(* disconnect or remote call for an older writer of the path (the guards   *)
(* of close, abort and disconnected in storage/immutable.py) must not      *)
(* disturb this.  After a crash none of these objects is left, and no      *)
(* timer, reference or marker belongs to a writer that was never created.  *)
WriterRegistry ==
  /\ ~ up => \A p \in Path : registry[p] = 0 /\ uploads[p] = 0 /\ born[p] = 0
  /\ \A p \in Path, g \in Gen :
       IF g > born[p] THEN writers[p][g] = NoWriters[g]
                      ELSE writers[p][g].state # "unborn"
  /\ up => \A p \in Path :
       /\ registry[p] # 0 <=> incoming[p] # NoFile
       /\ registry[p] # 0 => shares[p] = NoFile
       /\ uploads[p] # 0 => uploads[p] = registry[p]
       /\ \A g \in Gen :
            /\ writers[p][g].state = "open" <=> registry[p] = g
            /\ writers[p][g].state = "open" /\ writers[p][g].via = "http"
               => uploads[p] = g

(* The sizes promised to the uploads in progress and the shares already    *)
(* here fit on the disk together (allocate_buckets subtracts               *)
(* allocated_size() from the space left).                                  *)
NoOvercommit ==
  Size * Cardinality(Exists(shares) \cup {p \in Path : registry[p] # 0}) <= Capacity

(* A share that can be read never changes its contents, whatever uploads   *)
(* of the same share are in progress or begin: it can only disappear.  And *)
(* what an upload has accepted stays as it was written until the upload is *)
(* aborted: no later write of either protocol changes it (the conflict     *)
(* check of BucketWriter.write), and closing moves exactly these contents. *)
WriteOnce(p) ==
  incoming[p] # NoFile =>
    \A i \in Written(incoming[p]) :
      /\ incoming'[p] # NoFile => incoming'[p].data[i] = incoming[p].data[i]
      /\ shares[p] = NoFile /\ shares'[p] # NoFile => shares'[p].data[i] = incoming[p].data[i]
SharesImmutable ==
  [][\A p \in Path :
       /\ shares[p] # NoFile /\ shares'[p] # NoFile => shares'[p].data = shares[p].data
       /\ WriteOnce(p)]_vars

(* A client that was told that the server has a share (allocate_buckets    *)
(* listing it as already there, or add_lease) can rely on it for one lease *)
(* duration: until then the expirer does not remove it.  And a share whose *)
(* upload was answered with CREATED is on disk without a hole, through     *)
(* crashes and restarts, until its leases expire.                          *)
PromiseKept ==
  /\ \A p \in Path, c \in Client :
       told[p][c] # 0 /\ now <= told[p][c] + Duration => shares[p] # NoFile
  /\ \A p \in created : shares[p] # NoFile /\ Written(shares[p]) = Pos

(* Once the clients have stopped, incoming/ empties: every upload left     *)
(* behind is aborted by its timer, or by the restart after a crash.        *)
IncomingDrains == quiet ~> Exists(incoming) = {}

(* docs/garbage-collection.rst: with age-based expiration "leases are      *)
(* expired when their age is greater than their duration".  A share all of *)
(* whose leases are past their expiration time is removed by the crawler   *)
(* (process_share), unless a lease is renewed or added in time.            *)
Garbage(p) == shares[p] # NoFile /\ \A c \in Leased(shares[p]) : now > shares[p].leases[c]
OldLeasesExpire == \A p \in Path : Garbage(p) ~> ~ Garbage(p)
=============================================================================
