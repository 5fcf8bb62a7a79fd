----------------------- MODULE ImmutableStorageProofs -----------------------
(***************************************************************************)
(* The writer registry of ImmutableStorage, and with it its type           *)
(* invariant, for any number of shares, clients and writers, any disk and  *)
(* any expiration policy.                                                  *)
(***************************************************************************)
EXTENDS ImmutableStorageTypes

(* The provers tried, in this order, where a step names none. *)
USE SMTT(20), ZenonT(20), SMTT(60)

(* A step that opens and closes no writer, gives no path a share it did    *)
(* not have and keeps the set of files in incoming/.                       *)
LEMMA NoWriterMoves ==
  ASSUME IInv, UNCHANGED <<up, born, registry, uploads>>,
         \A p \in Path : /\ incoming'[p] = NoFile <=> incoming[p] = NoFile
                         /\ shares[p] = NoFile => shares'[p] = NoFile,
         \A p \in Path, g \in Gen :
            /\ writers'[p][g].state = writers[p][g].state
            /\ writers'[p][g].via = writers[p][g].via
            /\ g > born[p] => writers'[p][g] = writers[p][g]
  PROVE  WriterRegistry'
<1>1. \A p \in Path, g \in Gen : IF g > born'[p] THEN writers'[p][g] = NoWriters[g]
                                                ELSE writers'[p][g].state # "unborn"
  BY DEF IInv, WriterRegistry
<1>2. QED
  BY <1>1 DEF IInv, WriterRegistry

(* The registered writer of p goes: its file leaves incoming/, whether to  *)
(* its final home or to nowhere, and so do its entries in the two tables.  *)
LEMMA Retire ==
  ASSUME IInv, up, NEW p \in Path, NEW g \in Gen, NEW w \in Writer,
         writers[p][g].state = "open", w.state = "closed",
         UNCHANGED <<up, born>>,
         incoming' = [incoming EXCEPT ![p] = NoFile],
         writers' = [writers EXCEPT ![p][g] = w],
         bucket_writer_closed(p, g),
         \A q \in Path \ {p} : shares'[q] = shares[q]
  PROVE  WriterRegistry'
<1>1. registry[p] = g /\ g # 0 /\ registry \in [Path -> 0 .. MaxGen] /\ uploads \in [Path -> 0 .. MaxGen]
  BY OpenHasFile DEF IInv, TypeOK, Gen
<1>2. uploads[p] \in {0, g}
  BY <1>1 DEF IInv, WriterRegistry
<1>3. /\ uploads'[p] = 0 /\ registry'[p] = 0 /\ incoming'[p] = NoFile
      /\ \A q \in Path \ {p} : /\ uploads'[q] = uploads[q] /\ registry'[q] = registry[q]
                               /\ incoming'[q] = incoming[q]
  BY <1>1, <1>2 DEF bucket_writer_closed, IInv, TypeOK
<1>4. /\ \A q \in Path, h \in Gen : ~ (q = p /\ h = g) => writers'[q][h] = writers[q][h]
      /\ writers'[p][g] = w
  BY DEF IInv, TypeOK
<1>5. g <= born[p]
  <2>1. writers[p][g] # NoWriters[g]
    BY DEF NoWriters
  <2>2. QED
    BY <2>1, Bounds DEF IInv, TypeOK, WriterRegistry, Gen
<1>6. \A q \in Path, h \in Gen : IF h > born'[q] THEN writers'[q][h] = NoWriters[h]
                                                ELSE writers'[q][h].state # "unborn"
  BY <1>4, <1>5 DEF IInv, WriterRegistry, TypeOK, Gen
<1>7. \A h \in Gen : writers'[p][h].state # "open"
  BY <1>1, <1>4 DEF IInv, WriterRegistry
<1>8. ASSUME NEW q \in Path \ {p}
      PROVE  /\ registry'[q] # 0 <=> incoming'[q] # NoFile
             /\ registry'[q] # 0 => shares'[q] = NoFile
             /\ uploads'[q] # 0 => uploads'[q] = registry'[q]
             /\ \A h \in Gen :
                  /\ writers'[q][h].state = "open" <=> registry'[q] = h
                  /\ writers'[q][h].state = "open" /\ writers'[q][h].via = "http"
                     => uploads'[q] = h
  BY <1>3, <1>4 DEF IInv, WriterRegistry
<1>9. QED
  BY <1>3, <1>6, <1>7, <1>8 DEF WriterRegistry, Gen

LEMMA AbortRegistry ==
  ASSUME IInv, up, NEW p \in Path, NEW g \in Gen, UNCHANGED <<up, born>>,
         writers[p][g].state \in {"open", "closed"}, abort(p, g)
  PROVE  WriterRegistry'
<1>1. CASE writers[p][g].state = "closed"
  BY <1>1, NoWriterMoves DEF abort
<1>2. CASE writers[p][g].state = "open"
  <2>1. Closed(writers[p][g]) \in Writer /\ Closed(writers[p][g]).state = "closed"
    BY WriterTypes DEF IInv, TypeOK
  <2>2. QED
    BY <1>2, <2>1, Retire DEF abort
<1>3. QED
  BY <1>1, <1>2

LEMMA CloseRegistry ==
  ASSUME IInv, up, NEW p \in Path, NEW g \in Gen, NEW f, UNCHANGED <<up, born>>,
         writers[p][g].state = "open", close(p, g, f)
  PROVE  WriterRegistry'
<1>1. Closed(writers[p][g]) \in Writer /\ Closed(writers[p][g]).state = "closed"
  BY WriterTypes DEF IInv, TypeOK
<1>2. \A q \in Path \ {p} : shares'[q] = shares[q]
  BY DEF close, IInv, TypeOK
<1>3. QED
  BY Zenon, ZenonT(60), <1>1, <1>2, Retire DEF close

LEMMA RenewKeepsHome ==
  ASSUME IInv, NEW c \in Client, NEW S \in SUBSET Exists(shares), shares' = Renew(S, c)
  PROVE  \A p \in Path : shares[p] = NoFile => shares'[p] = NoFile
  BY DEF Renew, Exists

(* What WriterRegistry says of one path while the server runs. *)
LEMMA PathRegistry ==
  ASSUME IInv, up, NEW p \in Path
  PROVE  /\ registry[p] # 0 <=> incoming[p] # NoFile
         /\ registry[p] # 0 => shares[p] = NoFile
         /\ uploads[p] # 0 => uploads[p] = registry[p]
         /\ \A g \in Gen :
              /\ writers[p][g].state = "open" <=> registry[p] = g
              /\ writers[p][g].state = "open" /\ writers[p][g].via = "http"
                 => uploads[p] = g
  BY Zenon, ZenonT(60) DEF IInv, WriterRegistry

LEMMA WriterExists ==
  ASSUME IInv, NEW p \in Path, NEW g \in Gen
  PROVE  IF g > born[p] THEN writers[p][g] = NoWriters[g] ELSE writers[p][g].state # "unborn"
  BY Zenon, ZenonT(60) DEF IInv, WriterRegistry

(* New writers for paths that have neither a share nor an upload. *)
LEMMA CreateRegistry ==
  ASSUME IInv, up, up' = up, NEW c \in Client, NEW proto \in {"foolscap", "http"},
         NEW A \in SUBSET Path, CreateWriters(A, c, proto),
         \A p \in A : born[p] < MaxGen /\ shares[p] = NoFile /\ incoming[p] = NoFile,
         \A p \in Path : shares[p] = NoFile => shares'[p] = NoFile
  PROVE  WriterRegistry'
<1> DEFINE new == NewWriter(c, proto)
<1>1. \A p \in A : p \in Path /\ born[p] \in Nat /\ born[p] + 1 \in Gen
  BY Bounds DEF IInv, TypeOK, Gen
<1>2. /\ new.state = "open" /\ new.via = proto
      /\ \A g \in Gen : NoWriters[g].state = "unborn"
  BY DEF NewWriter, NoWriters
<1>3. WithLease([data |-> Blank, leases |-> NoLeases], c) # NoFile
  <2>1. WithLease([data |-> Blank, leases |-> NoLeases], c) \in File
    BY Zenon, ZenonT(60), FileTypes, BlankFile DEF IInv, TypeOK
  <2>2. QED
    BY Zenon, ZenonT(60), <2>1, ConstantsOK
<1> HIDE DEF new
<1>4. ASSUME NEW p \in A
      PROVE  /\ incoming'[p] # NoFile /\ born'[p] = born[p] + 1 /\ registry'[p] = born[p] + 1
             /\ uploads'[p] = IF proto = "http" THEN born[p] + 1 ELSE uploads[p]
             /\ writers'[p] = [writers[p] EXCEPT ![born[p] + 1] = new]
  BY <1>3 DEF CreateWriters, new
<1>5. ASSUME NEW p \in Path \ A
      PROVE  /\ incoming'[p] = incoming[p] /\ born'[p] = born[p] /\ registry'[p] = registry[p]
             /\ uploads'[p] = uploads[p] /\ writers'[p] = writers[p]
  BY DEF CreateWriters
<1>6. ASSUME NEW p \in A
      PROVE  registry[p] = 0 /\ uploads[p] = 0 /\ \A g \in Gen : writers[p][g].state # "open"
  <2>1. registry[p] = 0 /\ uploads[p] = 0
    BY PathRegistry
  <2>2. \A g \in Gen : g # 0
    BY Bounds DEF Gen
  <2>3. QED
    BY <2>1, <2>2, PathRegistry
<1>7. ASSUME NEW p \in A, NEW g \in Gen
      PROVE  writers'[p][g] = IF g = born[p] + 1 THEN new ELSE writers[p][g]
  <2>1. writers[p] \in [Gen -> Writer] /\ born[p] + 1 \in Gen
    BY <1>1 DEF IInv, TypeOK
  <2>2. QED
    BY Zenon, ZenonT(60), <1>4, <2>1
<1>8. ASSUME NEW p \in Path, NEW g \in Gen
      PROVE  IF g > born'[p] THEN writers'[p][g] = NoWriters[g]
                             ELSE writers'[p][g].state # "unborn"
  <2>1. CASE p \in A
    <3>1. born[p] \in Nat /\ g \in Nat
      BY <1>1, <2>1, Bounds DEF Gen
    <3>2. IF g > born[p] THEN writers[p][g] = NoWriters[g] ELSE writers[p][g].state # "unborn"
      BY WriterExists
    <3>3. writers'[p][g] = IF g = born[p] + 1 THEN new ELSE writers[p][g]
      BY <2>1, <1>7
    <3>4. born'[p] = born[p] + 1 /\ new.state # "unborn"
      BY Zenon, ZenonT(60), <2>1, <1>2, <1>4
    <3>5. QED
      BY <3>1, <3>2, <3>3, <3>4
  <2>2. CASE p \notin A
    <3>1. born'[p] = born[p] /\ writers'[p] = writers[p]
      BY <2>2, <1>5
    <3>2. QED
      BY Zenon, ZenonT(60), <3>1, WriterExists
  <2>3. QED
    BY Zenon, ZenonT(60), <2>1, <2>2
<1>9. ASSUME NEW p \in Path
      PROVE  /\ registry'[p] # 0 <=> incoming'[p] # NoFile
             /\ registry'[p] # 0 => shares'[p] = NoFile
             /\ uploads'[p] # 0 => uploads'[p] = registry'[p]
             /\ \A g \in Gen :
                  /\ writers'[p][g].state = "open" <=> registry'[p] = g
                  /\ writers'[p][g].state = "open" /\ writers'[p][g].via = "http"
                     => uploads'[p] = g
  <2>1. CASE p \in A
    <3>1. born[p] + 1 # 0
      BY <1>1, <2>1
    <3>2. incoming'[p] # NoFile /\ shares'[p] = NoFile /\ registry'[p] = born[p] + 1
      BY Zenon, ZenonT(60), <2>1, <1>4
    <3>3. uploads'[p] = IF proto = "http" THEN born[p] + 1 ELSE 0
      BY Zenon, ZenonT(60), <2>1, <1>4, <1>6
    <3>4. ASSUME NEW g \in Gen
          PROVE  IF g = born[p] + 1 THEN writers'[p][g] = new ELSE writers'[p][g].state # "open"
      BY <2>1, <1>6, <1>7
    <3>5. QED
      BY <3>1, <3>2, <3>3, <3>4, <1>2
  <2>2. CASE p \notin A
    <3>1. /\ incoming'[p] = incoming[p] /\ registry'[p] = registry[p]
          /\ uploads'[p] = uploads[p] /\ writers'[p] = writers[p]
      BY Zenon, ZenonT(60), <2>2, <1>5
    <3>2. shares[p] = NoFile => shares'[p] = NoFile
      OBVIOUS
    <3>3. /\ registry[p] # 0 <=> incoming[p] # NoFile
          /\ registry[p] # 0 => shares[p] = NoFile
          /\ uploads[p] # 0 => uploads[p] = registry[p]
      BY PathRegistry
    <3>4. ASSUME NEW g \in Gen
          PROVE  /\ writers[p][g].state = "open" <=> registry[p] = g
                 /\ writers[p][g].state = "open" /\ writers[p][g].via = "http"
                    => uploads[p] = g
      BY PathRegistry
    <3>5. /\ registry'[p] # 0 <=> incoming'[p] # NoFile
          /\ registry'[p] # 0 => shares'[p] = NoFile
          /\ uploads'[p] # 0 => uploads'[p] = registry'[p]
      BY <3>1, <3>2, <3>3
    <3>6. ASSUME NEW g \in Gen
          PROVE  /\ writers'[p][g].state = "open" <=> registry'[p] = g
                 /\ writers'[p][g].state = "open" /\ writers'[p][g].via = "http"
                    => uploads'[p] = g
      BY <3>1, <3>4
    <3>7. QED
      BY <3>5, <3>6
  <2>3. QED
    BY Zenon, ZenonT(60), <2>1, <2>2
<1>10. QED
  BY Zenon, ZenonT(60), <1>8, <1>9 DEF WriterRegistry

LEMMA AllocateRegistry ==
  ASSUME IInv, NEW c \in Client, NEW si \in SI, NEW sharenums \in SUBSET ShNum,
         NEW proto \in {"foolscap", "http"}, allocate_buckets(c, si, sharenums, proto)
  PROVE  WriterRegistry'
<1> DEFINE got == Bucket(si) \cap Exists(shares)
<1>1. PICK S \in RenewedPaths(got, c), A \in Accepted(si, sharenums) :
         /\ shares' = Renew(S, c)
         /\ IF S = got
              THEN CreateWriters(A, c, proto) /\ Promise(S, c)
              ELSE UNCHANGED <<incoming, born, writers, registry, uploads, told>>
  BY DEF allocate_buckets
<1>2. \A p \in Path : shares[p] = NoFile => shares'[p] = NoFile
  BY Zenon, ZenonT(60), <1>1, RenewKeepsHome, RenewedExist
<1>3. up /\ up' = up
  BY Zenon, ZenonT(60) DEF allocate_buckets
<1>4. A \in SUBSET Path /\ \A p \in A : born[p] < MaxGen /\ shares[p] = NoFile /\ incoming[p] = NoFile
  <2>1. \A p \in A : p \in {si} \X sharenums /\ shares[p] = NoFile /\ incoming[p] = NoFile
    BY DEF Accepted, Wanted
  <2>2. {si} \X sharenums \subseteq Path
    BY DEF Path
  <2>3. QED
    BY <2>1, <2>2 DEF allocate_buckets
<1>5. CASE S = got
  BY Zenon, ZenonT(60), <1>1, <1>2, <1>3, <1>4, <1>5, CreateRegistry
<1>6. CASE S # got
  BY Zenon, ZenonT(60), <1>1, <1>2, <1>3, <1>6, NoWriterMoves
<1>7. QED
  BY <1>5, <1>6

LEMMA GoneRegistry ==
  ASSUME Gone
  PROVE  WriterRegistry'
<1>1. \A p \in Path : writers'[p] = NoWriters /\ born'[p] = 0 /\ registry'[p] = 0 /\ uploads'[p] = 0
  BY DEF Gone
<1>2. \A g \in Gen : g > 0
  BY Bounds DEF Gen
<1>3. up' = FALSE
  BY DEF Gone
<1>4. QED
  BY Zenon, ZenonT(60), <1>1, <1>2, <1>3 DEF WriterRegistry

LEMMA StartRegistry ==
  ASSUME IInv, Start
  PROVE  WriterRegistry'
<1>1. \A p \in Path : born[p] = 0 /\ registry[p] = 0 /\ uploads[p] = 0 /\ incoming'[p] = NoFile
  BY DEF Start, IInv, WriterRegistry
<1>2. \A p \in Path, g \in Gen : writers[p][g] = NoWriters[g] /\ g > 0
  BY <1>1, Bounds DEF IInv, WriterRegistry, Gen
<1>3. \A g \in Gen : NoWriters[g].state = "unborn"
  BY DEF NoWriters
<1>4. /\ writers' = writers /\ born' = born /\ registry' = registry /\ uploads' = uploads
  BY Zenon, ZenonT(60) DEF Start
<1>5. ASSUME NEW p \in Path
      PROVE  registry'[p] = 0 /\ incoming'[p] = NoFile /\ uploads'[p] = 0 /\ born'[p] = 0
  BY Zenon, ZenonT(60), <1>1, <1>4
<1>6. ASSUME NEW p \in Path, NEW g \in Gen
      PROVE  writers'[p][g] = NoWriters[g] /\ writers'[p][g].state = "unborn" /\ g > 0 /\ g # 0
  <2>1. writers'[p][g] = NoWriters[g] /\ NoWriters[g].state = "unborn"
    BY Zenon, ZenonT(60), <1>2, <1>3, <1>4
  <2>2. g > 0 /\ g # 0
    BY Bounds DEF Gen
  <2>3. QED
    BY Zenon, ZenonT(60), <2>1, <2>2
<1>7. QED
  BY Zenon, ZenonT(60), <1>5, <1>6 DEF WriterRegistry

LEMMA NextRegistry ==
  ASSUME IInv, [Next]_vars
  PROVE  WriterRegistry'
<1>1. ASSUME NEW c \in Client, NEW si \in SI, NEW sharenums \in SUBSET ShNum,
             NEW proto \in {"foolscap", "http"}, allocate_buckets(c, si, sharenums, proto)
      PROVE  WriterRegistry'
  BY <1>1, AllocateRegistry
<1>2. ASSUME NEW c \in Client, NEW p \in Path, NEW lo \in Pos, NEW hi \in 1 .. (Size + 1),
             NEW v \in Val, write_share_data(p, c, lo, hi, v)
      PROVE  WriterRegistry'
  <2>1. up /\ uploads[p] # 0 /\ UNCHANGED <<up, born>>
    BY <1>2 DEF write_share_data, get_write_bucket
  <2>2. uploads[p] \in Gen /\ incoming[p] \in File /\ writers[p][uploads[p]].state = "open"
    BY <2>1, UploadIsOpen, OpenHasFile
  <2>3. PICK f \in File :
          \/ close(p, uploads[p], f)
          \/ /\ incoming' = [incoming EXCEPT ![p] = f]
             /\ UNCHANGED <<shares, writers, registry, uploads>>
    <3>1. \A R : Store(incoming[p], R, v) \in File
      BY Zenon, ZenonT(60), <2>2, FileTypes DEF IInv, TypeOK
    <3>2. QED
      BY <1>2, <3>1 DEF write_share_data
  <2>4. CASE close(p, uploads[p], f)
    BY <2>1, <2>2, <2>4, CloseRegistry
  <2>5. CASE /\ incoming' = [incoming EXCEPT ![p] = f]
             /\ UNCHANGED <<shares, writers, registry, uploads>>
    <3>1. \A q \in Path : incoming'[q] = NoFile <=> incoming[q] = NoFile
      BY <2>2, <2>5, ConstantsOK DEF IInv, TypeOK
    <3>2. QED
      BY <2>1, <2>5, <3>1, NoWriterMoves
  <2>6. QED
    BY <2>3, <2>4, <2>5
<1>3. ASSUME NEW c \in Client, NEW p \in Path, abort_share_upload(p, c)
      PROVE  WriterRegistry'
  <2>1. up /\ uploads[p] # 0 /\ UNCHANGED <<up, born>> /\ abort(p, uploads[p])
    BY <1>3 DEF abort_share_upload, get_write_bucket
  <2>2. uploads[p] \in Gen /\ writers[p][uploads[p]].state = "open"
    BY <2>1, UploadIsOpen, OpenHasFile
  <2>3. QED
    BY <2>1, <2>2, AbortRegistry
<1>4. ASSUME NEW c \in Client, NEW si \in SI, add_lease(c, si) \/ renew_lease(c, si)
      PROVE  WriterRegistry'
  <2>1. UNCHANGED <<up, incoming, writers, born, registry, uploads>>
    BY <1>4 DEF add_lease, renew_lease
  <2>2. PICK S \in SUBSET Exists(shares) : shares' = Renew(S, c)
    BY <1>4, RenewedExist DEF add_lease, renew_lease
  <2>3. QED
    BY Zenon, ZenonT(60), <2>1, <2>2, RenewKeepsHome, NoWriterMoves
<1>5. ASSUME NEW p \in Path, NEW g \in Gen, NEW lo \in Pos, NEW hi \in 1 .. Size,
             NEW v \in Val, remote_write(p, g, lo, hi, v)
      PROVE  WriterRegistry'
  <2>1. incoming[p] \in File
    BY Zenon, ZenonT(60), <1>5, OpenHasFile DEF remote_write, callable
  <2>2. Store(incoming[p], lo .. (hi - 1), v) \in File
    BY Zenon, ZenonT(60), <2>1, FileTypes DEF IInv, TypeOK
  <2>3. \A q \in Path : incoming'[q] = NoFile <=> incoming[q] = NoFile
    BY <1>5, <2>1, <2>2, ConstantsOK DEF remote_write, IInv, TypeOK
  <2>4. QED
    BY Zenon, ZenonT(60), <1>5, <2>3, NoWriterMoves DEF remote_write
<1>6. ASSUME NEW p \in Path, NEW g \in Gen, remote_close(p, g)
      PROVE  WriterRegistry'
  BY <1>6, CloseRegistry DEF remote_close, callable
<1>7. ASSUME NEW p \in Path, NEW g \in Gen, remote_abort(p, g) \/ _abort_due_to_timeout(p, g)
      PROVE  WriterRegistry'
  <2>1. writers[p][g].timer \/ writers[p][g].ref
    BY <1>7 DEF remote_abort, _abort_due_to_timeout, callable
  <2>2. QED
    BY <1>7, <2>1, EventsNameWriters, AbortRegistry
       DEF remote_abort, _abort_due_to_timeout, callable
<1>8. ASSUME NEW p \in Path, NEW g \in Gen, disconnected(p, g)
      PROVE  WriterRegistry'
  <2>1. up /\ UNCHANGED <<up, born, shares>> /\ writers[p][g].marker = "fired"
    BY <1>8 DEF disconnected
  <2>2. writers[p][g].state \in {"open", "closed"} /\ writers[p][g] \in Writer
    BY <2>1, EventsNameWriters DEF IInv, TypeOK
  <2>3. \A w \in Writer : /\ MarkerDone(w) \in Writer
                          /\ MarkerDone(w).state = w.state /\ MarkerDone(w).via = w.via
    BY DEF MarkerDone, Writer
  <2>4. CASE writers[p][g].state = "closed"
    <3>1. /\ writers' = [writers EXCEPT ![p][g] = MarkerDone(@)]
          /\ UNCHANGED <<incoming, registry, uploads>>
      BY <1>8, <2>4 DEF disconnected
    <3>2. ~ (g > born[p])
      BY <2>4 DEF IInv, WriterRegistry, NoWriters
    <3>3. writers \in [Path -> [Gen -> Writer]]
      BY DEF IInv, TypeOK
    <3>4. \A q \in Path, h \in Gen :
            /\ writers'[q][h].state = writers[q][h].state
            /\ writers'[q][h].via = writers[q][h].via
            /\ h > born[q] => writers'[q][h] = writers[q][h]
      BY <2>2, <2>3, <3>1, <3>2, <3>3
    <3>5. QED
      BY <2>1, <3>1, <3>4, NoWriterMoves
  <2>5. CASE writers[p][g].state = "open"
    <3> DEFINE w == MarkerDone(Closed(writers[p][g]))
    <3>1. w \in Writer /\ w.state = "closed"
      BY <2>2, <2>3, WriterTypes
    <3>2. /\ incoming' = [incoming EXCEPT ![p] = NoFile]
          /\ writers' = [writers EXCEPT ![p][g] = w]
          /\ bucket_writer_closed(p, g)
      BY <1>8, <2>5 DEF disconnected
    <3> HIDE DEF w
    <3>3. QED
      BY Zenon, ZenonT(60), <2>1, <2>5, <3>1, <3>2, Retire
  <2>6. QED
    BY <2>2, <2>4, <2>5
<1>9. ASSUME NEW c \in Client, LoseConnection(c)
      PROVE  WriterRegistry'
  <2>1. UNCHANGED <<up, born, registry, uploads, incoming, shares>>
    BY Zenon, ZenonT(60), <1>9 DEF LoseConnection
  <2>2. ASSUME NEW p \in Path, NEW g \in Gen
        PROVE  /\ writers'[p][g].state = writers[p][g].state
               /\ writers'[p][g].via = writers[p][g].via
               /\ g > born[p] => writers'[p][g] = writers[p][g]
    <3>1. writers[p][g] \in Writer
      BY DEF IInv, TypeOK
    <3>2. writers'[p][g] = IF writers[p][g].client # c THEN writers[p][g]
            ELSE [writers[p][g] EXCEPT
                    !.ref = FALSE,
                    !.marker = IF @ = "registered" THEN "fired" ELSE @]
      BY Zenon, ZenonT(60), <1>9 DEF LoseConnection
    <3>3. g > born[p] => writers[p][g].client # c
      BY ConstantsOK DEF IInv, WriterRegistry, NoWriters
    <3>4. QED
      BY <3>1, <3>2, <3>3 DEF Writer
  <2>3. QED
    BY <2>1, <2>2, NoWriterMoves
<1>10. ASSUME NEW si \in SI, process_bucket(si)
       PROVE  WriterRegistry'
  <2>1. UNCHANGED <<up, incoming, writers, born, registry, uploads>>
    BY <1>10 DEF process_bucket
  <2>2. \A p \in Path : shares[p] = NoFile => shares'[p] = NoFile
    BY <1>10 DEF process_bucket
  <2>3. QED
    BY <2>1, <2>2, NoWriterMoves
<1>11. CASE stopService \/ Crash
  BY <1>11, GoneRegistry DEF stopService, Crash
<1>12. CASE Start
  BY <1>12, StartRegistry
<1>13. CASE Tick \/ UNCHANGED vars
  BY <1>13, NoWriterMoves DEF Tick, vars
<1>14. QED
  BY <1>1, <1>2, <1>3, <1>4, <1>5, <1>6, <1>7, <1>8, <1>9, <1>10, <1>11, <1>12, <1>13
     DEF Next, ClientRequest, WriterCall

LEMMA InitRegistry == Init => WriterRegistry
  BY Bounds DEF Init, WriterRegistry, NoWriters, Gen

LEMMA Inductive == Spec => []IInv
<1>1. Init => IInv
  BY InitType, InitRegistry DEF IInv
<1>2. IInv /\ [Next]_vars => IInv'
  BY NextType, NextRegistry DEF IInv
<1>3. QED
  BY <1>1, <1>2, PTL DEF Spec

(* The server keeps its state well formed, for any number of shares,       *)
(* clients and writers.                                                    *)
THEOREM TypeCorrect == Spec => []TypeOK
  BY Inductive, PTL DEF IInv

(* The registry, the HTTP server's table, the writer objects and incoming/ *)
(* always agree: no event that arrives late for an old writer, in any      *)
(* order, disturbs a younger writer of the same share.                     *)
THEOREM RegistryCorrect == Spec => []WriterRegistry
  BY Inductive, PTL DEF IInv

=============================================================================
