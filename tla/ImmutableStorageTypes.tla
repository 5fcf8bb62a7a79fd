----------------------- MODULE ImmutableStorageTypes ------------------------
(***************************************************************************)
(* Every step of ImmutableStorage keeps its state well formed, for any     *)
(* number of shares, clients and writers, any disk and any policy.         *)
(***************************************************************************)
EXTENDS ImmutableStorage, TLAPS

(* The provers tried, in this order, where a step names none. *)
USE SMTT(20), ZenonT(20), SMTT(60)

(* What the helpers on files return. *)
LEMMA FileTypes ==
  ASSUME now \in Time, NEW f \in File
  PROVE  /\ \A c \in Client : WithLease(f, c) \in File
         /\ \A R, v : v \in Val => Store(f, R, v) \in File
         /\ \A D : cancel_lease(f, D) \in File
         /\ process_share(f) \in File \cup {NoFile}
<1> USE ConstantsOK
<1>1. ASSUME NEW c \in Client PROVE WithLease(f, c) \in File
  BY DEF WithLease, File, Leases, Time
<1>2. ASSUME NEW R, NEW v \in Val PROVE Store(f, R, v) \in File
  BY DEF Store, File
<1>3. ASSUME NEW D PROVE cancel_lease(f, D) \in File
  BY DEF cancel_lease, File, Leases
<1>4. QED
  BY <1>1, <1>2, <1>3 DEF process_share

LEMMA BlankFile == [data |-> Blank, leases |-> NoLeases] \in File
  BY ConstantsOK DEF File, Blank, NoLeases, Leases

(* What the helpers on writers return. *)
LEMMA WriterTypes ==
  /\ NoWriters \in [Gen -> Writer]
  /\ \A c \in Client, proto \in {"foolscap", "http"} : NewWriter(c, proto) \in Writer
  /\ \A w \in Writer : Closed(w) \in Writer /\ Closed(w).state = "closed"
  BY Zenon, ZenonT(60) DEF NoWriters, NewWriter, Closed, Writer

LEMMA Bounds == MaxGen \in Nat /\ 0 \in 0 .. MaxGen /\ Epoch \in Time /\ Time \subseteq Nat \ {0}
  BY ConstantsOK DEF Time

LEMMA InitType == Init => TypeOK
<1> SUFFICES ASSUME Init PROVE TypeOK
  OBVIOUS
<1>1. now \in Time /\ up \in BOOLEAN /\ quiet \in BOOLEAN /\ created \in SUBSET Path
  BY Zenon, ZenonT(60), Bounds DEF Init
<1>2. writers \in [Path -> [Gen -> Writer]]
  BY WriterTypes DEF Init
<1>3. /\ born \in [Path -> 0 .. MaxGen]
      /\ registry \in [Path -> 0 .. MaxGen]
      /\ uploads \in [Path -> 0 .. MaxGen]
  BY Bounds DEF Init
<1>4. /\ shares \in [Path -> File \cup {NoFile}]
      /\ incoming \in [Path -> File \cup {NoFile}]
      /\ told \in [Path -> [Client -> {0} \cup Time]]
  BY DEF Init
<1>5. QED
  BY <1>1, <1>2, <1>3, <1>4 DEF TypeOK

(* Leasing a set of shares that exist keeps the type. *)
LEMMA RenewType ==
  ASSUME TypeOK, NEW c \in Client, NEW S \in SUBSET Exists(shares)
  PROVE  Renew(S, c) \in [Path -> File \cup {NoFile}]
<1> USE DEF TypeOK
<1>1. \A p \in S : p \in Path /\ shares[p] \in File
  BY DEF Exists
<1>2. \A p \in S : WithLease(shares[p], c) \in File
  BY Zenon, ZenonT(60), <1>1, FileTypes
<1>3. QED
  BY <1>1, <1>2 DEF Renew

LEMMA RenewedExist ==
  ASSUME NEW si, NEW c, NEW S \in RenewedPaths(Bucket(si) \cap Exists(shares), c)
  PROVE  S \in SUBSET Exists(shares)
  BY DEF RenewedPaths

LEMMA PromiseType ==
  ASSUME TypeOK, NEW c \in Client, NEW S, Promise(S, c)
  PROVE  told' \in [Path -> [Client -> {0} \cup Time]]
  BY DEF TypeOK, Promise

LEMMA AllocateType ==
  ASSUME TypeOK, NEW c \in Client, NEW si \in SI, NEW sharenums \in SUBSET ShNum,
         NEW proto \in {"foolscap", "http"}, allocate_buckets(c, si, sharenums, proto)
  PROVE  TypeOK'
<1> DEFINE got == Bucket(si) \cap Exists(shares)
<1>1. PICK S \in RenewedPaths(got, c), A \in Accepted(si, sharenums) :
         /\ shares' = Renew(S, c)
         /\ IF S = got
              THEN CreateWriters(A, c, proto) /\ Promise(S, c)
              ELSE UNCHANGED <<incoming, born, writers, registry, uploads, told>>
  BY DEF allocate_buckets
<1>2. shares' \in [Path -> File \cup {NoFile}]
  BY <1>1, RenewType, RenewedExist
<1>3. CASE S = got
  <2>1. A \subseteq {si} \X sharenums
    BY DEF Accepted, Wanted
  <2>2. \A p \in A : p \in Path /\ born[p] < MaxGen /\ born[p] + 1 \in Gen
    BY <2>1, ConstantsOK DEF allocate_buckets, TypeOK, Path, Gen
  <2>3. WithLease([data |-> Blank, leases |-> NoLeases], c) \in File
    BY Zenon, ZenonT(60), FileTypes, BlankFile DEF TypeOK
  <2>4. incoming' \in [Path -> File \cup {NoFile}]
    BY Zenon, ZenonT(60), <1>1, <1>3, <2>3 DEF CreateWriters, TypeOK
  <2>5. NewWriter(c, proto) \in Writer
    BY WriterTypes
  <2>6. writers' \in [Path -> [Gen -> Writer]]
    <3>1. \A p \in A : [writers[p] EXCEPT ![born[p] + 1] = NewWriter(c, proto)] \in [Gen -> Writer]
      BY <2>2, <2>5 DEF TypeOK
    <3>2. writers \in [Path -> [Gen -> Writer]]
      BY DEF TypeOK
    <3>3. writers' = [p \in Path |->
            IF p \in A THEN [writers[p] EXCEPT ![born[p] + 1] = NewWriter(c, proto)]
                       ELSE writers[p]]
      BY <1>1, <1>3 DEF CreateWriters
    <3>4. QED
      BY <3>1, <3>2, <3>3
  <2>7. /\ born' \in [Path -> 0 .. MaxGen]
        /\ registry' \in [Path -> 0 .. MaxGen]
        /\ uploads' \in [Path -> 0 .. MaxGen]
    <3>1. \A p \in A : born[p] + 1 \in 0 .. MaxGen
      BY <2>2, Bounds DEF Gen
    <3>2. /\ born \in [Path -> 0 .. MaxGen]
          /\ registry \in [Path -> 0 .. MaxGen]
          /\ uploads \in [Path -> 0 .. MaxGen]
      BY DEF TypeOK
    <3>3. QED
      BY <1>1, <1>3, <3>1, <3>2 DEF CreateWriters
  <2>8. told' \in [Path -> [Client -> {0} \cup Time]]
    BY <1>1, <1>3, PromiseType
  <2>9. QED
    BY <1>2, <2>4, <2>6, <2>7, <2>8 DEF allocate_buckets, TypeOK
<1>4. CASE S # got
  BY <1>1, <1>2, <1>4 DEF allocate_buckets, TypeOK
<1>5. QED
  BY <1>3, <1>4

(* Closing and aborting a writer keep the type. *)
LEMMA CloseType ==
  ASSUME TypeOK, NEW p \in Path, NEW g \in Gen, NEW f \in File \cup {NoFile}, close(p, g, f)
  PROVE  /\ shares' \in [Path -> File \cup {NoFile}]
         /\ incoming' \in [Path -> File \cup {NoFile}]
         /\ writers' \in [Path -> [Gen -> Writer]]
         /\ registry' \in [Path -> 0 .. MaxGen]
         /\ uploads' \in [Path -> 0 .. MaxGen]
<1>1. Closed(writers[p][g]) \in Writer
  BY WriterTypes DEF TypeOK
<1>2. QED
  BY <1>1, ConstantsOK DEF close, bucket_writer_closed, TypeOK

LEMMA AbortType ==
  ASSUME TypeOK, NEW p \in Path, NEW g \in Gen, abort(p, g)
  PROVE  /\ shares' \in [Path -> File \cup {NoFile}]
         /\ incoming' \in [Path -> File \cup {NoFile}]
         /\ writers' \in [Path -> [Gen -> Writer]]
         /\ registry' \in [Path -> 0 .. MaxGen]
         /\ uploads' \in [Path -> 0 .. MaxGen]
<1>1. Closed(writers[p][g]) \in Writer
  BY WriterTypes DEF TypeOK
<1>2. CASE writers[p][g].state = "closed"
  BY <1>2 DEF abort, TypeOK
<1>3. CASE writers[p][g].state # "closed"
  <2>1. /\ incoming' = [incoming EXCEPT ![p] = NoFile]
        /\ writers' = [writers EXCEPT ![p][g] = Closed(@)]
        /\ bucket_writer_closed(p, g)
        /\ UNCHANGED shares
    BY <1>3 DEF abort
  <2>2. writers' \in [Path -> [Gen -> Writer]]
    BY <1>1, <2>1 DEF TypeOK
  <2>3. QED
    BY <2>1, <2>2, Bounds DEF bucket_writer_closed, TypeOK
<1>4. QED
  BY <1>2, <1>3

LEMMA DisconnectedType ==
  ASSUME TypeOK, NEW p \in Path, NEW g \in Gen, disconnected(p, g)
  PROVE  TypeOK'
<1>1. \A w \in Writer : MarkerDone(w) \in Writer
  BY DEF MarkerDone, Writer
<1>2. writers \in [Path -> [Gen -> Writer]]
  BY DEF TypeOK
<1>3. MarkerDone(writers[p][g]) \in Writer /\ MarkerDone(Closed(writers[p][g])) \in Writer
  BY <1>1, <1>2, WriterTypes
<1>4. CASE writers[p][g].state = "closed"
  <2>1. writers' \in [Path -> [Gen -> Writer]]
    BY <1>2, <1>3, <1>4 DEF disconnected
  <2>2. QED
    BY <2>1, <1>4 DEF disconnected, TypeOK
<1>5. CASE writers[p][g].state # "closed"
  <2>1. writers' \in [Path -> [Gen -> Writer]]
    BY <1>2, <1>3, <1>5 DEF disconnected
  <2>2. incoming' = [incoming EXCEPT ![p] = NoFile] /\ bucket_writer_closed(p, g)
    BY <1>5 DEF disconnected
  <2>3. UNCHANGED <<now, up, quiet, shares, born, told, created>>
    BY DEF disconnected
  <2>4. QED
    BY <2>1, <2>2, <2>3, Bounds DEF bucket_writer_closed, TypeOK
<1>6. QED
  BY <1>4, <1>5

LEMMA LoseType ==
  ASSUME TypeOK, NEW c \in Client, LoseConnection(c)
  PROVE  TypeOK'
<1> DEFINE lost(w) == [w EXCEPT !.ref = FALSE,
                                !.marker = IF @ = "registered" THEN "fired" ELSE @]
<1>1. \A w \in Writer : lost(w) \in Writer
  BY Zenon, ZenonT(60) DEF Writer
<1>2. writers' = [p \in Path |-> [g \in Gen |->
         IF writers[p][g].client # c THEN writers[p][g] ELSE lost(writers[p][g])]]
  BY Zenon, ZenonT(60) DEF LoseConnection
<1>3. writers \in [Path -> [Gen -> Writer]]
  BY DEF TypeOK
<1> HIDE DEF lost
<1>4. writers' \in [Path -> [Gen -> Writer]]
  BY <1>1, <1>2, <1>3
<1>5. QED
  BY Zenon, ZenonT(60), <1>4 DEF LoseConnection, TypeOK

LEMMA WriteType ==
  ASSUME TypeOK, NEW p \in Path, NEW c \in Client, NEW lo \in Pos,
         NEW hi \in 1 .. (Size + 1), NEW v \in Val,
         incoming[p] \in File, write_share_data(p, c, lo, hi, v)
  PROVE  TypeOK'
<1> DEFINE g     == uploads[p]
           stops == Conflicts(incoming[p], lo .. (hi - 1), v)
                    \cup {i \in lo .. (hi - 1) : i >= Size}
           end   == IF stops = {} THEN hi ELSE Min(stops)
           f     == Store(incoming[p], lo .. (end - 1), v)
           done  == stops = {} /\ _is_finished(f)
<1>1. f \in File
  BY Zenon, ZenonT(60), FileTypes DEF TypeOK
<1>2. g \in Gen
  BY Bounds DEF write_share_data, get_write_bucket, TypeOK, Gen
<1>3. CASE done
  <2>1. close(p, g, f) /\ created' = created \cup {p}
    BY <1>3 DEF write_share_data
  <2>2. QED
    BY Zenon, ZenonT(60), <2>1, <1>1, <1>2, CloseType DEF write_share_data, TypeOK
<1>4. CASE ~ done
  <2>1. /\ incoming' = [incoming EXCEPT ![p] = f]
        /\ UNCHANGED <<shares, writers, registry, uploads, created>>
    BY <1>4 DEF write_share_data
  <2> HIDE DEF f
  <2>2. QED
    BY <2>1, <1>1 DEF write_share_data, TypeOK
<1>5. QED
  BY <1>3, <1>4

LEMMA ProcessType ==
  ASSUME TypeOK, NEW si \in SI, process_bucket(si)
  PROVE  TypeOK'
<1>1. \A p \in Path : shares[p] # NoFile => process_share(shares[p]) \in File \cup {NoFile}
  BY FileTypes DEF TypeOK
<1>2. shares' \in [Path -> File \cup {NoFile}]
  BY <1>1 DEF process_bucket, TypeOK
<1>3. QED
  BY <1>2 DEF process_bucket, TypeOK

LEMMA GoneType ==
  ASSUME TypeOK, Gone, incoming' \in [Path -> File \cup {NoFile}]
  PROVE  TypeOK'
<1>1. writers' \in [Path -> [Gen -> Writer]]
  BY WriterTypes DEF Gone
<1>2. QED
  BY Zenon, ZenonT(60), <1>1, Bounds DEF Gone, TypeOK

(***************************************************************************)
(* TypeOK is not inductive alone: a write needs to know that the writer it *)
(* goes through has a file in incoming/, which WriterRegistry says.        *)
(***************************************************************************)
IInv == TypeOK /\ WriterRegistry

(* An open writer has a file. *)
LEMMA OpenHasFile ==
  ASSUME IInv, up, NEW p \in Path, NEW g \in Gen,
         writers[p][g].state = "open" \/ registry[p] = g
  PROVE  /\ incoming[p] \in File /\ shares[p] = NoFile /\ registry[p] = g
         /\ writers[p][g].state = "open"
  BY Bounds DEF IInv, TypeOK, WriterRegistry, Gen

LEMMA UploadIsOpen ==
  ASSUME IInv, up, NEW p \in Path, uploads[p] # 0
  PROVE  uploads[p] \in Gen /\ registry[p] = uploads[p]
  BY Bounds DEF IInv, TypeOK, WriterRegistry, Gen

(* Only a writer that exists can be the object of an event. *)
LEMMA EventsNameWriters ==
  ASSUME IInv, NEW p \in Path, NEW g \in Gen,
         writers[p][g].timer \/ writers[p][g].ref \/ writers[p][g].marker = "fired"
  PROVE  writers[p][g].state \in {"open", "closed"}
<1>1. writers[p][g] \in Writer
  BY DEF IInv, TypeOK
<1>2. writers[p][g] # NoWriters[g]
  BY DEF NoWriters
<1>3. writers[p][g].state # "unborn"
  BY <1>2 DEF IInv, WriterRegistry
<1>4. QED
  BY <1>1, <1>3 DEF Writer

LEMMA NextType ==
  ASSUME IInv, [Next]_vars
  PROVE  TypeOK'
<1> USE DEF IInv
<1>1. ASSUME NEW c \in Client, NEW si \in SI, NEW sharenums \in SUBSET ShNum,
             NEW proto \in {"foolscap", "http"}, allocate_buckets(c, si, sharenums, proto)
      PROVE  TypeOK'
  BY <1>1, AllocateType
<1>2. ASSUME NEW c \in Client, NEW p \in Path, NEW lo \in Pos, NEW hi \in 1 .. (Size + 1),
             NEW v \in Val, write_share_data(p, c, lo, hi, v)
      PROVE  TypeOK'
  <2>1. up /\ uploads[p] # 0
    BY <1>2 DEF write_share_data, get_write_bucket
  <2>2. incoming[p] \in File
    BY <2>1, UploadIsOpen, OpenHasFile
  <2>3. QED
    BY <1>2, <2>2, WriteType
<1>3. ASSUME NEW c \in Client, NEW p \in Path, abort_share_upload(p, c)
      PROVE  TypeOK'
  <2>1. up /\ uploads[p] \in Gen
    BY <1>3, UploadIsOpen DEF abort_share_upload, get_write_bucket
  <2>2. QED
    BY <1>3, <2>1, AbortType DEF abort_share_upload, TypeOK
<1>4. ASSUME NEW c \in Client, NEW si \in SI, add_lease(c, si) \/ renew_lease(c, si)
      PROVE  TypeOK'
  <2>1. CASE add_lease(c, si)
    <3>1. PICK S \in RenewedPaths(Bucket(si) \cap Exists(shares), c) :
            /\ shares' = Renew(S, c)
            /\ Promise(S, c) \/ UNCHANGED told
      BY <2>1 DEF add_lease
    <3>2. shares' \in [Path -> File \cup {NoFile}]
      BY <3>1, RenewedExist, RenewType
    <3>3. told' \in [Path -> [Client -> {0} \cup Time]]
      BY <3>1, PromiseType DEF TypeOK
    <3>4. QED
      BY <2>1, <3>2, <3>3 DEF add_lease, TypeOK
  <2>2. CASE renew_lease(c, si)
    <3>1. PICK S \in SUBSET Exists(shares) : shares' = Renew(S, c)
      BY <2>2 DEF renew_lease
    <3>2. shares' \in [Path -> File \cup {NoFile}]
      BY <3>1, RenewType
    <3>3. QED
      BY <2>2, <3>2 DEF renew_lease, TypeOK
  <2>3. QED
    BY <1>4, <2>1, <2>2
<1>5. ASSUME NEW p \in Path, NEW g \in Gen, NEW lo \in Pos, NEW hi \in 1 .. Size,
             NEW v \in Val, remote_write(p, g, lo, hi, v)
      PROVE  TypeOK'
  <2>1. incoming[p] \in File
    BY <1>5, OpenHasFile DEF remote_write, callable
  <2>2. Store(incoming[p], lo .. (hi - 1), v) \in File
    BY Zenon, ZenonT(60), <2>1, FileTypes DEF TypeOK
  <2>3. QED
    BY <1>5, <2>2 DEF remote_write, TypeOK
<1>6. ASSUME NEW p \in Path, NEW g \in Gen, remote_close(p, g)
      PROVE  TypeOK'
  <2>1. incoming[p] \in File
    BY <1>6, OpenHasFile DEF remote_close, callable
  <2>2. QED
    BY <1>6, <2>1, CloseType DEF remote_close, TypeOK
<1>7. ASSUME NEW p \in Path, NEW g \in Gen, remote_abort(p, g) \/ _abort_due_to_timeout(p, g)
      PROVE  TypeOK'
  BY <1>7, AbortType DEF remote_abort, _abort_due_to_timeout, TypeOK
<1>8. ASSUME NEW p \in Path, NEW g \in Gen, disconnected(p, g)
      PROVE  TypeOK'
  BY <1>8, DisconnectedType
<1>9. ASSUME NEW c \in Client, LoseConnection(c)
      PROVE  TypeOK'
  BY <1>9, LoseType
<1>10. ASSUME NEW si \in SI, process_bucket(si)
       PROVE  TypeOK'
  BY <1>10, ProcessType
<1>11. CASE stopService \/ Crash
  <2>1. incoming' \in [Path -> File \cup {NoFile}]
    BY <1>11 DEF stopService, Crash, TypeOK
  <2>2. QED
    BY <1>11, <2>1, GoneType DEF stopService, Crash
<1>12. CASE Start
  BY <1>12 DEF Start, TypeOK
<1>13. CASE Tick
  <2>1. now' \in Time
    BY <1>13, ConstantsOK DEF Tick, TypeOK, Time
  <2>2. QED
    BY <1>13, <2>1 DEF Tick, TypeOK
<1>14. CASE UNCHANGED vars
  BY <1>14 DEF TypeOK, vars
<1>15. QED
  BY <1>1, <1>2, <1>3, <1>4, <1>5, <1>6, <1>7, <1>8, <1>9, <1>10, <1>11, <1>12, <1>13, <1>14
     DEF Next, ClientRequest, WriterCall

=============================================================================
