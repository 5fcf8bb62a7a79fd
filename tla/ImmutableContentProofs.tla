----------------------- MODULE ImmutableContentProofs -----------------------
(***************************************************************************)
(* The contents of the shares and the space they take, for any number of   *)
(* shares, clients and writers, any disk and any expiration policy.        *)
(***************************************************************************)
EXTENDS ImmutableStorageProofs, FiniteSetTheorems

(* The provers tried, in this order, where a step names none. *)
USE SMTT(20), ZenonT(20), SMTT(60)

(***************************************************************************)
(* What a step does to the contents of the files, in three kinds.  Most    *)
(* steps are Settled: no share appears, contents stay or go, and no writer *)
(* is registered.  An allocation also registers writers, within the space  *)
(* left.  Storing, through either protocol, adds to the file of one        *)
(* registered writer, and may move it to its final home.                   *)
(***************************************************************************)
Registered == {p \in Path : registry[p] # 0}

ContentsStay ==
  \A p \in Path :
    /\ shares[p] = NoFile => shares'[p] = NoFile
    /\ shares[p] # NoFile => shares'[p] = NoFile \/ shares'[p].data = shares[p].data
    /\ incoming[p] # NoFile => incoming'[p] \in {NoFile, incoming[p]}

Settled == ContentsStay /\ Registered' \subseteq Registered

Allocates(A) ==
  /\ A \subseteq Path
  /\ A # {} => Size * Cardinality(A) <= remaining_space
  /\ ContentsStay
  /\ Registered' \subseteq Registered \cup A

Stores(p, f) ==
  /\ incoming[p] # NoFile /\ shares[p] = NoFile /\ registry[p] # 0
  /\ \A i \in Written(incoming[p]) : f.data[i] = incoming[p].data[i]
  /\ \/ incoming'[p] = f /\ shares'[p] = NoFile
     \/ incoming'[p] = NoFile /\ shares'[p] = f
  /\ \A q \in Path \ {p} : incoming'[q] = incoming[q] /\ shares'[q] = shares[q]
  /\ Registered' \subseteq Registered

(* A lease leaves the contents of a share alone. *)
LEMMA RenewKeepsData ==
  ASSUME IInv, NEW c \in Client, NEW S \in SUBSET Exists(shares), shares' = Renew(S, c)
  PROVE  \A p \in Path : /\ shares[p] = NoFile => shares'[p] = NoFile
                         /\ shares[p] # NoFile => shares'[p].data = shares[p].data
<1>1. \A f \in File : WithLease(f, c).data = f.data
  BY DEF WithLease, File
<1>2. \A p \in Path : shares[p] # NoFile => shares[p] \in File
  BY DEF IInv, TypeOK
<1>3. QED
  BY <1>1, <1>2 DEF Renew, Exists

LEMMA ProcessKeepsData ==
  ASSUME NEW f \in File
  PROVE  process_share(f) = NoFile \/ process_share(f).data = f.data
  BY DEF process_share, cancel_lease, File

(* A write without a conflict changes nothing that was written before. *)
LEMMA StoreKeeps ==
  ASSUME NEW f \in File, NEW R, NEW v \in Val, Conflicts(f, R, v) = {}
  PROVE  \A i \in Written(f) : Store(f, R, v).data[i] = f.data[i]
  BY DEF Store, Conflicts, Written, File

LEMMA LeastStop ==
  ASSUME NEW T \in SUBSET Nat, T # {}
  PROVE  Min(T) \in T /\ \A i \in T : Min(T) <= i
<1> DEFINE R == OpToRel(<, Nat)
<1>1. PICK x \in T : \A y \in T : ~ (<<y, x>> \in R)
  <2>1. IsWellFoundedOn(R, Nat)
    BY Zenon, ZenonT(60), NatLessThanWellFounded
  <2> HIDE DEF R
  <2>2. QED
    BY Zenon, ZenonT(60), <2>1, WFMin
<1>2. ASSUME NEW y \in T PROVE x <= y
  <2>1. y < x => <<y, x>> \in R
    BY DEF OpToRel
  <2>2. ~ (<<y, x>> \in R)
    BY Zenon, ZenonT(60), <1>1
  <2> HIDE DEF R
  <2>3. QED
    BY <2>1, <2>2
<1>3. QED
  BY Zenon, ZenonT(60), <1>2 DEF Min

(* The chunks written before the first one that conflicts have no conflict. *)
LEMMA StopsInTime ==
  ASSUME NEW f \in File, NEW lo \in Pos, NEW hi \in 1 .. (Size + 1), NEW v \in Val
  PROVE  LET stops == Conflicts(f, lo .. (hi - 1), v) \cup {i \in lo .. (hi - 1) : i >= Size}
             end   == IF stops = {} THEN hi ELSE Min(stops)
         IN  Conflicts(f, lo .. (end - 1), v) = {}
<1> DEFINE stops == Conflicts(f, lo .. (hi - 1), v) \cup {i \in lo .. (hi - 1) : i >= Size}
           end   == IF stops = {} THEN hi ELSE Min(stops)
<1>1. lo \in Nat /\ hi \in Nat /\ stops \in SUBSET Nat
  BY ConstantsOK DEF Pos, Conflicts
<1>2. CASE stops = {}
  BY <1>2
<1>3. CASE stops # {}
  <2>1. end = Min(stops)
    BY <1>3
  <2>2. end \in stops /\ \A i \in stops : end <= i
    BY Zenon, ZenonT(60), <1>1, <1>3, <2>1, LeastStop
  <2>3. end \in Nat /\ end <= hi - 1
    BY <1>1, <2>2 DEF Conflicts
  <2>4. \A i \in lo .. (end - 1) : i \in lo .. (hi - 1) /\ i \notin stops
    <3> HIDE DEF stops, end
    <3>1. QED
      BY <1>1, <2>2, <2>3
  <2>5. QED
    BY <2>4 DEF Conflicts
<1>4. QED
  BY Zenon, ZenonT(60), <1>2, <1>3

LEMMA AllocateKind ==
  ASSUME IInv, NEW c \in Client, NEW si \in SI, NEW sharenums \in SUBSET ShNum,
         NEW proto \in {"foolscap", "http"}, allocate_buckets(c, si, sharenums, proto)
  PROVE  \E A : Allocates(A)
<1> DEFINE got == Bucket(si) \cap Exists(shares)
<1>1. PICK S \in RenewedPaths(got, c), A \in Accepted(si, sharenums) :
         /\ shares' = Renew(S, c)
         /\ IF S = got
              THEN CreateWriters(A, c, proto) /\ Promise(S, c)
              ELSE UNCHANGED <<incoming, born, writers, registry, uploads, told>>
  BY DEF allocate_buckets
<1>2. \A p \in Path : /\ shares[p] = NoFile => shares'[p] = NoFile
                      /\ shares[p] # NoFile => shares'[p].data = shares[p].data
  BY Zenon, ZenonT(60), <1>1, RenewedExist, RenewKeepsData
<1>3. A \subseteq Path /\ \A p \in A : incoming[p] = NoFile
  BY DEF Accepted, Wanted, Path
<1>4. A # {} => Size * Cardinality(A) <= remaining_space
  BY DEF Accepted
<1>5. \A p \in Path : incoming[p] # NoFile => incoming'[p] \in {NoFile, incoming[p]}
  BY <1>1, <1>3 DEF CreateWriters
<1>6. \A p \in Path \ A : registry'[p] = registry[p]
  BY <1>1 DEF CreateWriters
<1>7. Allocates(A)
  BY Zenon, ZenonT(60), <1>2, <1>3, <1>4, <1>5, <1>6 DEF Allocates, ContentsStay, Registered
<1>8. QED
  BY <1>7

LEMMA AbortKind ==
  ASSUME IInv, NEW p \in Path, NEW g \in Gen, abort(p, g)
  PROVE  Settled
  BY DEF abort, bucket_writer_closed, Settled, ContentsStay, Registered, IInv, TypeOK

LEMMA WriteKind ==
  ASSUME IInv, NEW c \in Client, NEW p \in Path, NEW lo \in Pos, NEW hi \in 1 .. (Size + 1),
         NEW v \in Val, write_share_data(p, c, lo, hi, v)
  PROVE  \E f : Stores(p, f)
<1>1. up /\ uploads[p] # 0
  BY Zenon, ZenonT(60) DEF write_share_data, get_write_bucket
<1>2. incoming[p] \in File /\ shares[p] = NoFile /\ registry[p] = uploads[p]
  <2>1. uploads[p] \in Gen /\ registry[p] = uploads[p]
    BY Zenon, ZenonT(60), <1>1, UploadIsOpen
  <2>2. QED
    BY Zenon, ZenonT(60), <1>1, <2>1, OpenHasFile
<1> DEFINE stops == Conflicts(incoming[p], lo .. (hi - 1), v)
                    \cup {i \in lo .. (hi - 1) : i >= Size}
           end   == IF stops = {} THEN hi ELSE Min(stops)
           f     == Store(incoming[p], lo .. (end - 1), v)
<1>3. Conflicts(incoming[p], lo .. (end - 1), v) = {}
  BY Zenon, ZenonT(60), <1>2, StopsInTime
<1>4. close(p, uploads[p], f)
      \/ (incoming' = [incoming EXCEPT ![p] = f] /\ UNCHANGED <<shares, registry>>)
  BY DEF write_share_data
<1> HIDE DEF stops, end
<1>5. \A i \in Written(incoming[p]) : f.data[i] = incoming[p].data[i]
  BY Zenon, ZenonT(60), <1>2, <1>3, StoreKeeps
<1> HIDE DEF f
<1>6. incoming[p] # NoFile
  BY Zenon, ZenonT(60), <1>2, ConstantsOK
<1>7. Stores(p, f)
  BY <1>1, <1>2, <1>4, <1>5, <1>6
     DEF Stores, close, bucket_writer_closed, Registered, IInv, TypeOK
<1>8. QED
  BY <1>7

LEMMA RemoteKind ==
  ASSUME IInv, NEW p \in Path, NEW g \in Gen,
         \/ remote_close(p, g)
         \/ \E lo \in Pos, hi \in 1 .. Size, v \in Val : remote_write(p, g, lo, hi, v)
  PROVE  \E f : Stores(p, f)
<1>1. up /\ writers[p][g].state = "open"
  BY Zenon, ZenonT(60) DEF remote_close, remote_write, callable
<1>2. incoming[p] \in File /\ shares[p] = NoFile /\ registry[p] = g /\ g # 0
  BY <1>1, OpenHasFile DEF Gen
<1>3. incoming[p] # NoFile
  BY <1>2, ConstantsOK
<1>4. CASE remote_close(p, g)
  <2>1. close(p, g, incoming[p])
    BY <1>4 DEF remote_close
  <2>2. Stores(p, incoming[p])
    BY <1>2, <1>3, <2>1 DEF Stores, close, bucket_writer_closed, Registered, IInv, TypeOK
  <2>3. QED
    BY <2>2
<1>5. ASSUME NEW lo \in Pos, NEW hi \in 1 .. Size, NEW v \in Val, remote_write(p, g, lo, hi, v)
      PROVE  \E f : Stores(p, f)
  <2> DEFINE f == Store(incoming[p], lo .. (hi - 1), v)
  <2>1. \A i \in Written(incoming[p]) : f.data[i] = incoming[p].data[i]
    <3>1. Conflicts(incoming[p], lo .. (hi - 1), v) = {}
      BY <1>5 DEF remote_write
    <3>2. QED
      BY Zenon, ZenonT(60), <1>2, <3>1, StoreKeeps
  <2>2. incoming' = [incoming EXCEPT ![p] = f] /\ UNCHANGED <<shares, registry>>
    BY <1>5 DEF remote_write
  <2> HIDE DEF f
  <2>3. Stores(p, f)
    BY <1>2, <1>3, <2>1, <2>2 DEF Stores, Registered, IInv, TypeOK
  <2>4. QED
    BY <2>3
<1>6. QED
  BY <1>4, <1>5

LEMMA StepKinds ==
  ASSUME IInv, [Next]_vars
  PROVE  \/ Settled
         \/ \E A : Allocates(A)
         \/ \E p \in Path : \E f : Stores(p, f)
<1>1. ASSUME NEW c \in Client, NEW si \in SI, NEW sharenums \in SUBSET ShNum,
             NEW proto \in {"foolscap", "http"}, allocate_buckets(c, si, sharenums, proto)
      PROVE  \E A : Allocates(A)
  BY <1>1, AllocateKind
<1>2. ASSUME NEW c \in Client, NEW p \in Path, NEW lo \in Pos, NEW hi \in 1 .. (Size + 1),
             NEW v \in Val, write_share_data(p, c, lo, hi, v)
      PROVE  \E f : Stores(p, f)
  BY <1>2, WriteKind
<1>3. ASSUME NEW c \in Client, NEW p \in Path, abort_share_upload(p, c)
      PROVE  Settled
  <2>1. uploads[p] \in Gen /\ abort(p, uploads[p])
    BY <1>3, UploadIsOpen DEF abort_share_upload, get_write_bucket
  <2>2. QED
    BY <2>1, AbortKind
<1>4. ASSUME NEW c \in Client, NEW si \in SI, add_lease(c, si) \/ renew_lease(c, si)
      PROVE  Settled
  <2>1. UNCHANGED <<incoming, registry>>
    BY <1>4 DEF add_lease, renew_lease
  <2>2. PICK S \in SUBSET Exists(shares) : shares' = Renew(S, c)
    BY <1>4, RenewedExist DEF add_lease, renew_lease
  <2>3. QED
    BY <2>1, <2>2, RenewKeepsData DEF Settled, ContentsStay, Registered
<1>5. ASSUME NEW p \in Path, NEW g \in Gen,
             \/ remote_close(p, g)
             \/ \E lo \in Pos, hi \in 1 .. Size, v \in Val : remote_write(p, g, lo, hi, v)
      PROVE  \E f : Stores(p, f)
  BY <1>5, RemoteKind
<1>6. ASSUME NEW p \in Path, NEW g \in Gen, remote_abort(p, g) \/ _abort_due_to_timeout(p, g)
      PROVE  Settled
  BY <1>6, AbortKind DEF remote_abort, _abort_due_to_timeout
<1>7. ASSUME NEW p \in Path, NEW g \in Gen, disconnected(p, g)
      PROVE  Settled
  BY <1>7
     DEF disconnected, bucket_writer_closed, Settled, ContentsStay, Registered, IInv, TypeOK
<1>8. ASSUME NEW c \in Client, LoseConnection(c)
      PROVE  Settled
  <2>1. UNCHANGED <<shares, incoming, registry>>
    BY Zenon, ZenonT(60), <1>8 DEF LoseConnection
  <2>2. QED
    BY <2>1 DEF Settled, ContentsStay, Registered
<1>9. ASSUME NEW si \in SI, process_bucket(si)
      PROVE  Settled
  <2>1. \A p \in Path : shares[p] # NoFile =>
          process_share(shares[p]) = NoFile \/ process_share(shares[p]).data = shares[p].data
    BY ProcessKeepsData DEF IInv, TypeOK
  <2>2. QED
    BY <1>9, <2>1 DEF process_bucket, Settled, ContentsStay, Registered
<1>10. CASE stopService \/ Crash
  BY <1>10 DEF stopService, Crash, Gone, Settled, ContentsStay, Registered
<1>11. CASE Start \/ Tick \/ UNCHANGED vars
  BY Zenon, ZenonT(60), <1>11 DEF Start, Tick, vars, Settled, ContentsStay, Registered
<1>12. QED
  BY <1>1, <1>2, <1>3, <1>4, <1>5, <1>6, <1>7, <1>8, <1>9, <1>10, <1>11
     DEF Next, ClientRequest, WriterCall

(* A share that can be read never changes, and what an upload has accepted *)
(* stays as written until it is aborted: for any number of writers of a    *)
(* share, over either protocol, in any order (BucketWriter.write's         *)
(* conflict check, and that close moves the file of the registered writer  *)
(* to a place where no share is).                                          *)
THEOREM ContentsCorrect == Spec => SharesImmutable
<1>1. ASSUME IInv, [Next]_vars, NEW p \in Path
      PROVE  /\ shares[p] # NoFile /\ shares'[p] # NoFile => shares'[p].data = shares[p].data
             /\ WriteOnce(p)
  <2>1. CASE ContentsStay
    BY <2>1 DEF ContentsStay, WriteOnce
  <2>2. ASSUME NEW q \in Path, NEW f, Stores(q, f)
        PROVE  /\ shares[p] # NoFile /\ shares'[p] # NoFile => shares'[p].data = shares[p].data
               /\ WriteOnce(p)
    BY <2>2 DEF Stores, WriteOnce
  <2>3. QED
    BY Zenon, ZenonT(60), <1>1, <2>1, <2>2, StepKinds DEF Settled, Allocates
<1>2. IInv /\ [Next]_vars =>
        [\A p \in Path :
           /\ shares[p] # NoFile /\ shares'[p] # NoFile => shares'[p].data = shares[p].data
           /\ WriteOnce(p)]_vars
  BY <1>1
<1>3. QED
  BY <1>2, Inductive, PTL DEF Spec, SharesImmutable

-----------------------------------------------------------------------------
Taken == Exists(shares) \cup Registered

LEMMA PathsFinite == IsFiniteSet(Path)
  BY ConstantsOK, FS_Product DEF Path

LEMMA CountType ==
  ASSUME NEW S \in SUBSET Path
  PROVE  IsFiniteSet(S) /\ Cardinality(S) \in Nat
  BY PathsFinite, FS_Subset, FS_CardinalityType

LEMMA UnionCount ==
  ASSUME NEW S \in SUBSET Path, NEW T \in SUBSET Path
  PROVE  Cardinality(S \cup T) <= Cardinality(S) + Cardinality(T)
<1>1. /\ IsFiniteSet(S) /\ Cardinality(S) \in Nat
      /\ IsFiniteSet(T) /\ Cardinality(T) \in Nat
      /\ Cardinality(S \cap T) \in Nat
  BY CountType
<1>2. Cardinality(S \cup T) = Cardinality(S) + Cardinality(T) - Cardinality(S \cap T)
  BY Zenon, ZenonT(60), <1>1, FS_Union
<1>3. QED
  BY <1>1, <1>2

(* What is taken only grows by what an allocation was given. *)
LEMMA TakenGrows ==
  ASSUME IInv, [Next]_vars
  PROVE  \/ Taken' \subseteq Taken
         \/ \E A : Allocates(A) /\ Taken' \subseteq Taken \cup A
<1>1. ASSUME NEW p \in Path, NEW f, Stores(p, f) PROVE Taken' \subseteq Taken
  BY <1>1 DEF Stores, Taken, Exists, Registered
<1>2. QED
  BY <1>1, StepKinds DEF Settled, Allocates, ContentsStay, Taken, Exists

(* The space an allocation is given is left beside what is taken. *)
LEMMA SpaceLeft ==
  ASSUME NEW A \in SUBSET Path, A # {}, Size * Cardinality(A) <= remaining_space
  PROVE  Size * Cardinality(A) + Size * Cardinality(Registered)
           + Size * Cardinality(Exists(shares)) <= Capacity
<1> DEFINE a == Size * Cardinality(A)
           r == Size * Cardinality(Registered)
           s == Size * Cardinality(Exists(shares))
<1>1. a \in Nat /\ r \in Nat /\ s \in Nat /\ a > 0
  <2>1. Cardinality(A) \in Nat \ {0} /\ IsFiniteSet(A)
    BY CountType, FS_EmptySet
  <2>2. Cardinality(Registered) \in Nat /\ Cardinality(Exists(shares)) \in Nat
    BY CountType DEF Registered, Exists
  <2>3. QED
    BY <2>1, <2>2, ConstantsOK
<1>2. allocated_size = r
  BY DEF allocated_size, Registered
<1> DEFINE w == Cardinality({pi \in Path \X Pos :
                   incoming[pi[1]] # NoFile /\ incoming[pi[1]].data[pi[2]] # Hole})
           l == LeaseSize * (LeaseRecords(shares) + LeaseRecords(incoming))
<1>3. w \in Nat
  <2>1. IsFiniteSet(Path \X Pos)
    <3>1. IsFiniteSet(Pos)
      BY FS_Interval, ConstantsOK DEF Pos
    <3>2. QED
      BY <3>1, PathsFinite, FS_Product
  <2>2. QED
    BY <2>1, FS_Subset, FS_CardinalityType
<1>4. l \in Nat
  <2>1. IsFiniteSet(Path \X Client)
    BY PathsFinite, FS_Product, ConstantsOK
  <2>2. \A dir : LeaseRecords(dir) \in Nat
    BY <2>1, FS_Subset, FS_CardinalityType DEF LeaseRecords
  <2>3. QED
    BY <2>2, ConstantsOK
<1>5. Used = s + w + l
  BY DEF Used
<1>6. a <= (IF ReadOnly \/ Used > Capacity THEN 0 ELSE Capacity - Used) - r
  BY <1>2 DEF remaining_space, get_available_space
<1> HIDE DEF a, r, s, w, l
<1>7. a + r + s <= Capacity
  BY <1>1, <1>3, <1>4, <1>5, <1>6, ConstantsOK
<1>8. QED
  BY <1>7 DEF a, r, s

(* The shares on disk and the uploads the server has accepted always fit   *)
(* on the disk together, for any disk, share size and number of clients    *)
(* (allocate_buckets subtracts allocated_size() from the space left).      *)
THEOREM SpaceCorrect == Spec => []NoOvercommit
<1>1. NoOvercommit <=> Size * Cardinality(Taken) <= Capacity
  BY DEF NoOvercommit, Taken, Registered
<1>2. Init => NoOvercommit
  <2>1. Init => Taken = {}
    BY DEF Init, Taken, Exists, Registered
  <2>2. QED
    BY <1>1, <2>1, FS_EmptySet, ConstantsOK
<1>3. IInv /\ NoOvercommit /\ [Next]_vars => NoOvercommit'
  <2> SUFFICES ASSUME IInv, NoOvercommit, [Next]_vars
               PROVE  Size * Cardinality(Taken') <= Capacity
    BY DEF NoOvercommit, Taken, Registered
  <2>1. Taken \in SUBSET Path /\ Exists(shares) \in SUBSET Path /\ Registered \in SUBSET Path
    BY DEF Taken, Exists, Registered
  <2>2. \A m, n \in Nat : m <= n => Size * m <= Size * n
    BY ConstantsOK
  <2>3. ASSUME NEW U \in SUBSET Path, Size * Cardinality(U) <= Capacity, Taken' \subseteq U
        PROVE  Size * Cardinality(Taken') <= Capacity
    <3>1. Cardinality(Taken') <= Cardinality(U) /\ Cardinality(Taken') \in Nat /\ Cardinality(U) \in Nat
      BY <2>3, CountType, FS_Subset, FS_CardinalityType
    <3>2. Size * Cardinality(Taken') <= Size * Cardinality(U)
      BY <2>2, <3>1
    <3>3. Size * Cardinality(Taken') \in Nat /\ Size * Cardinality(U) \in Nat
      BY <3>1, ConstantsOK
    <3>4. QED
      BY <2>3, <3>2, <3>3, ConstantsOK
  <2>4. CASE Taken' \subseteq Taken
    BY <1>1, <2>1, <2>3, <2>4
  <2>5. ASSUME NEW A, Allocates(A), Taken' \subseteq Taken \cup A, A # {}
        PROVE  Size * Cardinality(Taken') <= Capacity
    <3> DEFINE U == Taken \cup A
    <3>1. A \in SUBSET Path /\ U \in SUBSET Path
      BY <2>1, <2>5 DEF Allocates
    <3>2. Cardinality(U) <= Cardinality(A) + Cardinality(Registered) + Cardinality(Exists(shares))
      <4>1. Cardinality(Taken) <= Cardinality(Exists(shares)) + Cardinality(Registered)
        BY <2>1, UnionCount DEF Taken
      <4>2. Cardinality(U) <= Cardinality(Taken) + Cardinality(A)
        BY <2>1, <3>1, UnionCount
      <4>3. QED
        BY <2>1, <3>1, <4>1, <4>2, CountType
    <3>3. Size * Cardinality(U) <= Capacity
      <4> DEFINE a == Cardinality(A)
                 r == Cardinality(Registered)
                 s == Cardinality(Exists(shares))
                 u == Cardinality(U)
      <4>1. a \in Nat /\ r \in Nat /\ s \in Nat /\ u \in Nat
        BY <2>1, <3>1, CountType
      <4>2. Size * a + Size * r + Size * s <= Capacity
        BY <2>5, <3>1, SpaceLeft DEF Allocates
      <4> HIDE DEF a, r, s, u
      <4>3. Size * (a + r + s) = Size * a + Size * r + Size * s
        BY <4>1, ConstantsOK
      <4>4. Size * u <= Size * (a + r + s)
        BY <2>2, <3>2, <4>1 DEF a, r, s, u
      <4>5. Size * u \in Nat /\ Size * (a + r + s) \in Nat
        BY <4>1, ConstantsOK
      <4>6. Size * u <= Capacity
        BY <4>2, <4>3, <4>4, <4>5, ConstantsOK
      <4>7. QED
        BY <4>6 DEF u
    <3>4. QED
      BY <2>3, <2>5, <3>1, <3>3
  <2>6. QED
    BY <2>4, <2>5, TakenGrows
<1>4. QED
  BY <1>2, <1>3, Inductive, PTL DEF Spec

=============================================================================
