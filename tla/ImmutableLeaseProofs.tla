------------------------ MODULE ImmutableLeaseProofs ------------------------
(***************************************************************************)
(* The leases behind what clients were told, for any number of shares,     *)
(* clients and writers, any disk and any expiration policy.                *)
(***************************************************************************)
EXTENDS ImmutableContentProofs

(* The provers tried, in this order, where a step names none. *)
USE SMTT(20), ZenonT(20), SMTT(60)

(***************************************************************************)
(* What a client was promised.  The lease behind a promise runs at least   *)
(* until one Duration after it was made, and a lease that lasts longer     *)
(* never expires before a shorter one: so as long as the policy does not   *)
(* let a lease granted at told[p][c] expire, the share is there and c has  *)
(* such a lease on it.                                                     *)
(***************************************************************************)
Standing(p, c) == told[p][c] # 0 /\ ~ Expired(told[p][c] + Duration)

(* Expired, at a time t. *)
OutAt(t, exp) ==
  \/ Mode = "age" /\ t - (exp - Duration) > (IF Override = 0 THEN exp ELSE Override)
  \/ Mode = "cutoff-date" /\ exp - Duration < Cutoff

LeaseBehind ==
  \A p \in Path, c \in Client :
    /\ told[p][c] <= now
    /\ Standing(p, c) => shares[p] # NoFile /\ shares[p].leases[c] >= told[p][c] + Duration

CreatedWhole == \A p \in created : shares[p] # NoFile /\ Written(shares[p]) = Pos

PInv == LeaseBehind /\ CreatedWhole

LEMMA LeaseTypes ==
  ASSUME IInv, NEW p \in Path, NEW c \in Client
  PROVE  /\ now \in Nat \ {0} /\ Duration \in Nat
         /\ told \in [Path -> [Client -> Nat]] /\ told[p][c] \in Nat
         /\ shares[p] # NoFile => /\ shares[p] \in File
                                  /\ shares[p].leases \in [Client -> Nat]
                                  /\ shares[p].leases[c] \in Nat
<1>1. now \in Nat \ {0} /\ Duration \in Nat
  BY Bounds, ConstantsOK DEF IInv, TypeOK
<1>2. told \in [Path -> [Client -> Nat]]
  <2>1. told \in [Path -> [Client -> {0} \cup Time]]
    BY Zenon, ZenonT(60) DEF IInv, TypeOK
  <2>2. {0} \cup Time \subseteq Nat
    BY Bounds
  <2>3. ASSUME NEW q \in Path PROVE told[q] \in [Client -> Nat]
    BY <2>1, <2>2
  <2>4. QED
    BY <2>1, <2>3
<1>3. told[p][c] \in Nat
  BY <1>2
<1>4. ASSUME shares[p] # NoFile
      PROVE  shares[p] \in File /\ shares[p].leases \in [Client -> Nat]
  <2>1. shares[p] \in File
    BY <1>4 DEF IInv, TypeOK
  <2>2. {0} \cup (Epoch + Duration .. MaxNow + Duration) \subseteq Nat
    BY ConstantsOK
  <2>3. shares[p].leases \in Leases
    BY <2>1 DEF File
  <2>4. QED
    BY <2>1, <2>2, <2>3 DEF Leases
<1>5. QED
  BY <1>1, <1>2, <1>3, <1>4

(* A longer lease outlasts a shorter one, and no lease comes back to life. *)
LEMMA ExpiresInOrder ==
  ASSUME NEW t \in Nat, NEW u \in Nat, NEW e \in Nat, NEW f \in Nat, t <= u
  PROVE  /\ e <= f /\ OutAt(t, f) => OutAt(t, e)
         /\ OutAt(t, e) => OutAt(u, e)
  BY ConstantsOK DEF OutAt

LEMMA ExpiredIsOut == \A e : Expired(e) <=> OutAt(now, e)
  BY Zenon, ZenonT(60), ConstantsOK DEF Expired, OutAt, GrantRenewTime

LEMMA StandingNext ==
  ASSUME NEW p \in Path, NEW c \in Client
  PROVE  Standing(p, c)' <=> told'[p][c] # 0 /\ ~ OutAt(now', told'[p][c] + Duration)
<1>1. Expired(told[p][c] + Duration)' <=> OutAt(now', told'[p][c] + Duration)
  BY Zenon, ZenonT(60), ConstantsOK DEF Expired, OutAt, GrantRenewTime
<1>2. QED
  BY <1>1 DEF Standing

LEMMA StandingNow ==
  ASSUME NEW p \in Path, NEW c \in Client
  PROVE  Standing(p, c) <=> told[p][c] # 0 /\ ~ OutAt(now, told[p][c] + Duration)
  BY ExpiredIsOut DEF Standing

(* Steps that leave shares, promises and the clock alone. *)
LEMMA PromiseStays ==
  ASSUME PInv, UNCHANGED <<now, shares, told, created>>
  PROVE  PInv'
<1>1. \A p \in Path, c \in Client : Standing(p, c)' <=> Standing(p, c)
  BY StandingNow, StandingNext
<1>2. QED
  BY <1>1 DEF PInv, LeaseBehind, CreatedWhole, Written

(* Steps that renew leases: allocate_buckets, add_lease and renew_lease. *)
LEMMA PromiseRenewed ==
  ASSUME IInv, PInv, NEW c \in Client, NEW S \in SUBSET Exists(shares), shares' = Renew(S, c),
         UNCHANGED <<now, created>>, UNCHANGED told \/ Promise(S, c)
  PROVE  PInv'
<1>1. ASSUME NEW p \in Path, NEW d \in Client
      PROVE  /\ told'[p][d] <= now
             /\ told'[p][d] # told[p][d] => p \in S /\ d = c /\ told'[p][d] = now
  BY <1>1, LeaseTypes DEF PInv, LeaseBehind, Promise
<1>2. ASSUME NEW p \in Path
      PROVE  /\ shares[p] = NoFile => shares'[p] = NoFile
             /\ shares[p] # NoFile =>
                  /\ shares'[p] # NoFile /\ shares'[p].data = shares[p].data
                  /\ \A d \in Client : shares'[p].leases[d] =
                       IF p \in S /\ d = c THEN now + Duration ELSE shares[p].leases[d]
             /\ p \in S => shares[p] # NoFile
  <2>1. p \in S => shares[p] # NoFile
    BY DEF Exists
  <2>2. CASE shares[p] = NoFile
    BY <2>1, <2>2 DEF Renew
  <2>3. CASE shares[p] # NoFile
    <3>1. shares[p] \in File /\ shares[p].leases \in [Client -> Nat]
      BY <2>3, LeaseTypes
    <3>2. WithLease(shares[p], c) \in File
      BY Zenon, ZenonT(60), <3>1, FileTypes DEF IInv, TypeOK
    <3>3. /\ WithLease(shares[p], c).data = shares[p].data
          /\ \A d \in Client : WithLease(shares[p], c).leases[d] =
               IF d = c THEN now + Duration ELSE shares[p].leases[d]
      BY <3>1 DEF WithLease, File
    <3>4. WithLease(shares[p], c) # NoFile
      BY <3>2, ConstantsOK
    <3>5. QED
      BY <2>3, <3>3, <3>4 DEF Renew
  <2>4. QED
    BY <2>1, <2>2, <2>3
<1>3. ASSUME NEW p \in Path, NEW d \in Client, Standing(p, d)'
      PROVE  shares'[p] # NoFile /\ shares'[p].leases[d] >= told'[p][d] + Duration
  <2>1. CASE told'[p][d] # told[p][d]
    <3>1. p \in S /\ d = c /\ told'[p][d] = now
      BY <1>1, <2>1
    <3>2. QED
      BY <1>2, <3>1, LeaseTypes
  <2>2. CASE told'[p][d] = told[p][d]
    <3>1. Standing(p, d)
      BY <1>3, <2>2, StandingNow, StandingNext
    <3>2. shares[p] # NoFile /\ shares[p].leases[d] >= told[p][d] + Duration /\ told[p][d] <= now
      BY <3>1 DEF PInv, LeaseBehind
    <3>3. QED
      BY <1>2, <2>2, <3>2, LeaseTypes
  <2>3. QED
    BY <2>1, <2>2
<1>4. CreatedWhole'
  BY <1>2 DEF PInv, CreatedWhole, Written, IInv, TypeOK
<1>5. QED
  BY <1>1, <1>3, <1>4 DEF PInv, LeaseBehind

(* A share appears where none was: nobody had been promised it. *)
LEMMA PromiseClosed ==
  ASSUME IInv, PInv, NEW p \in Path, NEW f \in File, shares[p] = NoFile,
         shares' = [shares EXCEPT ![p] = f], UNCHANGED <<now, told>>,
         created' = created \/ (created' = created \cup {p} /\ Written(f) = Pos)
  PROVE  PInv'
<1>1. \A q \in Path : shares'[q] = IF q = p THEN f ELSE shares[q]
  BY DEF IInv, TypeOK
<1>2. ASSUME NEW q \in Path, NEW d \in Client, Standing(q, d)'
      PROVE  shares'[q] # NoFile /\ shares'[q].leases[d] >= told'[q][d] + Duration
  <2>1. Standing(q, d)
    BY <1>2, StandingNow, StandingNext
  <2>2. shares[q] # NoFile /\ shares[q].leases[d] >= told[q][d] + Duration
    BY <2>1 DEF PInv, LeaseBehind
  <2>3. QED
    BY <1>1, <2>2
<1>3. LeaseBehind'
  BY <1>2 DEF PInv, LeaseBehind
<1>4. f # NoFile
  BY ConstantsOK
<1>5. created \subseteq Path
  BY DEF IInv, TypeOK
<1>6. \A q \in created' : shares'[q] # NoFile /\ Written(shares'[q]) = Pos
  BY <1>1, <1>4, <1>5 DEF PInv, CreatedWhole
<1>7. CreatedWhole'
  BY <1>6 DEF CreatedWhole, Written
<1>8. QED
  BY <1>3, <1>7 DEF PInv

(* The expirer cancels no lease behind a promise that stands, and so keeps  *)
(* the share.                                                               *)
LEMMA PromiseProcessed ==
  ASSUME IInv, PInv, NEW si \in SI, process_bucket(si)
  PROVE  PInv'
<1>1. /\ UNCHANGED <<now, told>>
      /\ created' = {p \in created : shares'[p] # NoFile}
      /\ \A p \in Path :
           \/ shares'[p] = shares[p]
           \/ shares[p] # NoFile /\ shares'[p] = process_share(shares[p])
  <2>1. /\ UNCHANGED <<now, told>>
        /\ created' = {p \in created : shares'[p] # NoFile}
        /\ shares' = [p \in Path |-> IF p \in Bucket(si) /\ shares[p] # NoFile
                                      THEN process_share(shares[p]) ELSE shares[p]]
    BY Zenon, ZenonT(60) DEF process_bucket
  <2>2. QED
    BY Zenon, ZenonT(60), <2>1
<1>2. ASSUME NEW p \in Path, NEW c \in Client, Standing(p, c), shares[p] # NoFile,
             shares[p].leases[c] >= told[p][c] + Duration
      PROVE  process_share(shares[p]) # NoFile /\ process_share(shares[p]).leases[c] = shares[p].leases[c]
  <2> DEFINE f == shares[p]
             doomed == {d \in Leased(f) : Expired(f.leases[d])}
  <2>1. f \in File /\ f.leases[c] \in Nat /\ told[p][c] \in Nat /\ now \in Nat \ {0} /\ Duration \in Nat
    BY <1>2, LeaseTypes
  <2>2. told[p][c] # 0 /\ ~ Expired(told[p][c] + Duration)
    BY <1>2 DEF Standing
  <2>3. told[p][c] + Duration \in Nat /\ f.leases[c] # 0
    BY <1>2, <2>1, <2>2
  <2>4. ~ Expired(f.leases[c])
    BY <1>2, <2>1, <2>2, <2>3, ExpiresInOrder, ExpiredIsOut
  <2>5. c \in Leased(f) /\ c \notin doomed
    BY <2>3, <2>4 DEF Leased
  <2>6. process_share(f) = cancel_lease(f, doomed)
    BY <2>5 DEF process_share
  <2> HIDE DEF doomed
  <2>7. cancel_lease(f, doomed) \in File
    BY Zenon, ZenonT(60), <2>1, FileTypes DEF IInv, TypeOK
  <2>8. cancel_lease(f, doomed).leases[c] = f.leases[c]
    BY <2>1, <2>5 DEF cancel_lease, File
  <2>9. QED
    BY <2>6, <2>7, <2>8, ConstantsOK
<1>3. ASSUME NEW p \in Path, NEW c \in Client, Standing(p, c)'
      PROVE  shares'[p] # NoFile /\ shares'[p].leases[c] >= told'[p][c] + Duration
  <2>1. Standing(p, c)
    BY <1>1, <1>3, StandingNow, StandingNext
  <2>2. shares[p] # NoFile /\ shares[p].leases[c] >= told[p][c] + Duration
    BY <2>1 DEF PInv, LeaseBehind
  <2>3. QED
    BY <1>1, <1>2, <2>1, <2>2
<1>4. LeaseBehind'
  BY <1>1, <1>3 DEF PInv, LeaseBehind
<1>5. ASSUME NEW p \in created'
      PROVE  shares'[p] # NoFile /\ Written(shares'[p]) = Pos
  <2>1. p \in Path /\ p \in created /\ shares'[p] # NoFile
    BY <1>1, <1>5 DEF IInv, TypeOK
  <2>2. shares[p] # NoFile /\ Written(shares[p]) = Pos /\ shares[p] \in File
    BY <2>1 DEF PInv, CreatedWhole, IInv, TypeOK
  <2>3. shares'[p].data = shares[p].data
    BY <1>1, <2>1, <2>2, ProcessKeepsData
  <2>4. QED
    BY <2>1, <2>2, <2>3 DEF Written
<1>6. CreatedWhole'
  BY <1>5 DEF CreatedWhole, Written
<1>7. QED
  BY <1>4, <1>6 DEF PInv

LEMMA PromiseTick ==
  ASSUME IInv, PInv, Tick
  PROVE  PInv'
<1>1. now' = now + 1 /\ UNCHANGED <<shares, told, created>>
  BY DEF Tick
<1>2. ASSUME NEW p \in Path, NEW c \in Client
      PROVE  /\ told'[p][c] <= now'
             /\ Standing(p, c)' => shares'[p] # NoFile /\ shares'[p].leases[c] >= told'[p][c] + Duration
  <2>1. told[p][c] \in Nat /\ now \in Nat /\ Duration \in Nat /\ told[p][c] + Duration \in Nat
    BY LeaseTypes
  <2>2. told[p][c] <= now
    BY DEF PInv, LeaseBehind
  <2>3. Standing(p, c)' => Standing(p, c)
    <3>1. OutAt(now, told[p][c] + Duration) => OutAt(now', told[p][c] + Duration)
      BY <1>1, <2>1, ExpiresInOrder
    <3>2. QED
      BY <1>1, <3>1, StandingNow, StandingNext
  <2>4. QED
    BY <1>1, <2>1, <2>2, <2>3 DEF PInv, LeaseBehind
<1>3. CreatedWhole'
  BY <1>1 DEF PInv, CreatedWhole, Written
<1>4. QED
  BY <1>2, <1>3 DEF PInv, LeaseBehind

LEMMA PromiseStep ==
  ASSUME IInv, PInv, [Next]_vars
  PROVE  PInv'
<1>1. ASSUME NEW c \in Client, NEW si \in SI, NEW sharenums \in SUBSET ShNum,
             NEW proto \in {"foolscap", "http"}, allocate_buckets(c, si, sharenums, proto)
      PROVE  PInv'
  <2> DEFINE got == Bucket(si) \cap Exists(shares)
  <2>1. PICK S \in RenewedPaths(got, c), A \in Accepted(si, sharenums) :
          /\ shares' = Renew(S, c)
          /\ IF S = got
               THEN CreateWriters(A, c, proto) /\ Promise(S, c)
               ELSE UNCHANGED <<incoming, born, writers, registry, uploads, told>>
    BY <1>1 DEF allocate_buckets
  <2>2. UNCHANGED <<now, created>>
    BY <1>1 DEF allocate_buckets
  <2>3. S \in SUBSET Exists(shares) /\ (UNCHANGED told \/ Promise(S, c))
    BY <2>1, RenewedExist
  <2>4. QED
    BY <2>1, <2>2, <2>3, PromiseRenewed
<1>2. ASSUME NEW c \in Client, NEW si \in SI, add_lease(c, si) \/ renew_lease(c, si)
      PROVE  PInv'
  <2>1. UNCHANGED <<now, created>>
    BY <1>2 DEF add_lease, renew_lease
  <2>2. PICK S \in SUBSET Exists(shares) :
          shares' = Renew(S, c) /\ (UNCHANGED told \/ Promise(S, c))
    BY <1>2, RenewedExist DEF add_lease, renew_lease
  <2>3. QED
    BY <2>1, <2>2, PromiseRenewed
<1>3. ASSUME NEW c \in Client, NEW p \in Path, NEW lo \in Pos, NEW hi \in 1 .. (Size + 1),
             NEW v \in Val, write_share_data(p, c, lo, hi, v)
      PROVE  PInv'
  <2>1. incoming[p] \in File /\ shares[p] = NoFile
    BY <1>3, UploadIsOpen, OpenHasFile DEF write_share_data, get_write_bucket
  <2>2. PICK f : /\ \E R : f = Store(incoming[p], R, v)
                 /\ \/ shares' = [shares EXCEPT ![p] = f] /\ created' = created \cup {p} /\ _is_finished(f)
                    \/ UNCHANGED <<shares, created>>
                 /\ UNCHANGED <<now, told>>
    BY <1>3 DEF write_share_data, close
  <2>3. f \in File
    <3>1. PICK R : f = Store(incoming[p], R, v)
      BY Zenon, ZenonT(60), <2>2
    <3>2. now \in Time
      BY Zenon, ZenonT(60) DEF IInv, TypeOK
    <3>3. QED
      BY Zenon, ZenonT(60), <2>1, <3>1, <3>2, FileTypes
  <2>4. QED
    BY <2>1, <2>2, <2>3, PromiseClosed, PromiseStays DEF _is_finished
<1>4. ASSUME NEW p \in Path, NEW g \in Gen, remote_close(p, g)
      PROVE  PInv'
  <2>1. incoming[p] \in File /\ shares[p] = NoFile
    BY <1>4, OpenHasFile DEF remote_close, callable
  <2>2. shares' = [shares EXCEPT ![p] = incoming[p]] /\ UNCHANGED <<now, told, created>>
    BY <1>4 DEF remote_close, close
  <2>3. QED
    BY Zenon, ZenonT(60), <2>1, <2>2, PromiseClosed
<1>5. ASSUME NEW c \in Client, NEW p \in Path, abort_share_upload(p, c)
      PROVE  PInv'
  BY <1>5, PromiseStays DEF abort_share_upload, abort
<1>6. ASSUME NEW p \in Path, NEW g \in Gen, remote_abort(p, g) \/ _abort_due_to_timeout(p, g)
      PROVE  PInv'
  BY <1>6, PromiseStays DEF remote_abort, _abort_due_to_timeout, abort
<1>7. ASSUME NEW p \in Path, NEW g \in Gen, disconnected(p, g)
      PROVE  PInv'
  BY <1>7, PromiseStays DEF disconnected
<1>8. ASSUME NEW p \in Path, NEW g \in Gen, NEW lo \in Pos, NEW hi \in 1 .. Size, NEW v \in Val,
             remote_write(p, g, lo, hi, v)
      PROVE  PInv'
  BY <1>8, PromiseStays DEF remote_write
<1>9. ASSUME NEW c \in Client, LoseConnection(c)
      PROVE  PInv'
  BY Zenon, ZenonT(60), <1>9, PromiseStays DEF LoseConnection
<1>10. ASSUME NEW si \in SI, process_bucket(si)
       PROVE  PInv'
  BY <1>10, PromiseProcessed
<1>11. CASE stopService \/ Crash \/ Start
  BY <1>11, PromiseStays DEF stopService, Crash, Gone, Start
<1>12. CASE Tick
  BY <1>12, PromiseTick
<1>13. CASE UNCHANGED vars
  BY <1>13, PromiseStays DEF vars
<1>14. QED
  BY <1>1, <1>2, <1>3, <1>4, <1>5, <1>6, <1>7, <1>8, <1>9, <1>10, <1>11, <1>12, <1>13
     DEF Next, ClientRequest, WriterCall

LEMMA InitPromise == Init => PInv
  BY Bounds DEF Init, PInv, LeaseBehind, CreatedWhole, Standing

(* The policies that let a lease run for its duration: no override shorter *)
(* than it, no cutoff date after the start.  (docs/garbage-collection.rst: *)
(* a shorter override or a later date takes shares away earlier, as the    *)
(* operator then asked.)                                                   *)
KeepsDuration ==
  /\ Mode = "age" => Override = 0 \/ Override >= Duration
  /\ Mode = "cutoff-date" => Cutoff <= Epoch

LEMMA PromiseMeansKept ==
  ASSUME KeepsDuration, IInv, PInv
  PROVE  PromiseKept
<1>1. ASSUME NEW p \in Path, NEW c \in Client, told[p][c] # 0, now <= told[p][c] + Duration
      PROVE  shares[p] # NoFile
  <2>1. told[p][c] \in Nat /\ now \in Nat /\ Duration \in Nat
    BY LeaseTypes
  <2>2. told[p][c] \in Nat /\ told[p][c] >= Epoch
    BY <1>1, ConstantsOK DEF IInv, TypeOK, Time
  <2>3. ~ OutAt(now, told[p][c] + Duration)
    BY <1>1, <2>1, <2>2, ConstantsOK DEF OutAt, KeepsDuration
  <2>4. Standing(p, c)
    BY <1>1, <2>3, StandingNow
  <2>5. QED
    BY <2>4 DEF PInv, LeaseBehind
<1>2. QED
  BY <1>1 DEF PromiseKept, PInv, CreatedWhole

LEMMA PromiseInductive == Spec => []PInv
<1>1. IInv /\ PInv /\ [Next]_vars => PInv'
  BY PromiseStep
<1>2. QED
  BY <1>1, InitPromise, Inductive, PTL DEF Spec

(* Under every expiration policy: a client that was told of a share has it *)
(* on disk, with a lease of its own, for as long as the policy keeps a     *)
(* lease granted when it was told; and a share that was answered with      *)
(* CREATED is whole until its leases expire (allocate_buckets, add_lease,  *)
(* process_bucket).                                                        *)
THEOREM LeasesHonoured == Spec => [](LeaseBehind /\ CreatedWhole)
  BY PromiseInductive, PTL DEF PInv

(* Under a policy that lets leases run, PromiseKept: the promise made by   *)
(* allocate_buckets and add_lease holds for one lease duration.            *)
THEOREM PromiseCorrect == KeepsDuration => (Spec => []PromiseKept)
<1> SUFFICES ASSUME KeepsDuration PROVE Spec => []PromiseKept
  OBVIOUS
<1>1. IInv /\ PInv => PromiseKept
  BY PromiseMeansKept
<1>2. QED
  BY <1>1, PromiseInductive, Inductive, PTL

=============================================================================
