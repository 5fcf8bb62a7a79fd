---------------------------- MODULE MCContainers ----------------------------
(* The share containers of a storage server, one at a time: the variable   *)
(* container, which never changes, says which of four small instances a    *)
(* behaviour is about.  "layout" is one mutable share, "vectors" one that   *)
(* is written with two vectors per call and may be too small, "pair" two    *)
(* shares of a slot under test and set, "immutable" an immutable share.     *)
EXTENDS MutableSlot, TLC

CONSTANTS One, DataLen, MaxLeases, MaxShareTime, MaxShareCrashes

VARIABLES container, exists, count, cells

W(o, d)    == [offset |-> o, data |-> d]
T(o, n, d) == [offset |-> o, length |-> n, specimen |-> d]

(* growing by less and by more than the lease block, leaving a gap,        *)
(* overwriting, writing nothing, not fitting                               *)
LayoutWrites == {W(0, <<1>>), W(1, <<2, 1>>), W(3, <<2>>), W(2, <<>>)}
LayoutTests  == {}
Lengths      == {-1, 0, 1}

Vectors == INSTANCE MutableSlot WITH
             MaxVectors <- 2, MAX_SIZE <- 3, WriteVectors <- {W(0, <<1>>), W(1, <<2, 1>>), W(3, <<2>>)}
Pair    == INSTANCE MutableSlot WITH
             ShNum <- {0, 1}, Client <- One, MAX_SIZE <- 2, MaxCrashes <- 0, MaxNow <- 2, Room <- {TRUE},
             WriteVectors <- {W(0, <<1>>)}, NewLengths <- {-1, 0},
             TestVectors <- {T(0, 1, <<>>), T(0, 1, <<1>>)}
Share   == INSTANCE ShareFile WITH MaxNow <- MaxShareTime, MaxCrashes <- MaxShareCrashes

shareVars == <<exists, count, cells>>
mcVars    == <<container, vars, shareVars>>

NoShareFile == exists = FALSE /\ count = 0 /\ cells = <<>>

MCInit ==
  \/ container = "layout"    /\ Init         /\ NoShareFile
  \/ container = "vectors"   /\ Vectors!Init /\ NoShareFile
  \/ container = "pair"      /\ Pair!Init    /\ NoShareFile
  \/ container = "immutable" /\ Share!Init   /\ slot = <<>>

MCNext ==
  \/ container = "layout"    /\ Next         /\ UNCHANGED <<container, shareVars>>
  \/ container = "vectors"   /\ Vectors!Next /\ UNCHANGED <<container, shareVars>>
  \/ container = "pair"      /\ Pair!Next    /\ UNCHANGED <<container, shareVars>>
  \/ container = "immutable" /\ Share!Next   /\ UNCHANGED <<container, slot>>

MCSpec == MCInit /\ [][MCNext]_mcVars

Symmetry == Permutations(Client)

-----------------------------------------------------------------------------
OneShare == container = "layout"
Kept == INSTANCE SlotPromise WITH
  now    <- IF OneShare THEN now ELSE 1,
  data   <- IF OneShare THEN Contents ELSE [s \in ShNum |-> <<>>],
  here   <- IF OneShare THEN Present ELSE {},
  leases <- IF OneShare THEN LeaseTable ELSE [s \in ShNum |-> [c \in Client |-> 0]],
  intact <- IF OneShare THEN crashes = 0 ELSE TRUE

(* KeepsPromise of MutableSlot: a mutable share implements SlotPromise,    *)
(* the byte string and lease table that the comments of                    *)
(* slot_testv_and_readv_and_writev describe.                               *)
SlotKeepsPromise == Kept!Spec

(* What a reader of a container relies on, whatever was interrupted or     *)
(* refused.  RegionsApart of MutableSlot: data, lease count and extra      *)
(* leases never overlap (_write_share_data).  LeasesUnique: uninterrupted, *)
(* add_or_renew_lease never leaves a client with two leases or one that    *)
(* cannot be read.  DataIntact of ShareFile: no lease operation on an      *)
(* immutable share reaches its data.  And the fields stay well typed.       *)
ContainersSound ==
  /\ container = "layout"    => TypeOK /\ RegionsApart /\ LeasesUnique
  /\ container = "vectors"   => Vectors!TypeOK /\ Vectors!RegionsApart /\ Vectors!LeasesUnique
  /\ container = "pair"      => Pair!TypeOK /\ Pair!RegionsApart /\ Pair!LeasesUnique
  /\ container = "immutable" => Share!TypeOK /\ Share!DataIntact
=============================================================================
