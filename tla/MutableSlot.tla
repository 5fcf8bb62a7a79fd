---------------------------- MODULE MutableSlot -----------------------------
(***************************************************************************)
(* A mutable slot of a storage server: the share containers of             *)
(* storage/mutable.py (MutableShareFile) and the test-and-set operation    *)
(* of storage/server.py that works on all shares of a slot.                *)
(*                                                                         *)
(* A container is a header (data length, offset of the extra leases, a few *)
(* lease slots), the data area, and after it the extra leases: a count and *)
(* the records.  Growing the data moves the extra leases.  The area after  *)
(* the header is a sequence of cells that do not know what they are: the   *)
(* same zeros can be read as data, as a count or as an empty lease.        *)
(*                                                                         *)
(* Each operation is the sequence of states its writes to the disk go      *)
(* through, and may be cut short after any of them.                        *)
(***************************************************************************)
EXTENDS Integers, Sequences, SequencesExt, FiniteSets

CONSTANTS
  ShNum,      \* share numbers of the slot
  Client,     \* holders of leases; all of them know the write enabler
  NoClient,
  NoFile,     \* no container under this share number
  Slots,      \* lease slots of the header (4)
  MAX_SIZE,   \* largest container, in cells
  Room,       \* whether the disk has room for extra lease records
  MaxNow,     \* bound: the time at which the clock stops
  MaxCrashes, \* bound: interrupted operations
  MaxVectors, \* bound: write vectors per share and call
  TestVectors, WriteVectors, NewLengths   \* what the clients send; -1 for no new length

ASSUME MutableSlotAssumption ==
  /\ IsFiniteSet(ShNum) /\ IsFiniteSet(Client) /\ NoClient \notin Client
  /\ Slots \in Nat /\ MAX_SIZE \in Nat /\ MaxNow \in Nat /\ MaxCrashes \in Nat
  /\ MaxVectors \in Nat /\ Room \in SUBSET BOOLEAN
  /\ \A v \in WriteVectors : v.offset \in Nat /\ v.data \in Seq(Nat)
  /\ \A v \in TestVectors : v.offset \in Nat /\ v.length \in Nat
  /\ NewLengths \subseteq Nat \cup {-1}

VARIABLES
  now,      \* the clock; leases last until this time
  slot,     \* the container of each share, or NoFile
  crashes   \* operations that were interrupted

vars == <<now, slot, crashes>>

(* Definitions with a suffix, below, are mutated forms: what a slip in the *)
(* code would make of the definition that follows.                         *)

(* A cell: a data byte, the count of extra leases, a lease record; zero    *)
(* bytes are the same cell whatever they were written as.                  *)
Cell(kind, c, n) == IF n = 0 THEN [kind |-> "zero", client |-> NoClient, n |-> 0]
                    ELSE [kind |-> kind, client |-> c, n |-> n]
Zero        == Cell("zero", NoClient, 0)
Byte(v)     == Cell("byte", NoClient, v)
Count(n)    == Cell("count", NoClient, n)
Lease(c, t) == Cell("lease", c, t)
Cells       == [kind : {"zero", "byte", "count", "lease"}, client : Client \cup {NoClient}, n : Nat]

Container == [data_length : Nat, extra_lease_offset : Nat, slots : [1 .. Slots -> Cells],
              area : Seq(Cells)]

create == [data_length |-> 0, extra_lease_offset |-> 0,
           slots |-> [i \in 1 .. Slots |-> Zero], area |-> <<Count(0)>>]

(* f.seek(off); f.write(x) and f.seek(off); f.read(n) on the area *)
Put(a, off, x) ==
  LET end == off + Len(x)
      at(i) == IF i > off /\ i <= end THEN x[i - off] ELSE IF i <= Len(a) THEN a[i] ELSE Zero
  IN  IF x = <<>> THEN a ELSE [i \in 1 .. (IF end > Len(a) THEN end ELSE Len(a)) |-> at(i)]

Get(a, off, n) == SubSeq(a, off + 1, IF off + n > Len(a) THEN Len(a) ELSE off + n)

Zeros(n) == [i \in 1 .. n |-> Zero]
Bytes(d) == [i \in DOMAIN d |-> Byte(d[i])]

EndOf(f, states) == IF states = <<>> THEN f ELSE Last(states)

-----------------------------------------------------------------------------
(* Data *)
_read_share_data(f, offset, length) ==
  LET n == IF offset + length > f.data_length THEN f.data_length - offset ELSE length
  IN  IF n <= 0 THEN <<>> ELSE Get(f.area, offset, n)

_read_num_extra_leases(f) == f.area[f.extra_lease_offset + 1].n

_change_container_size(f, n) ==
  LET size  == 1 + _read_num_extra_leases(f)
      block == Get(f.area, f.extra_lease_offset, size)
      blank == [f EXCEPT !.area = Put(@, f.extra_lease_offset, Zeros(size))]
      moved == [blank EXCEPT !.area = Put(@, n, block)]
  IN  IF n < f.extra_lease_offset THEN <<>>
      ELSE <<blank, moved, [moved EXCEPT !.extra_lease_offset = n]>>

(* DataTooLargeError, raised before anything of this vector is written *)
TooLarge(f, v) ==
  LET end == v.offset + Len(v.data)
  IN  end >= f.data_length /\ end > f.extra_lease_offset /\ end > MAX_SIZE

(* newly exposed space is not filled *)
_write_share_data_gap(f, v) ==
  LET end   == v.offset + Len(v.data)
      grown == IF end >= f.data_length /\ end > f.extra_lease_offset
               THEN _change_container_size(f, end) ELSE <<>>
      sized == [EndOf(f, grown) EXCEPT !.data_length = IF end >= @ THEN end ELSE @]
  IN  grown \o <<sized, [sized EXCEPT !.area = Put(@, v.offset, Bytes(v.data))]>>

(* the data length is written before the leases are moved *)
_write_share_data_early(f, v) ==
  LET end   == v.offset + Len(v.data)
      sized == [f EXCEPT !.data_length = IF end >= @ THEN end ELSE @]
      grown == IF end >= f.data_length /\ end > f.extra_lease_offset
               THEN _change_container_size(sized, end) ELSE <<>>
      big   == EndOf(sized, grown)
  IN  <<sized>> \o grown \o <<[big EXCEPT !.area = Put(@, v.offset, Bytes(v.data))]>>

_write_share_data(f, v) ==
  LET end   == v.offset + Len(v.data)
      grows == end >= f.data_length
      grown == IF grows /\ end > f.extra_lease_offset
               THEN _change_container_size(f, end) ELSE <<>>
      big   == EndOf(f, grown)
      fill  == [big EXCEPT !.area = Put(@, f.data_length, Zeros(v.offset - f.data_length))]
      sized == [fill EXCEPT !.data_length = end]
      last(g) == [g EXCEPT !.area = Put(@, v.offset, Bytes(v.data))]
  IN  IF grows THEN grown \o <<fill, sized, last(sized)>> ELSE <<last(f)>>

(* writev: the vectors in turn, up to the first that is too large; then,   *)
(* if none was, cut the data to new_length.                                *)
writev(f, datav, new_length) ==
  LET step(acc, v) ==
        LET g == EndOf(f, acc.states)
        IN  IF ~ acc.ok \/ TooLarge(g, v) THEN [acc EXCEPT !.ok = FALSE]
            ELSE [acc EXCEPT !.states = @ \o _write_share_data(g, v)]
      written == FoldLeft(step, [states |-> <<>>, ok |-> TRUE], datav)
      g == EndOf(f, written.states)
  IN  IF written.ok /\ new_length # -1 /\ new_length < g.data_length
      THEN [written EXCEPT !.states = Append(@, [g EXCEPT !.data_length = new_length])]
      ELSE written

check_testv(f, testv) ==
  \A t \in testv :
    LET data == IF f = NoFile THEN <<>> ELSE _read_share_data(f, t.offset, t.length)
    IN  data = Bytes(t.specimen)

-----------------------------------------------------------------------------
(* Leases.  Record i is a slot of the header, or an extra one.  Reading a  *)
(* record that the count promises but the file does not have fails.        *)
Records(f)      == 1 .. Slots + _read_num_extra_leases(f)
At(f, i)        == f.extra_lease_offset + 1 + (i - Slots)
LeaseAt(f, i)   == IF i <= Slots THEN f.slots[i] ELSE f.area[At(f, i)]
Readable(f)     == f.extra_lease_offset + 1 + _read_num_extra_leases(f) <= Len(f.area)
get_leases(f)   == {LeaseAt(f, i) : i \in {j \in Records(f) : LeaseAt(f, j).n # 0}}
Held(f, c)      == {i \in Records(f) : LeaseAt(f, i).client = c}
Least(S)        == CHOOSE i \in S : \A j \in S : i <= j

_write_lease_record(f, i, l) ==
  IF i <= Slots THEN <<[f EXCEPT !.slots[i] = l]>>
  ELSE LET n       == _read_num_extra_leases(f)
           counted == [f EXCEPT !.area = Put(@, f.extra_lease_offset, <<Count(n + 1)>>)]
           put(g)  == [g EXCEPT !.area = Put(@, At(f, i) - 1, <<l>>)]
       IN  IF i - Slots <= n THEN <<put(f)>> ELSE <<counted, put(counted)>>

Empty(f)  == {i \in Records(f) : LeaseAt(f, i).n = 0}
NeedsRoom(f, c) == Held(f, c) = {} /\ Empty(f) = {}

add_lease(f, c) ==
  _write_lease_record(f, IF Empty(f) # {} THEN Least(Empty(f))
                         ELSE Slots + _read_num_extra_leases(f) + 1, Lease(c, now))

renew_lease(f, c) ==
  LET i == Least(Held(f, c))
  IN  IF now > LeaseAt(f, i).n THEN _write_lease_record(f, i, Lease(c, now)) ELSE <<>>

add_or_renew_lease(f, c) ==
  IF Held(f, c) # {} THEN renew_lease(f, c) ELSE add_lease(f, c)

(* blank the records one by one; NoFile for the unlink after the last *)
cancel_lease(f, c) ==
  LET recs   == SetToSortSeq(Held(f, c), <)
      blanks == FoldLeft(LAMBDA st, i : st \o _write_lease_record(EndOf(f, st), i, Zero),
                         <<>>, recs)
  IN  IF \E i \in Records(f) : LeaseAt(f, i).n # 0 /\ LeaseAt(f, i).client # c
      THEN blanks ELSE Append(blanks, NoFile)

-----------------------------------------------------------------------------
(***************************************************************************)
(* slot_testv_and_readv_and_writev.  tw gives a test vector, a list of     *)
(* write vectors and a new length for some of the share numbers, which the *)
(* code goes through in some order.  An exception (DataTooLargeError in a  *)
(* write, NoSpace in a lease) ends the call and leaves what was done.      *)
(* The result is the states of the slot and whether an exception was       *)
(* raised; room says whether there is space for a new lease record.        *)
(***************************************************************************)
Requests == [test : SUBSET TestVectors, datav : Seq(WriteVectors), new_length : NewLengths]

_evaluate_test_vectors(tw) == \A s \in DOMAIN tw : check_testv(slot[s], tw[s].test)

Lift(sl, s, states) == [i \in DOMAIN states |-> [sl EXCEPT ![s] = states[i]]]

(* one share: unlink it, or create it if it is missing and write *)
WriteShare(acc, s, tw) ==
  LET sl  == EndOf(slot, acc.states)
      new == IF sl[s] = NoFile THEN <<create>> ELSE <<>>
      w   == writev(EndOf(sl[s], new), tw[s].datav, tw[s].new_length)
  IN  IF ~ acc.ok THEN acc
      ELSE IF tw[s].new_length = 0
      THEN [acc EXCEPT !.states = Append(@, [sl EXCEPT ![s] = NoFile])]
      ELSE [states |-> acc.states \o Lift(sl, s, new \o w.states), ok |-> w.ok]

LeaseShare(acc, s, tw, c, room) ==
  LET sl == EndOf(slot, acc.states)
      f  == sl[s]
  IN  IF ~ acc.ok \/ tw[s].new_length = 0 THEN acc
      ELSE IF ~ Readable(f) \/ (NeedsRoom(f, c) /\ ~ room) THEN [acc EXCEPT !.ok = FALSE]
      ELSE [acc EXCEPT !.states = @ \o Lift(sl, s, add_or_renew_lease(f, c))]

Apply(tw, order, c, room) ==
  LET written == FoldLeft(LAMBDA acc, s : WriteShare(acc, s, tw),
                          [states |-> <<>>, ok |-> TRUE], order)
  IN  FoldLeft(LAMBDA acc, s : LeaseShare(acc, s, tw, c, room), written, order)

Orders(S) == {o \in [1 .. Cardinality(S) -> S] : \A s \in S : \E i \in DOMAIN o : o[i] = s}

slot_testv_and_readv_and_writev(tw, c) ==
  /\ _evaluate_test_vectors(tw)
  /\ \E order \in Orders(DOMAIN tw), room \in Room :
       slot' = EndOf(slot, Apply(tw, order, c, room).states)
  /\ UNCHANGED <<now, crashes>>

Interrupted(states) ==
  /\ crashes < MaxCrashes
  /\ \E k \in 1 .. Len(states) - 1 : slot' = states[k]
  /\ crashes' = crashes + 1
  /\ UNCHANGED now

InterruptedWrite(tw, c) ==
  /\ _evaluate_test_vectors(tw)
  /\ \E order \in Orders(DOMAIN tw), room \in Room :
       Interrupted(Apply(tw, order, c, room).states)

(* the server's add_lease: every share of the slot in turn *)
Leased(order, c, room) ==
  FoldLeft(LAMBDA acc, s :
             LeaseShare(acc, s, [x \in ShNum |-> [new_length |-> -1]], c, room),
           [states |-> <<>>, ok |-> TRUE], order)

Present == {s \in ShNum : slot[s] # NoFile}

LeaseSlot(c) ==
  /\ \E order \in Orders(Present), room \in Room :
       slot' = EndOf(slot, Leased(order, c, room).states)
  /\ UNCHANGED <<now, crashes>>

(* the expirer cancels a lease of one share *)
cancel(s, c) ==
  /\ slot[s] # NoFile
  /\ Readable(slot[s])
  /\ Held(slot[s], c) # {}
  /\ slot' = [slot EXCEPT ![s] = Last(cancel_lease(slot[s], c))]
  /\ UNCHANGED <<now, crashes>>

(* blanking the last lease and unlinking the file are two steps *)
InterruptedCancel(s, c) ==
  /\ slot[s] # NoFile
  /\ Readable(slot[s])
  /\ Held(slot[s], c) # {}
  /\ Interrupted(Lift(slot, s, cancel_lease(slot[s], c)))

Tick ==
  /\ now < MaxNow
  /\ now' = now + 1
  /\ UNCHANGED <<slot, crashes>>

Init == now = 1 /\ slot = [s \in ShNum |-> NoFile] /\ crashes = 0

Inputs ==
  LET datavs == UNION {[1 .. n -> WriteVectors] : n \in 0 .. MaxVectors}
      tests  == {{}} \cup {{t} : t \in TestVectors}
      one    == [test : tests, datav : datavs, new_length : NewLengths]
  IN  UNION {[S -> one] : S \in SUBSET ShNum \ {{}}}

Next ==
  \/ \E c \in Client, tw \in Inputs :
       slot_testv_and_readv_and_writev(tw, c) \/ InterruptedWrite(tw, c)
  \/ \E c \in Client : LeaseSlot(c)
  \/ \E c \in Client, s \in ShNum : cancel(s, c) \/ InterruptedCancel(s, c)
  \/ Tick

Spec == Init /\ [][Next]_vars

-----------------------------------------------------------------------------
(* Type invariant. *)
TypeOK ==
  /\ now \in 1 .. MaxNow /\ crashes \in 0 .. MaxCrashes
  /\ \A s \in ShNum : slot[s] # NoFile =>
       /\ slot[s].data_length \in Nat /\ slot[s].extra_lease_offset \in Nat
       /\ slot[s].slots \in [1 .. Slots -> Cells]
       /\ Range(slot[s].area) \subseteq Cells

(* The regions of a container do not run into each other, even after an    *)
(* interrupted operation: the data ends before the extra leases begin,     *)
(* their count is in the file and reads as a count, and every extra record *)
(* that is there reads as a lease.  (_change_container_size must move the  *)
(* leases before _write_share_data grows the data over them.)              *)
RegionsApart ==
  \A s \in ShNum : slot[s] # NoFile =>
    LET f == slot[s]
    IN  /\ f.data_length <= f.extra_lease_offset
        /\ f.extra_lease_offset < Len(f.area)
        /\ f.area[f.extra_lease_offset + 1].kind \in {"zero", "count"}
        /\ \A i \in Slots + 1 .. Slots + _read_num_extra_leases(f) :
             At(f, i) <= Len(f.area) => f.area[At(f, i)].kind \in {"zero", "lease"}
        /\ \A i \in 1 .. f.data_length : f.area[i].kind \in {"zero", "byte"}

(* A lease is never written twice, and only an interruption between the    *)
(* count and the record of a new extra lease (_write_lease_record) makes   *)
(* the leases of a share unreadable.                                       *)
LeasesUnique ==
  \A s \in ShNum : slot[s] # NoFile /\ crashes = 0 =>
    Readable(slot[s]) /\ \A c \in Client : Cardinality(Held(slot[s], c)) <= 1

(***************************************************************************)
(* The slot keeps the promise of SlotPromise.                              *)
(***************************************************************************)
Contents == [s \in ShNum |-> IF slot[s] = NoFile THEN <<>>
               ELSE [i \in 1 .. slot[s].data_length |-> slot[s].area[i].n]]

LeaseTable == [s \in ShNum |-> [c \in Client |->
                 IF crashes > 0 \/ slot[s] = NoFile \/ Held(slot[s], c) = {} THEN 0
                 ELSE LeaseAt(slot[s], Least(Held(slot[s], c))).n]]

Promise == INSTANCE SlotPromise
  WITH data <- Contents, here <- Present, leases <- LeaseTable, intact <- (crashes = 0)

(* Every call has the effect the interface documents: writes and cuts act  *)
(* on the bytes as on a string, gaps read as zeros whatever the            *)
(* container held there before, data that was cut off never comes back,    *)
(* the leases of other clients survive moving, and an interrupted call     *)
(* damages no byte outside its own ranges.                                 *)
KeepsPromise == Promise!Spec

=============================================================================
