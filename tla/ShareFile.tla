----------------------------- MODULE ShareFile ------------------------------
(***************************************************************************)
(* The file of an immutable share after its upload: ShareFile of           *)
(* storage/immutable.py, one file operation at a time.                     *)
(*                                                                         *)
(* The file is a header with the number of leases, the share data, and the *)
(* lease records up to the end of the file.  Nothing records where the     *)
(* leases begin: every time the file is opened, that is computed from the  *)
(* size of the file and the number in the header.  An operation is the     *)
(* sequence of file states its writes go through; it may be cut short      *)
(* after any of them by the end of the process or an I/O error.            *)
(***************************************************************************)
EXTENDS Integers, Sequences, SequencesExt, FiniteSets

CONSTANTS
  Client,     \* the holders of leases (renew and cancel secret)
  DataLen,    \* length of the share data, in lease records
  MaxNow,     \* bound: the time at which the clock stops
  MaxLeases,  \* what the lease count field can hold
  MaxCrashes  \* bound: interrupted operations

(* A record's worth of the file: share data, or a lease. *)
Data         == [kind |-> "data", client |-> "", expires |-> 0]
Lease(c, t)  == [kind |-> "lease", client |-> c, expires |-> t]
Cell         == {Data} \cup {Lease(c, t) : c \in Client, t \in 1 .. MaxNow}

VARIABLES
  now,      \* the clock; a lease is renewed until this time
  exists,   \* the file is there
  count,    \* number of leases in the header
  cells,    \* the file after its header
  crashes   \* how many operations have been interrupted

vars == <<now, exists, count, cells, crashes>>
File == [count : 0 .. MaxLeases, cells : Seq(Cell)]
file == [count |-> count, cells |-> cells]

(* What opening the file computes. *)
lease_offset(f) == Len(f.cells) - f.count

get_leases(f) == SubSeq(f.cells, lease_offset(f) + 1, Len(f.cells))

read_share_data(f) == SubSeq(f.cells, 1, lease_offset(f))

Overwrite(s, i, x) == IF i > Len(s) THEN Append(s, x) ELSE [s EXCEPT ![i] = x]

_write_lease_record(f, n, l) ==
  [f EXCEPT !.cells = Overwrite(@, lease_offset(file) + n, l)]

_write_num_leases(f, n) == [f EXCEPT !.count = n]

_truncate_leases(f, n) == [f EXCEPT !.cells = SubSeq(@, 1, lease_offset(file) + n)]

(***************************************************************************)
(* The operations, as the states of the file after each of their writes.   *)
(* The offset of the leases is the one computed when the file was opened.  *)
(* Definitions with a suffix are mutated forms: what a slip in the code    *)
(* would make of the definition that follows.                              *)
(***************************************************************************)
Held(c) == {i \in 1 .. count : get_leases(file)[i].kind = "lease" /\ get_leases(file)[i].client = c}

add_lease(c) ==
  LET written == _write_lease_record(file, count + 1, Lease(c, now))
  IN  <<written, _write_num_leases(written, count + 1)>>

(* the first lease with the secret, if its new expiration is later *)
renew_lease(c) ==
  LET i == CHOOSE i \in Held(c) : \A j \in Held(c) : i <= j
  IN  IF now > get_leases(file)[i].expires
      THEN <<_write_lease_record(file, i, Lease(c, now))>> ELSE <<>>

(* rewrite the remaining leases in order, then the count, then truncate *)
cancel_lease(c) ==
  LET keep    == SelectSeq(get_leases(file), LAMBDA l : l.client # c)
      moved   == [k \in 0 .. Len(keep) |->
                    FoldLeftDomain(LAMBDA f, i : _write_lease_record(f, i, keep[i]),
                                   file, SubSeq(keep, 1, k))]
      counted == _write_num_leases(moved[Len(keep)], Len(keep))
  IN  [k \in 1 .. Len(keep) |-> moved[k]]
      \o <<counted, _truncate_leases(counted, Len(keep))>>

-----------------------------------------------------------------------------
Become(f) == count' = f.count /\ cells' = f.cells

Finish(states) ==
  /\ IF states = <<>> THEN UNCHANGED <<count, cells>> ELSE Become(Last(states))
  /\ UNCHANGED <<now, crashes>>

Interrupt(states) ==
  /\ crashes < MaxCrashes
  /\ \E k \in 1 .. Len(states) - 1 : Become(states[k])
  /\ crashes' = crashes + 1
  /\ UNCHANGED <<now, exists>>

(* add_or_renew_lease.  A new lease needs space (NoSpace otherwise) and a  *)
(* count that fits its field (struct.error otherwise).                     *)
add_or_renew_lease(c) ==
  /\ exists
  /\ IF Held(c) # {} THEN Finish(renew_lease(c))
     ELSE count < MaxLeases /\ Finish(add_lease(c))
  /\ UNCHANGED exists

cancel(c) ==
  /\ exists
  /\ Held(c) # {}
  /\ Finish(cancel_lease(c))
  /\ exists' = (\E d \in Client \ {c} : Held(d) # {})

InterruptedAdd(c) ==
  /\ exists
  /\ Held(c) = {}
  /\ count < MaxLeases
  /\ Interrupt(add_lease(c))

InterruptedCancel(c) ==
  /\ exists
  /\ Held(c) # {}
  /\ Interrupt(cancel_lease(c))

Tick ==
  /\ now < MaxNow
  /\ now' = now + 1
  /\ UNCHANGED <<exists, count, cells, crashes>>

(* A share comes from its upload with one lease. *)
Init ==
  /\ now = 1 /\ exists = TRUE /\ crashes = 0
  /\ \E c \in Client :
       cells = [i \in 1 .. DataLen |-> Data] \o <<Lease(c, 1)>>
  /\ count = 1

Next ==
  \/ \E c \in Client :
       \/ add_or_renew_lease(c)
       \/ cancel(c)
       \/ InterruptedAdd(c)
       \/ InterruptedCancel(c)
  \/ Tick

Spec == Init /\ [][Next]_vars

-----------------------------------------------------------------------------
(* Type invariant. *)
TypeOK ==
  /\ now \in 1 .. MaxNow /\ exists \in BOOLEAN /\ crashes \in 0 .. MaxCrashes
  /\ count \in 0 .. MaxLeases
  /\ cells \in Seq(Cell)

(* The share data stays readable and untouched through lease operations    *)
(* and their interruptions: the computed offset never moves into the data, *)
(* because add_lease writes the record before the count and cancel_lease   *)
(* the count before it truncates.                                          *)
DataIntact ==
  exists => /\ lease_offset(file) >= DataLen
            /\ \A i \in 1 .. DataLen : read_share_data(file)[i] = Data

=============================================================================
