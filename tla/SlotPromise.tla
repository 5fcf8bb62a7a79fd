---------------------------- MODULE SlotPromise -----------------------------
(***************************************************************************)
(* What a storage server promises of a mutable slot, as the comments of    *)
(* RIStorageServer.slot_testv_and_readv_and_writev state it: each share is *)
(* a string of bytes and a table of leases; a call compares all its test   *)
(* vectors, then applies all its write vectors or none; a gap before a     *)
(* write is filled with zeros; new_length cuts the data, and 0 deletes the *)
(* share.                                                                  *)
(***************************************************************************)
EXTENDS Integers, Sequences, SequencesExt

CONSTANTS ShNum, Client, Inputs, MaxNow

VARIABLES
  now,
  data,    \* the contents of each share; <<>> also stands for a missing one
  here,    \* the shares that exist
  leases,  \* until when each client has a lease on each share, 0 for none
  intact   \* no call has been interrupted; afterwards leases are not tracked

pvars == <<now, data, here, leases, intact>>

NoLeases == [c \in Client |-> 0]

Read(d, t) == SubSeq(d, t.offset + 1, IF t.offset + t.length > Len(d) THEN Len(d)
                                      ELSE t.offset + t.length)
Passes(tw) == \A s \in DOMAIN tw : \A t \in tw[s].test : Read(data[s], t) = t.specimen

WriteBytes(d, v) ==
  LET end == v.offset + Len(v.data)
  IN  [i \in 1 .. (IF end > Len(d) THEN end ELSE Len(d)) |->
         IF i > v.offset /\ i <= end THEN v.data[i - v.offset]
         ELSE IF i <= Len(d) THEN d[i] ELSE 0]

Cut(d, n) == IF n = -1 \/ n >= Len(d) THEN d ELSE SubSeq(d, 1, n)

After(s, r) == IF r.new_length = 0 THEN <<>>
               ELSE Cut(FoldLeft(WriteBytes, data[s], r.datav), r.new_length)

Deleted(tw) == {s \in DOMAIN tw : tw[s].new_length = 0}
Kept(tw)    == DOMAIN tw \ Deleted(tw)

(* The lease of c on the shares of S; NoSpace may have kept some without. *)
Renewed(S, c, lost) ==
  [s \in ShNum |-> IF ~ intact \/ s \in lost THEN NoLeases
                   ELSE IF s \in S THEN [leases[s] EXCEPT ![c] = now] ELSE leases[s]]

Write(tw, c) ==
  /\ Passes(tw)
  /\ data' = [s \in ShNum |-> IF s \in DOMAIN tw THEN After(s, tw[s]) ELSE data[s]]
  /\ here' = (here \cup Kept(tw)) \ Deleted(tw)
  /\ \E S \in SUBSET Kept(tw) : leases' = Renewed(S, c, Deleted(tw))
  /\ UNCHANGED <<now, intact>>

(* An interrupted call changes no byte outside the ranges it was to write, *)
(* short of what it cuts or deletes.                                       *)
Touched(r) == UNION {v.offset + 1 .. v.offset + Len(v.data) : v \in ToSet(r.datav)}
Damaged(s, r) ==
  \/ data'[s] = data[s]
  \/ r.new_length = 0 /\ data'[s] = <<>>
  \/ \A i \in 1 .. Len(data[s]) : i \notin Touched(r) =>
       IF i <= Len(data'[s]) THEN data'[s][i] = data[s][i]
       ELSE r.new_length # -1 /\ i > r.new_length

Interrupted(tw) ==
  /\ Passes(tw)
  /\ \A s \in ShNum : IF s \in DOMAIN tw THEN Damaged(s, tw[s]) ELSE data'[s] = data[s]
  /\ here \ Deleted(tw) \subseteq here' /\ here' \subseteq here \cup Kept(tw)
  /\ leases' = [s \in ShNum |-> NoLeases]
  /\ intact' = FALSE
  /\ UNCHANGED now

LeaseAll(c) ==
  /\ \E S \in SUBSET here : leases' = Renewed(S, c, {})
  /\ UNCHANGED <<now, data, here, intact>>

(* Cancelling the last lease deletes the share. *)
Cancel(s, c) ==
  /\ s \in here
  /\ LET last == intact => \A d \in Client \ {c} : leases[s][d] = 0
     IN  \/ /\ leases' = [leases EXCEPT ![s][c] = 0]
            /\ last => ~ intact
            /\ UNCHANGED <<data, here>>
         \/ /\ last
            /\ leases' = [leases EXCEPT ![s] = NoLeases]
            /\ data' = [data EXCEPT ![s] = <<>>]
            /\ here' = here \ {s}
  /\ UNCHANGED <<now, intact>>

Forget ==
  /\ leases' = [s \in ShNum |-> NoLeases]
  /\ intact' = FALSE
  /\ UNCHANGED <<now, data, here>>

Tick == now < MaxNow /\ now' = now + 1 /\ UNCHANGED <<data, here, leases, intact>>

Init ==
  /\ now = 1
  /\ data = [s \in ShNum |-> <<>>]
  /\ here = {}
  /\ leases = [s \in ShNum |-> NoLeases]
  /\ intact = TRUE

Next ==
  \/ \E tw \in Inputs : Interrupted(tw) \/ \E c \in Client : Write(tw, c)
  \/ \E c \in Client : LeaseAll(c) \/ \E s \in ShNum : Cancel(s, c)
  \/ Forget
  \/ Tick

Spec == Init /\ [][Next]_pvars
=============================================================================
