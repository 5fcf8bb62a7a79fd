------------------------------ MODULE HttpSlot ------------------------------
(***************************************************************************)
(* The calls on a mutable slot as a client makes them, over Foolscap       *)
(* (_StorageServer of storage_client.py, one remote call each) or over     *)
(* HTTP (_HTTPStorageServer, StorageClientMutables and the handlers of     *)
(* http_server.py, where one slot_readv is a listing and many reads).      *)
(* Several clients' calls interleave, and connections break.               *)
(***************************************************************************)
EXTENDS Integers, Sequences, FiniteSets

CONSTANTS Clients, Shnums,
          Enablers,    \* write enablers that clients may hold
          MaxCalls,    \* bound on calls, counted from 1: version 1 is there already
          MaxBreaks    \* bound on broken connections

VARIABLES slot,        \* the shares there are: [data, we, leases]
          advised,     \* corruption reports written by the server
          call,        \* the call each client makes
          seen,        \* ghost: what the slot was since each client's call began
          applied,     \* ghost: the writes that were made, in order
          calls, breaks

slotVars == <<slot, advised, call, seen, applied, calls, breaks>>

(* A vector is one of the two pieces of a share; a whole version is        *)
(* written to both.                                                        *)
Vectors == {1, 2}
NoShares == [sh \in {} |-> 0]
NoCall == [op |-> "none", via |-> "http", st |-> "idle", shares |-> {}, expect |-> 0, new |-> 0,
           remove |-> FALSE, we |-> "", pending |-> {}, reads |-> NoShares, success |-> FALSE]

SlotInit ==
  /\ \E S \in SUBSET Shnums :
       slot = [sh \in S |-> [data |-> <<1, 1>>, we |-> CHOOSE we \in Enablers : TRUE, leases |-> {}]]
  /\ advised = {} /\ applied = << >>
  /\ call = [c \in Clients |-> NoCall] /\ seen = [c \in Clients |-> {}]
  /\ calls = 1 /\ breaks = 0

Become(c, r) == call' = [call EXCEPT ![c] = r]
Answer(c, r) == Become(c, [r EXCEPT !.st = "ok"])

(* A ClientException, or a RemoteException made of one.                    *)
ClientException(c) == Become(c, [call[c] EXCEPT !.st = "failed", !.pending = {}])

(* Every call in progress sees what the slot becomes.                      *)
Slot(s) ==
  /\ slot' = s
  /\ seen' = [c \in Clients |-> IF call[c].st \in {"asked", "reading", "checked"} THEN seen[c] \cup {s} ELSE seen[c]]

Ask(c, r) ==
  /\ call[c].st \notin {"asked", "reading", "checked"} /\ calls < MaxCalls
  /\ calls' = calls + 1
  /\ Become(c, [r EXCEPT !.st = "asked", !.new = calls + 1])
  /\ seen' = [seen EXCEPT ![c] = {slot}]
  /\ UNCHANGED <<slot, advised, applied, breaks>>

(* slot_testv_and_readv_and_writev of a client that expects a version, or  *)
(* no share (0), in each of the shares, and writes or deletes them.  It is *)
(* one call over either protocol.                                          *)
AskToWrite(c) ==
  \E S \in SUBSET Shnums \ {{}}, v \in 0..calls, rm \in BOOLEAN, we \in Enablers :
    Ask(c, [NoCall EXCEPT !.op = "write", !.shares = S, !.expect = v, !.remove = rm, !.we = we])

AskToRead(c) ==
  \E via \in {"http", "foolscap"}, S \in SUBSET Shnums :
    Ask(c, [NoCall EXCEPT !.op = "read", !.via = via, !.shares = S])

AskToLease(c) == \E via \in {"http", "foolscap"} : Ask(c, [NoCall EXCEPT !.op = "lease", !.via = via])

AskToAdvise(c) ==
  \E via \in {"http", "foolscap"}, sh \in Shnums :
    Ask(c, [NoCall EXCEPT !.op = "advise", !.via = via, !.shares = {sh}])

-----------------------------------------------------------------------------
Read(s, sh, v) == IF Len(s[sh].data) >= v THEN s[sh].data[v] ELSE 0

(* The numbers of the shares there are.                                    *)
Listed == DOMAIN slot

(* StorageServer.slot_readv: the shares asked for that are there.          *)
slot_readv(S) ==
  [sh \in (IF S = {} THEN DOMAIN slot ELSE S \cap DOMAIN slot) |-> [v \in Vectors |-> Read(slot, sh, v)]]

_evaluate_test_vectors(r) ==
  \A sh \in r.shares : IF sh \in DOMAIN slot THEN Read(slot, sh, 1) = r.expect ELSE r.expect = 0

_evaluate_write_vectors(r) ==
  LET kept == IF r.remove THEN DOMAIN slot \ r.shares ELSE DOMAIN slot \cup r.shares
  IN [sh \in kept |->
       IF sh \notin r.shares THEN slot[sh]
       ELSE [data |-> <<r.new, r.new>>, we |-> IF sh \in DOMAIN slot THEN slot[sh].we ELSE r.we,
             leases |-> IF sh \in DOMAIN slot THEN slot[sh].leases ELSE {}]]

(* BadWriteEnablerError, of any share that is there.                       *)
BadWriteEnabler(r) == \E sh \in DOMAIN slot : slot[sh].we # r.we

_add_or_renew_leases(s, S, c) ==
  [sh \in DOMAIN s |-> IF sh \in S THEN [s[sh] EXCEPT !.leases = @ \cup {c}] ELSE s[sh]]

(* mutable_read_test_write, remote_slot_testv_and_readv_and_writev:        *)
(* everything the server does is one step; reads are made before writes.   *)
mutable_read_test_write(c) ==
  LET r == call[c]
      good == _evaluate_test_vectors(r)
  IN /\ r.st = "asked" /\ r.op = "write"
     /\ IF BadWriteEnabler(r)
        THEN ClientException(c) /\ UNCHANGED <<slot, seen, applied>>
        ELSE /\ Answer(c, [r EXCEPT !.success = good, !.reads = slot_readv({})])
             /\ IF good
                THEN /\ Slot(_add_or_renew_leases(_evaluate_write_vectors(r), r.shares, c))
                     /\ applied' = Append(applied, [new |-> r.new, before |-> slot])
                ELSE UNCHANGED <<slot, seen, applied>>
     /\ UNCHANGED <<advised, calls, breaks>>

(* remote_slot_readv of the Foolscap server: a single call.                *)
remote_slot_readv(c) ==
  LET r == call[c]
  IN /\ r.st = "asked" /\ r.op = "read" /\ r.via = "foolscap"
     /\ Answer(c, [r EXCEPT !.reads = slot_readv(r.shares)])
     /\ UNCHANGED <<slot, advised, seen, applied, calls, breaks>>

(* slot_readv of _HTTPStorageServer: one read per share and vector, all    *)
(* started together.                                                       *)
http_slot_readv(r, S) ==
  [r EXCEPT !.st = IF S = {} THEN "ok" ELSE "reading", !.pending = S \X Vectors,
            !.reads = [sh \in S |-> [v \in Vectors |-> 0]]]

(* The shares were named.                                                  *)
ReadNamed(c) ==
  LET r == call[c]
  IN /\ r.st = "asked" /\ r.op = "read" /\ r.via = "http" /\ r.shares # {}
     /\ Become(c, http_slot_readv(r, r.shares))
     /\ UNCHANGED <<slot, advised, seen, applied, calls, breaks>>

(* They were not: they are listed first (_list_shares of the client,       *)
(* enumerate_mutable_shares of the server).                                *)
enumerate_mutable_shares(c) ==
  LET r == call[c]
  IN /\ r.st = "asked" /\ r.op = "read" /\ r.via = "http" /\ r.shares = {}
     /\ Become(c, http_slot_readv(r, Listed))
     /\ UNCHANGED <<slot, advised, seen, applied, calls, breaks>>

(* One of the reads is answered; a share that is not there is a 404, which *)
(* fails the whole call.                                                   *)
read_mutable_chunk(c, sh, v) ==
  /\ call[c].st = "reading" /\ <<sh, v>> \in call[c].pending
  /\ IF sh \in DOMAIN slot
     THEN Become(c, [call[c] EXCEPT !.reads[sh][v] = Read(slot, sh, v), !.pending = @ \ {<<sh, v>>},
                                    !.st = IF call[c].pending = {<<sh, v>>} THEN "ok" ELSE @])
     ELSE ClientException(c)
  /\ UNCHANGED <<slot, advised, seen, applied, calls, breaks>>

(* add_or_renew_lease: every share there is gets the lease.  With none it  *)
(* is a 404 over HTTP, which add_lease of the client passes over, as the   *)
(* Foolscap server does.                                                   *)
add_or_renew_lease(c) ==
  /\ call[c].st = "asked" /\ call[c].op = "lease"
  /\ Answer(c, call[c])
  /\ Slot(_add_or_renew_leases(slot, DOMAIN slot, c))
  /\ UNCHANGED <<advised, applied, calls, breaks>>

_share_exists(r) == r.shares \subseteq Listed

(* advise_corrupt_share_mutable: the share is looked for before the body   *)
(* of the request is read; a 404 is ignored (_ignore_404).                 *)
advise_corrupt_share_mutable(c) ==
  LET r == call[c]
  IN /\ r.st = "asked" /\ r.op = "advise" /\ r.via = "http"
     /\ IF _share_exists(r) THEN Become(c, [r EXCEPT !.st = "checked"]) ELSE Answer(c, r)
     /\ UNCHANGED <<slot, advised, seen, applied, calls, breaks>>

(* StorageServer.advise_corrupt_share: the share is looked for again.      *)
advise_corrupt_share(c) ==
  LET r == call[c]
  IN /\ r.op = "advise" /\ r.st = IF r.via = "http" THEN "checked" ELSE "asked"
     /\ Answer(c, r)
     /\ advised' = advised \cup {[shnum |-> sh, was |-> slot] : sh \in {h \in r.shares : _share_exists(r)}}
     /\ UNCHANGED <<slot, seen, applied, calls, breaks>>

(* The connection breaks before the request arrives, or, for a write that  *)
(* the server goes on to make, before its answer does.                     *)
Broken(c) ==
  /\ call[c].st \in {"asked", "reading", "checked"} /\ breaks < MaxBreaks
  /\ breaks' = breaks + 1
  /\ Become(c, [call[c] EXCEPT !.st = "broken", !.pending = {}])
  /\ UNCHANGED <<slot, advised, seen, applied, calls>>

LateWrite(c) ==
  LET r == call[c]
  IN /\ r.st = "broken" /\ r.op = "write"
     /\ _evaluate_test_vectors(r) /\ ~BadWriteEnabler(r)
     /\ Slot(_add_or_renew_leases(_evaluate_write_vectors(r), r.shares, c))
     /\ applied' = Append(applied, [new |-> r.new, before |-> slot])
     /\ Become(c, [r EXCEPT !.st = "unknown"])
     /\ UNCHANGED <<advised, calls, breaks>>

SlotNext ==
  \E c \in Clients :
    \/ AskToWrite(c) \/ AskToRead(c) \/ AskToLease(c) \/ AskToAdvise(c)
    \/ mutable_read_test_write(c) \/ LateWrite(c)
    \/ remote_slot_readv(c) \/ ReadNamed(c) \/ enumerate_mutable_shares(c)
    \/ \E sh \in Shnums, v \in Vectors : read_mutable_chunk(c, sh, v)
    \/ add_or_renew_lease(c) \/ advise_corrupt_share_mutable(c) \/ advise_corrupt_share(c)
    \/ Broken(c)

SlotSpec == SlotInit /\ [][SlotNext]_slotVars

-----------------------------------------------------------------------------
(* What a client is told of a write is what happened: a success means the  *)
(* write was made, once, on shares that all held the version it expected,  *)
(* and a refusal that it was not made; the versions it replaced are the    *)
(* ones it was shown (mutable_read_test_write).  No version is ever        *)
(* written over one the writer did not expect, whichever answer was lost.  *)
WritesToldTrue ==
  \A c \in Clients :
    LET r == call[c]
        Mine == {i \in 1..Len(applied) : applied[i].new = r.new}
    IN (r.op = "write" /\ r.st = "ok") =>
         /\ IF r.success THEN Cardinality(Mine) = 1 ELSE Mine = {}
         /\ \A i \in Mine : \A sh \in r.shares :
              IF sh \in DOMAIN applied[i].before
              THEN Read(applied[i].before, sh, 1) = r.expect /\ r.reads[sh][1] = r.expect
              ELSE r.expect = 0

(* A read that succeeds gives pieces that the shares held while it was     *)
(* made: all at one moment over Foolscap, and over HTTP if nobody wrote    *)
(* meanwhile.  It leaves out no share that was there all the time, makes   *)
(* none up, and fails only if a share it was to read was missing or the    *)
(* connection broke (slot_readv, read_mutable_chunk).                      *)
ReadsSometime ==
  \A c \in Clients :
    LET r == call[c]
        At(s) == [sh \in (IF r.shares = {} THEN DOMAIN s ELSE r.shares \cap DOMAIN s) |->
                    [v \in Vectors |-> Read(s, sh, v)]]
    IN r.op = "read" =>
         /\ r.st = "ok" =>
              /\ (r.via = "foolscap" \/ Cardinality(seen[c]) = 1) => \E s \in seen[c] : r.reads = At(s)
              /\ \A sh \in DOMAIN r.reads : \A v \in Vectors :
                   \E s \in seen[c] : sh \in DOMAIN s /\ r.reads[sh][v] = Read(s, sh, v)
              /\ \A sh \in (IF r.shares = {} THEN Shnums ELSE r.shares) \ DOMAIN r.reads :
                   \E s \in seen[c] : sh \notin DOMAIN s
         /\ r.st = "failed" => \E s \in seen[c] : \E sh \in Shnums : sh \notin DOMAIN s

(* add_lease that returns has put the lease on every share there was, and  *)
(* a corruption report is about a share that the server had.               *)
LeasesAndReports ==
  /\ \A c \in Clients : (call[c].op = "lease" /\ call[c].st = "ok") =>
       \E s \in seen[c] : \A sh \in DOMAIN s : c \in s[sh].leases
  /\ \A a \in advised : a.shnum \in DOMAIN a.was

SlotCallsExact == WritesToldTrue /\ ReadsSometime /\ LeasesAndReports
=============================================================================
