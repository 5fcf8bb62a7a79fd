------------------------------- MODULE Retrieve -------------------------------
(***************************************************************************)
(* Reading one version of a mutable file (mutable/retrieve.py): k readers  *)
(* are kept active, each segment asks each of them for a block with its    *)
(* hashes, a share that does not validate or whose server is gone is       *)
(* dropped and replaced, and what is decoded is cut to the range asked for *)
(* and written to a consumer that may pause or stop the download.          *)
(*                                                                         *)
(* A byte of the file is its position.  A share is <<number, server>>.     *)
(***************************************************************************)
EXTENDS Integers, FiniteSets, Sequences

CONSTANTS Placements,        \* where the shares of this version may be
          required_shares,
          segment_size,
          Reads,             \* what is read: [length, offset, size]
          MaxBad,            \* bound on shares that turn out to be bad
          MaxPauses

VARIABLES shares,    \* shares the servermap knows of this version
          read,      \* [length, offset, size]
          readers,   \* share number -> server its reader reads from
          remaining, \* remaining_sharemap, as a set of shares
          active,    \* _active_readers, as a set of share numbers
          answers,   \* share number -> "asked", "valid" or "none", this segment
          current,   \* _current_segment
          written,   \* what the consumer got
          paused, stopped,
          phase,     \* "loop", "fetch", "decoded", "done", "failed", "stopped"
          corrupt,   \* ghost: shares that do not validate
          marked,    \* _bad_shares
          advised,   \* shares reported to their server as corrupt
          pauses

retrieveVars == <<shares, read, readers, remaining, active, answers, current, written, paused,
                  stopped, phase, corrupt, marked, advised, pauses>>

Nums(set) == {p[1] : p \in set}

(* _setup_encoding_parameters: the segments and which of them are read.    *)
_num_segments == (read.length + segment_size - 1) \div segment_size
_tail_data_size == IF read.length % segment_size = 0 THEN segment_size
                   ELSE read.length % segment_size
_start_segment == read.offset \div segment_size
_last_segment == (read.offset + read.size - 1) \div segment_size

(* download, _start_download and _setup_download: one reader for each      *)
(* share number, whichever server came last.                               *)
RetrieveInit ==
  /\ shares \in Placements /\ read \in Reads
  /\ readers \in {f \in [Nums(shares) -> {p[2] : p \in shares}] : \A n \in Nums(shares) : <<n, f[n]>> \in shares}
  /\ remaining = shares /\ active = {} /\ current = read.offset \div segment_size
  /\ answers = [n \in Nums(shares) |-> "none"]
  /\ written = <<>> /\ paused = FALSE /\ stopped = FALSE /\ pauses = 0
  /\ phase = IF read.size = 0 THEN "done"
             ELSE IF Cardinality(Nums(shares)) < required_shares THEN "failed" ELSE "loop"
  /\ corrupt = {} /\ marked = {} /\ advised = {}

-----------------------------------------------------------------------------
Unused == Nums(remaining) \ active

(* Lower numbered shares first.                                            *)
NextShares(more) == {n \in Unused : Cardinality({m \in Unused : m < n}) < more}

(* _raise_notenoughshareserror and _error.                                 *)
_raise_notenoughshareserror ==
  /\ phase' = "failed"
  /\ UNCHANGED <<shares, read, readers, remaining, active, answers, current, written, paused,
                 stopped, corrupt, marked, advised, pauses>>

(* _download_current_segment and _process_segment ask each active reader.  *)
_process_segment(all) ==
  /\ phase' = "fetch"
  /\ answers' = [n \in DOMAIN answers |-> IF n \in all THEN "asked" ELSE "none"]

_done == phase' = "done" /\ answers' = answers

(* loop: _activate_enough_servers, then the next segment, or _done.        *)
loop ==
  /\ phase = "loop"
  /\ LET more == required_shares - Cardinality(active)
         all == active \cup NextShares(more)
     IN IF Cardinality(all) < required_shares THEN _raise_notenoughshareserror
        ELSE /\ active' = all
             /\ IF current > _last_segment THEN _done ELSE _process_segment(all)
             /\ UNCHANGED <<shares, read, readers, remaining, current, written, paused, stopped,
                            corrupt, marked, advised, pauses>>

(* _validate_block accepts the block, the block hash chain and the share   *)
(* hash chain of a reader.                                                 *)
_validate_block(n) ==
  /\ phase = "fetch" /\ answers[n] = "asked" /\ <<n, readers[n]>> \notin corrupt
  /\ answers' = [answers EXCEPT ![n] = "valid"]
  /\ UNCHANGED <<shares, read, readers, remaining, active, current, written, paused, stopped,
                 phase, corrupt, marked, advised, pauses>>

Discarded(s) == {p \in remaining : p[2] # s}

(* The variable of _mark_bad_share's loop over remaining_sharemap is the   *)
(* share number it then reports.                                           *)
Reported(n) == IF remaining = {} THEN {n} ELSE Nums(remaining)

(* _handle_bad_share and _mark_bad_share: the share does not validate, or  *)
(* the server is gone (no report then).                                    *)
_mark_bad_share(n) ==
  /\ phase = "fetch" /\ answers[n] = "asked"
  /\ \/ <<n, readers[n]>> \in corrupt
     \/ Cardinality(corrupt) < MaxBad
  /\ corrupt' = corrupt \cup {<<n, readers[n]>>}
  /\ marked' = marked \cup {<<n, readers[n]>>}
  /\ active' = active \ {n}
  /\ remaining' = Discarded(readers[n])
  /\ \/ advised' = advised
     \/ \E m \in Reported(n) : advised' = advised \cup {<<m, readers[n]>>}
  /\ answers' = [answers EXCEPT ![n] = "none"]
  /\ UNCHANGED <<shares, read, readers, current, written, paused, stopped, phase, pauses>>

(* _maybe_decode_and_decrypt_segment, _decode_blocks, _decrypt_segment:    *)
(* nothing is decoded if a reader was dropped.                             *)
_decode_blocks ==
  /\ phase = "fetch" /\ \A n \in DOMAIN answers : answers[n] # "asked"
  /\ phase' = IF Cardinality({n \in DOMAIN answers : answers[n] = "valid"}) < required_shares
              THEN "loop" ELSE "decoded"
  /\ UNCHANGED <<shares, read, readers, remaining, active, answers, current, written, paused,
                 stopped, corrupt, marked, advised, pauses>>

(* The plaintext of a segment as _process and the decoders return it.      *)
Segment(i) ==
  [j \in 1..(IF i = _num_segments - 1 THEN _tail_data_size ELSE segment_size) |-> i * segment_size + j - 1]

Trimmed_head_first(segment) ==
  LET skip == read.offset % segment_size
      wanted == (read.offset + read.size) % segment_size
      tail == IF current = _start_segment THEN SubSeq(segment, skip + 1, Len(segment)) ELSE segment
  IN IF current = _last_segment /\ wanted # 0
     THEN SubSeq(tail, 1, IF wanted < Len(tail) THEN wanted ELSE Len(tail)) ELSE tail

(* What _set_segment cuts off, the tail first.                             *)
Trimmed(segment) ==
  LET wanted == (read.offset + read.size) % segment_size
      skip == read.offset % segment_size
      head == IF current = _last_segment /\ wanted # 0
              THEN SubSeq(segment, 1, IF wanted < Len(segment) THEN wanted ELSE Len(segment))
              ELSE segment
  IN IF current = _start_segment THEN SubSeq(head, skip + 1, Len(head)) ELSE head

(* _check_for_paused, _check_for_stopped, _set_segment.                    *)
_set_segment ==
  /\ phase = "decoded" /\ ~paused
  /\ IF stopped
     THEN phase' = "stopped" /\ UNCHANGED <<written, current>>
     ELSE /\ written' = written \o Trimmed(Segment(current))
          /\ current' = current + 1 /\ phase' = "loop"
  /\ UNCHANGED <<shares, read, readers, remaining, active, answers, paused, stopped, corrupt,
                 marked, advised, pauses>>

Running == phase \in {"loop", "fetch", "decoded"}

pauseProducing ==
  /\ Running /\ ~paused /\ ~stopped /\ pauses < MaxPauses
  /\ paused' = TRUE /\ pauses' = pauses + 1
  /\ UNCHANGED <<shares, read, readers, remaining, active, answers, current, written, stopped,
                 phase, corrupt, marked, advised>>

resumeProducing ==
  /\ Running /\ paused /\ paused' = FALSE
  /\ UNCHANGED <<shares, read, readers, remaining, active, answers, current, written, stopped,
                 phase, corrupt, marked, advised, pauses>>

stopProducing ==
  /\ Running /\ ~stopped /\ pauses < MaxPauses /\ stopped' = TRUE /\ paused' = FALSE
  /\ UNCHANGED <<shares, read, readers, remaining, active, answers, current, written, phase,
                 corrupt, marked, advised, pauses>>

RetrieveNext ==
  \/ loop \/ _decode_blocks \/ _set_segment
  \/ \E n \in DOMAIN answers : _validate_block(n) \/ _mark_bad_share(n)
  \/ pauseProducing \/ resumeProducing \/ stopProducing

RetrieveSpec == RetrieveInit /\ [][RetrieveNext]_retrieveVars

-----------------------------------------------------------------------------
Asked == [j \in 1..read.size |-> read.offset + j - 1]

(* The consumer gets the bytes of the range that was asked for, in order,  *)
(* each once, whatever was dropped, paused or retried on the way; and all  *)
(* of them when the read is done.                                          *)
ExactlyTheRange ==
  /\ Len(written) <= read.size /\ written = SubSeq(Asked, 1, Len(written))
  /\ phase = "done" => written = Asked

(* A read fails for want of shares only when the servers of which nothing  *)
(* bad was seen hold fewer than k of them.                                 *)
FailsOnlyWhenShort ==
  phase = "failed" =>
    Cardinality(Nums({p \in shares : \A q \in marked : q[2] # p[2]})) < required_shares

(* "This method will ensure that readers that we wish to mark bad ... are  *)
(* not used for the rest of the download" (_mark_bad_share).  Not so when  *)
(* another server has the same share: readers keeps one reader for each    *)
(* share number, and it is picked again.                                   *)
MarkedNotUsed == \A n \in active : <<n, readers[n]>> \notin marked
=============================================================================
