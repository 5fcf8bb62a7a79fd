--------------------------- MODULE ImmutableLayout -------------------------
(***************************************************************************)
(* The bytes of an immutable share (immutable/layout.py): WriteBucketProxy *)
(* lays out the fields, gathers small writes into batches and closes the   *)
(* bucket; ReadBucketProxy reads the header once, for all who ask at the   *)
(* same time, and then the field that each of them asked for.              *)
(*                                                                         *)
(* A share is a sequence of cells <<field, index, offsets>>; only the first*)
(* cell of the header has offsets, the one of the length of the URI        *)
(* extension has the length as its index.  A hash is one cell.             *)
(***************************************************************************)
EXTENDS Integers, Sequences, FiniteSets, SequencesExt

CONSTANTS Files,        \* [data_size, block_size, num_share_hashes, uri_extension_size]
          batch_size,
          FieldLimit,   \* what does not fit the fields of version 1 (2^32)
          MaxLost       \* bound on calls that are lost

VARIABLES f,        \* the file
          wbp,      \* the write proxy: [version, offsets, to_write, written, next, stage]
          bucket,   \* the share on the server
          rbp,      \* the read proxy: [started, ready, waiting, results]
          lost      \* how many calls may still be lost

layoutVars == <<f, wbp, bucket, rbp, lost>>

Num == (f.data_size + f.block_size - 1) \div f.block_size
Pow2(n) == CHOOSE p \in {1, 2, 4, 8} : p >= n /\ \A q \in {1, 2, 4, 8} : q >= n => p <= q
segment_hash_size == 2 * Pow2(Num) - 1
fieldsize(version) == version
HeaderSize(version) == IF version = 1 THEN 3 ELSE 5

Cells(field, n) == [i \in 1..n |-> <<field, i, <<>>>>]

(* _create_offsets: where data, the unused plaintext hashes, crypttext     *)
(* hashes, block hashes, share hashes and the URI extension begin.         *)
_create_offsets(version) ==
  LET data == HeaderSize(version)
      plain == data + f.data_size
      crypt == plain + segment_hash_size
      block == crypt + segment_hash_size
      share == block + segment_hash_size
  IN <<data, plain, crypt, block, share, share + f.num_share_hashes>>

(* FileTooLargeError of version 1.                                         *)
TooLarge == f.block_size >= FieldLimit \/ f.data_size >= FieldLimit
            \/ _create_offsets(1)[6] >= FieldLimit

make_write_bucket_proxy ==
  LET version == IF TooLarge THEN 2 ELSE 1
  IN [version |-> version, offsets |-> _create_offsets(version), to_write |-> <<>>, written |-> 0,
      next |-> 1, stage |-> "open"]

get_allocated_size(w) == w.offsets[6] + fieldsize(w.version) + f.uri_extension_size
get_total_bytes(w) == w.written + Len(w.to_write)

LayoutInit ==
  /\ f \in Files
  /\ wbp = make_write_bucket_proxy
  /\ bucket = <<>>
  /\ rbp = [started |-> FALSE, ready |-> "no", waiting |-> {}, results |-> {}]
  /\ lost = MaxLost

-----------------------------------------------------------------------------
put_header == <<0, <<<<"header", wbp.version, wbp.offsets>>>> \o Tail(Cells("header", HeaderSize(wbp.version)))>>

BlockSize(i) == IF i < Num - 1 THEN f.block_size ELSE f.data_size - f.block_size * (Num - 1)
Block(i) == [j \in 1..BlockSize(i) |-> <<"data", i * f.block_size + j, <<>>>>]
put_block(i) == <<wbp.offsets[1] + i * f.block_size, Block(i)>>

(* The plaintext hashes are filled in with nulls.                          *)
put_plaintext_hashes == <<wbp.offsets[2], Cells("null", segment_hash_size)>>
put_crypttext_hashes == <<wbp.offsets[3], Cells("crypttext hashes", segment_hash_size)>>
put_block_hashes == <<wbp.offsets[4], Cells("block hashes", segment_hash_size)>>
put_share_hashes == <<wbp.offsets[5], Cells("share hashes", f.num_share_hashes)>>

Length(version) == Cells("length", fieldsize(version) - 1) \o <<<<"length", f.uri_extension_size, <<>>>>>>
put_uri_extension ==
  <<wbp.offsets[6], Length(wbp.version) \o Cells("uri extension", f.uri_extension_size)>>

(* The calls of the encoder, in the order of their bytes.                  *)
Puts == <<put_header>> \o [i \in 1..Num |-> put_block(i - 1)] \o
        <<put_plaintext_hashes, put_crypttext_hashes, put_block_hashes, put_share_hashes,
          put_uri_extension>>

flush_unreset(w) == [w EXCEPT !.written = @ + Len(w.to_write)]

(* _WriteBuffer.flush.                                                     *)
flush(w) == [w EXCEPT !.written = @ + Len(w.to_write), !.to_write = <<>>]

(* BucketWriter.write, of the server: here, at the end.                    *)
Written(offset, data) == SubSeq(bucket, 1, offset) \o data

(* _actually_write: done, or lost, and then the share is given up.         *)
_actually_write(w, stage) ==
  \/ /\ wbp' = [flush(w) EXCEPT !.stage = stage]
     /\ bucket' = Written(w.written, w.to_write)
     /\ UNCHANGED lost
  \/ /\ lost > 0 /\ lost' = lost - 1
     /\ wbp' = [flush(w) EXCEPT !.stage = "given up"]
     /\ UNCHANGED bucket

(* One of the put_ methods, with _queue_write.                             *)
_queue_write ==
  /\ wbp.stage = "open" /\ wbp.next <= Len(Puts)
  /\ LET put == Puts[wbp.next]
         w == [wbp EXCEPT !.to_write = @ \o put[2], !.next = @ + 1]
     IN IF put[1] # get_total_bytes(wbp)
        THEN wbp' = [wbp EXCEPT !.stage = "asserted"] /\ UNCHANGED <<bucket, lost>>
        ELSE IF Len(w.to_write) >= batch_size THEN _actually_write(w, "open")
        ELSE wbp' = w /\ UNCHANGED <<bucket, lost>>
  /\ UNCHANGED <<f, rbp>>

close ==
  /\ wbp.stage = "open" /\ wbp.next > Len(Puts)
  /\ IF get_total_bytes(wbp) # get_allocated_size(wbp)
     THEN wbp' = [wbp EXCEPT !.stage = "asserted"] /\ UNCHANGED <<bucket, lost>>
     ELSE IF wbp.to_write # <<>> THEN _actually_write(wbp, "closed")
     ELSE wbp' = [wbp EXCEPT !.stage = "closed"] /\ UNCHANGED <<bucket, lost>>
  /\ UNCHANGED <<f, rbp>>

-----------------------------------------------------------------------------
Gets == {<<"data", i>> : i \in 0..(Num - 1)}
        \cup {<<"crypttext hashes", 0>>, <<"block hashes", 0>>, <<"share hashes", 0>>, <<"uri extension", 0>>}
Unanswered == Gets \ {r[1] : r \in rbp.results}
Failed == <<<<"failed", 0, <<>>>>>>
Answer(r, get, cells) ==
  [r EXCEPT !.waiting = @ \ {get}, !.results = @ \cup {<<get, cells>>}]

_read(offset, length) ==
  SubSeq(bucket, offset + 1, IF offset + length < Len(bucket) THEN offset + length ELSE Len(bucket))

(* A get_ method: _start_if_needed, and then it waits.                     *)
_start_if_needed(get) ==
  /\ wbp.stage = "closed" /\ get \in Unanswered \ rbp.waiting
  /\ rbp' = [rbp EXCEPT !.started = TRUE, !.waiting = @ \cup {get}]
  /\ UNCHANGED <<f, wbp, bucket, lost>>

(* _notify_waiters, _fail_waiters: from now on, whoever waits or comes     *)
(* gets the same.                                                          *)
_start(ready) == rbp' = [rbp EXCEPT !.ready = ready]

(* _parse_offsets: the table of the header that was read.                  *)
_parse_offsets == bucket[1][3]
Version == bucket[1][2]

(* The answer to _fetch_header, which reads as much as the longest header. *)
_fetch_header ==
  /\ rbp.started /\ rbp.ready = "no"
  /\ \/ /\ _start(IF Len(_read(0, HeaderSize(2))) < HeaderSize(Version) THEN "failed" ELSE "yes")
        /\ UNCHANGED lost
     \/ lost > 0 /\ lost' = lost - 1 /\ _start("failed")
  /\ UNCHANGED <<f, wbp, bucket>>

_get_block_data(i) == _read(_parse_offsets[1] + i * f.block_size, BlockSize(i))
_get_crypttext_hashes == _read(_parse_offsets[3], _parse_offsets[4] - _parse_offsets[3])
_get_block_hashes == _read(_parse_offsets[4], _parse_offsets[5] - _parse_offsets[4])

(* A short read is LayoutInvalid.                                          *)
_get_share_hashes ==
  LET size == _parse_offsets[6] - _parse_offsets[5]
      cells == _read(_parse_offsets[5], size)
  IN IF Len(cells) # size THEN Failed ELSE cells

(* The length first, then as much as it says.                              *)
_get_uri_extension ==
  LET size == fieldsize(Version)
      length == _read(_parse_offsets[6], size)
  IN IF Len(length) # size THEN Failed ELSE _read(_parse_offsets[6] + size, Last(length)[2])

Got(get) ==
  CASE get[1] = "data" -> _get_block_data(get[2])
    [] get[1] = "crypttext hashes" -> _get_crypttext_hashes
    [] get[1] = "block hashes" -> _get_block_hashes
    [] get[1] = "share hashes" -> _get_share_hashes
    [] get[1] = "uri extension" -> _get_uri_extension

(* The header is there; the answer to one who waits comes, or is lost.     *)
Answered(get) ==
  /\ rbp.ready # "no" /\ get \in rbp.waiting
  /\ \/ rbp' = Answer(rbp, get, IF rbp.ready = "failed" THEN Failed ELSE Got(get)) /\ UNCHANGED lost
     \/ lost > 0 /\ lost' = lost - 1 /\ rbp' = Answer(rbp, get, Failed)
  /\ UNCHANGED <<f, wbp, bucket>>

LayoutNext ==
  \/ _queue_write \/ close \/ _fetch_header
  \/ \E get \in Gets : _start_if_needed(get) \/ Answered(get)

LayoutSpec == LayoutInit /\ [][LayoutNext]_layoutVars

-----------------------------------------------------------------------------
Piece(get) ==
  CASE get[1] = "data" -> Block(get[2])
    [] get[1] = "share hashes" -> Cells("share hashes", f.num_share_hashes)
    [] get[1] = "uri extension" -> Cells("uri extension", f.uri_extension_size)
    [] OTHER -> Cells(get[1], segment_hash_size)

(* The encoder's calls never trip the assertions of the write proxy; a     *)
(* share that was closed is as long as was allocated; each get_ method     *)
(* answers with the very piece that was put, in either version, and fails  *)
(* only if a call was lost.                                                *)
SharesReadBack ==
  /\ wbp.stage # "asserted"
  /\ wbp.stage = "closed" => Len(bucket) = get_allocated_size(wbp)
  /\ \A r \in rbp.results : r[2] = Piece(r[1]) \/ (r[2] = Failed /\ lost < MaxLost)
=============================================================================
