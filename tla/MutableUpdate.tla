--------------------------- MODULE MutableUpdate ---------------------------
(***************************************************************************)
(* Writing into the middle or at the end of a mutable file                 *)
(* (MutableFileVersion.update in mutable/filenode.py, Publish.update and   *)
(* TransformingUploadable in mutable/publish.py): an SDMF file is read,    *)
(* spliced and published again; of an MDMF file only the segments from the *)
(* first to the last one touched are pushed, the old bytes around the new  *)
(* ones being taken from the first and the last segment on the grid.       *)
(*                                                                         *)
(* A byte is a number that tells the write it came with.  The hash of a    *)
(* block is the segment itself.                                            *)
(***************************************************************************)
EXTENDS Integers, Sequences, SequencesExt

CONSTANTS segment_size,
          Sizes,          \* lengths of what is written
          MaxLength,      \* bound on the length of the file
          MaxWrites,      \* bound on writes
          MaxCollisions   \* bound on writes of others that get in between

VARIABLES sdmf,       \* is it an SDMF file?
          file,       \* what is on the grid: [segs, length, leaves]
          recent,     \* _most_recent_size of the node
          up,         \* the update under way
          want,       \* ghost: what the file should hold
          stale,      \* ghost: recent was wrong when an update began
          rerun,      \* ghost: an SDMF update was run again
          left        \* what may still happen: [writes, collisions]

updateVars == <<sdmf, file, recent, up, want, stale, rerun, left>>

div_ceil(n, d) == (n + d - 1) \div d
roundup_pow2(n) == CHOOSE p \in {1, 2, 4, 8, 16} : p >= n /\ \A q \in {1, 2, 4, 8, 16} : q >= n => p <= q
Least(a, b) == IF a < b THEN a ELSE b
Slice(s, from, to) == SubSeq(s, from + 1, Least(to, Len(s)))   \* s[from:to]

Pad == <<-1>>      \* empty_leaf_hash
NoLeaf == <<-2>>   \* None
Padded(leaves) ==
  [i \in 1..roundup_pow2(Len(leaves)) |-> IF i <= Len(leaves) THEN leaves[i] ELSE Pad]

New(n) == [i \in 1..n |-> 100 * (MaxWrites + MaxCollisions - left.writes - left.collisions + 1) + i]
Idle == [stage |-> "idle"]

SegmentSize(length) == IF sdmf THEN length ELSE segment_size
NumSegments(length) == IF length = 0 THEN 0 ELSE div_ceil(length, SegmentSize(length))

(* tail_segment_size, for the last segment.                                *)
SizeOf(i, length) ==
  IF i + 1 = NumSegments(length) /\ length % SegmentSize(length) # 0
  THEN length % SegmentSize(length) ELSE SegmentSize(length)

(* Publish.publish of the whole contents.                                  *)
Publish(data) ==
  LET n == Len(data)
      segs == [i \in 1..NumSegments(n) |->
                 Slice(data, (i - 1) * SegmentSize(n), (i - 1) * SegmentSize(n) + SizeOf(i - 1, n))]
  IN [segs |-> segs, length |-> n, leaves |-> Padded(segs)]

(* What a download makes of the file: each block must have the length that *)
(* datalength calls for and the hash in the block hash tree, the shape of  *)
(* which comes from the number of segments.                                *)
Readable(f) ==
  LET n == NumSegments(f.length)
  IN n > 0 => /\ Len(f.leaves) = roundup_pow2(n) /\ Len(f.segs) >= n
              /\ \A i \in 1..n : Len(f.segs[i]) = SizeOf(i - 1, f.length) /\ f.leaves[i] = f.segs[i]
Contents(f) == FlattenSeq(SubSeq(f.segs, 1, NumSegments(f.length)))

Spliced(old, data, offset) ==
  [j \in 1..(IF Len(old) > offset + Len(data) THEN Len(old) ELSE offset + Len(data)) |->
     IF j > offset /\ j <= offset + Len(data) THEN data[j - offset]
     ELSE IF j <= Len(old) THEN old[j] ELSE 0]

-----------------------------------------------------------------------------
(* A file that the node has just created: _did_upload.                     *)
UpdateInit ==
  /\ sdmf \in BOOLEAN
  /\ left = [writes |-> MaxWrites, collisions |-> MaxCollisions]
  /\ \E n \in 0..MaxLength : want = [i \in 1..n |-> i]
  /\ file = Publish(want) /\ recent = Len(want)
  /\ up = Idle /\ stale = FALSE /\ rerun = FALSE

(* MutableFileNode.overwrite: the size is noted in the version, not in the *)
(* node (MutableFileVersion._did_upload).                                  *)
overwrite ==
  /\ up.stage = "idle" /\ left.writes > 0
  /\ \E n \in Sizes : want' = New(n)
  /\ file' = Publish(want')
  /\ left' = [left EXCEPT !.writes = @ - 1]
  /\ UNCHANGED <<sdmf, recent, up, stale, rerun>>

(* download_best_version, get_current_size: _record_size, _stash_size.     *)
_record_size ==
  /\ up.stage = "idle" /\ recent # file.length /\ recent' = file.length
  /\ UNCHANGED <<sdmf, file, up, want, stale, rerun, left>>

(* _get_servermap, of get_best_mutable_version: a size of None or 0 is     *)
(* taken from the map.                                                     *)
Known == IF recent = 0 THEN file.length ELSE recent

(* _do_update_update: which segments have old bytes to keep.               *)
_start_segment(data, offset) == offset \div segment_size
_end_segment(data, offset) ==
  IF offset + Len(data) < file.length THEN (offset + Len(data) - 1) \div segment_size
  ELSE _start_segment(data, offset)

(* get_best_mutable_version and update.                                    *)
update(data, offset) ==
  /\ up.stage = "idle" /\ left.writes > 0 /\ offset + Len(data) <= MaxLength
  /\ recent' = Known /\ stale' = (stale \/ Known # file.length)
  /\ up' = [stage |-> IF sdmf THEN "modify" ELSE "fetch", data |-> data, offset |-> offset, pos |-> 0]
  /\ left' = [left EXCEPT !.writes = @ - 1]
  /\ UNCHANGED <<sdmf, file, want, rerun>>

-----------------------------------------------------------------------------
(* MutableFileHandle.read: what comes next, as far as there is something.  *)
handle_read(u, length) == Slice(u.data, u.pos, u.pos + length)

(* The modifier of _do_modify_update: the data is read from a handle,      *)
(* which stays where the last run left it.                                 *)
m(old) == Slice(old, 0, up.offset) \o handle_read(up, Len(up.data))
          \o Slice(old, up.offset + Len(up.data), Len(old))

(* _modify: published, unless there was nothing to change.                 *)
_do_modify_update ==
  /\ up.stage = "modify"
  /\ file' = Publish(m(Contents(file)))
  /\ want' = Spliced(want, up.data, up.offset)
  /\ up' = Idle
  /\ UNCHANGED <<sdmf, recent, stale, rerun, left>>

(* Another client's write gets in between: UncoordinatedWriteError, and    *)
(* the modifier is run again on the new contents.                          *)
Collision ==
  /\ up.stage = "modify" /\ left.collisions > 0
  /\ \E n \in Sizes : n >= up.offset /\ want' = New(n)
  /\ file' = Publish(want')
  /\ up' = [up EXCEPT !.pos = Len(up.data)] /\ rerun' = TRUE
  /\ left' = [left EXCEPT !.collisions = @ - 1]
  /\ UNCHANGED <<sdmf, recent, stale>>

-----------------------------------------------------------------------------
(* A segment as decode returns it; before the first one there is nothing   *)
(* that is used.                                                           *)
decode(i) == IF i < 0 THEN <<>> ELSE file.segs[i + 1]

(* setup_encoding_parameters: the last segment to push.                    *)
LastPushed(size, length) ==
  IF size = length THEN NumSegments(length) - 1
  ELSE IF size % segment_size = 0 THEN size \div segment_size - 1 ELSE size \div segment_size

(* Publish.update: the length of the new version.                          *)
datalength(size) == IF size > recent THEN size ELSE recent

(* Leaves of the old block hash tree, and room for the new segments.       *)
OldLeaves(segments) ==
  [i \in 1..(IF Len(file.leaves) > segments THEN Len(file.leaves) ELSE segments) |->
     IF i <= Len(file.leaves) THEN file.leaves[i] ELSE NoLeaf]

Ended == [stage |-> "failed", data |-> up.data, offset |-> up.offset]

(* Publish.update, on segments that were decoded.                          *)
Begun(first, last) ==
  LET size == up.offset + Len(up.data)
      length == datalength(size)
  IN [stage |-> "push", data |-> up.data, offset |-> up.offset, pos |-> 0, marker |-> 0,
      start |-> decode(first), end |-> decode(last), datalength |-> length,
      current |-> first, end_segment |-> LastPushed(size, length),
      blocks |-> <<>>, leaves |-> OldLeaves(NumSegments(length))]

(* The servermap update fetches both segments and                          *)
(* _decode_and_decrypt_segments decodes them.  There is no data to decode  *)
(* if one of them is not in the file: get_block_and_salt raises            *)
(* LayoutInvalid, and the update ends in an IndexError.                    *)
_decode_and_decrypt_segments ==
  LET first == _start_segment(up.data, up.offset)
      last == _end_segment(up.data, up.offset)
  IN /\ up.stage = "fetch"
     /\ up' = IF first >= NumSegments(file.length) \/ last >= NumSegments(file.length)
              THEN Ended ELSE Begun(first, last)
     /\ UNCHANGED <<sdmf, file, recent, want, stale, rerun, left>>

(* TransformingUploadable.read: old bytes of the first segment, new data,  *)
(* old bytes of the last one.                                              *)
read(u, length) ==
  LET fso == u.offset % segment_size
      oldStart == IF fso > u.marker THEN Least(fso - u.marker, length) ELSE 0
      rest == length - oldStart
      have == Len(u.data) - u.pos
      oldEnd == IF rest > have THEN rest - have ELSE 0
      at == (rest - oldEnd + oldStart) % segment_size
  IN [data |-> Slice(u.start, u.marker, u.marker + oldStart)
               \o handle_read(u, rest - oldEnd)
               \o Slice(u.end, at, at + oldEnd),
      pos |-> u.pos + rest - oldEnd]

(* push_segment, _encode_segment, _push_segment: a block and its hash.     *)
push_segment ==
  /\ up.stage = "push" /\ up.current <= up.end_segment
  /\ LET size == SizeOf(up.current, up.datalength)
         r == read(up, size)
     IN up' = IF Len(r.data) # size
              THEN Ended
              ELSE [up EXCEPT !.pos = r.pos, !.marker = @ + size, !.current = @ + 1,
                              !.blocks = Append(@, <<up.current + 1, r.data>>),
                              !.leaves = [@ EXCEPT ![up.current + 1] = r.data]]
  /\ UNCHANGED <<sdmf, file, recent, want, stale, rerun, left>>

(* The blocks written over those of the old version.                       *)
Stored == [i \in 1..(IF Len(file.segs) > NumSegments(up.datalength)
                     THEN Len(file.segs) ELSE NumSegments(up.datalength)) |->
             IF \E b \in Range(up.blocks) : b[1] = i
             THEN (CHOOSE b \in Range(up.blocks) : b[1] = i)[2]
             ELSE IF i <= Len(file.segs) THEN file.segs[i] ELSE <<>>]

(* push_blockhashes fails for a leaf that is None.                         *)
push_everything_else ==
  /\ up.stage = "push" /\ up.current > up.end_segment
  /\ IF \E i \in DOMAIN up.leaves : up.leaves[i] = NoLeaf
     THEN up' = Ended /\ UNCHANGED <<file, want>>
     ELSE /\ file' = [segs |-> Stored, length |-> up.datalength, leaves |-> Padded(up.leaves)]
          /\ want' = Spliced(want, up.data, up.offset)
          /\ up' = Idle
  /\ UNCHANGED <<sdmf, recent, stale, rerun, left>>

UpdateNext ==
  \/ overwrite \/ _record_size \/ Collision
  \/ \E n \in Sizes, o \in 0..file.length : update(New(n), o)
  \/ _do_modify_update \/ _decode_and_decrypt_segments \/ push_segment \/ push_everything_else

UpdateSpec == UpdateInit /\ [][UpdateNext]_updateVars

-----------------------------------------------------------------------------
Exact == Readable(file) /\ Contents(file) = want

(* "I write the data from my data argument to the MDMF file, starting at   *)
(* offset. I continue writing data until my data argument is exhausted,    *)
(* appending data to the file as necessary" (IWriteable.update): between   *)
(* updates the file holds what was written, and can be read.  Not so when  *)
(* the node's idea of the size is an old one.                              *)
WrittenAsAsked == up.stage = "idle" => Exact

(* The same for a node that knows the size of the file and, with SDMF, for *)
(* an update that is run once; and such an update fails only where it      *)
(* would begin a segment that the file does not have yet.                  *)
UpdatesExactly ==
  ~stale /\ ~rerun =>
    /\ up.stage \in {"idle", "failed"} => Exact
    /\ up.stage = "failed" => up.offset = file.length /\ file.length % segment_size = 0
=============================================================================
