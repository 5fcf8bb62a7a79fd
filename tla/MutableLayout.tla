---------------------------- MODULE MutableLayout ----------------------------
(***************************************************************************)
(* The layout of a mutable share (mutable/layout.py): the write proxies    *)
(* MDMFSlotWriteProxy and SDMFSlotWriteProxy, which queue the pieces of a  *)
(* share in whatever order their guards admit and write them at once, and  *)
(* the offsets by which MDMFSlotReadProxy finds each piece again.  An MDMF *)
(* share may later be updated in place, only the changed blocks being put. *)
(*                                                                         *)
(* Sizes are in cells.  A cell holds [piece, call, i]: the i-th cell of a  *)
(* piece, and the call that put it.                                        *)
(***************************************************************************)
EXTENDS Integers, FiniteSets, Sequences, SequencesExt

CONSTANTS required_shares, segment_size,
          Lengths,      \* data lengths of the versions written
          Sizes,        \* sizes of keys, signature and share hash chain
          MaxCalls,     \* bound on put calls of one publish, but for put_block
          MaxVersions   \* bound on versions published

VARIABLES kind,     \* "SDMF" or "MDMF"
          share,    \* the share on the server
          w,        \* the write proxy
          latest    \* ghost: piece -> what was last put of it in the share

layoutVars == <<kind, share, w, latest>>

HEADER == 1
SALT == 1
RESERVED == 4 * (CHOOSE s \in Sizes : \A t \in Sizes : t <= s)

Pieces == {"enc_privkey", "share_hash_chain", "signature", "verification_key", "block_hash_tree"}
Marks == Pieces \cup {"share_data", "verification_key_end", "EOF"}
None == -1
NoOffsets == [m \in Marks |-> None]
Gap == [piece |-> "", call |-> 0, i |-> 0]

Blocks(length) == (length + segment_size - 1) \div segment_size
next_multiple(n, k) == ((n + k - 1) \div k) * k
block_size == segment_size \div required_shares

tail_block_size(length) ==
  LET tail == length % segment_size
  IN IF tail = 0 THEN block_size ELSE next_multiple(tail, required_shares) \div required_shares

(* MDMFSlotWriteProxy.__init__: the private key comes first and the share  *)
(* data behind the room set aside for keys, signature and hash chain.      *)
Placed(length) ==
  [NoOffsets EXCEPT !["enc_privkey"] = HEADER,
                    !["share_data"] = HEADER + RESERVED,
                    !["block_hash_tree"] = HEADER + RESERVED
                       + (block_size + SALT) * (Blocks(length) - 1) + tail_block_size(length) + SALT]

NewWriter(length, first, expected) ==
  [offsets |-> IF kind = "MDMF" THEN Placed(length) ELSE NoOffsets,
   queue |-> <<>>, pieces |-> [p \in Pieces |-> <<>>], blocks |-> [b \in 0..(Blocks(length) - 1) |-> <<>>],
   root |-> FALSE, length |-> length, first |-> first, expected |-> expected, calls |-> 0,
   version |-> expected + 1]

LayoutInit ==
  /\ kind \in {"SDMF", "MDMF"}
  /\ share = [version |-> 0, length |-> 0, offsets |-> NoOffsets, cells |-> <<>>]
  /\ \E length \in Lengths : (kind = "SDMF" => Blocks(length) = 1) /\ w = NewWriter(length, 0, 0)
  /\ latest = [pieces |-> [p \in Pieces |-> <<>>], blocks |-> <<>>]

(* The cells of a piece put now; put again, they differ.                   *)
Cells(piece, size) ==
  LET again == IF piece \in Pieces /\ w.pieces[piece] # <<>> THEN (w.pieces[piece][1].call % 10) + 1 ELSE 0
  IN [j \in 1..size |-> [piece |-> piece, call |-> w.version * 10 + again, i |-> j]]

Missing == {b \in w.first..(Blocks(w.length) - 1) : w.blocks[b] = <<>>}
Complete == Missing = {}

-----------------------------------------------------------------------------
(* Queue cells for an offset.                                              *)
Queue(x, offset, cells) ==
  [x EXCEPT !.queue = Append(@, [at |-> offset, cells |-> cells])]

Keep(piece, cells) == [w EXCEPT !.pieces[piece] = cells]

(* put_block: salt and block, the last block of a file being shorter.      *)
put_block(segnum) ==
  LET last == segnum + 1 = Blocks(w.length)
      cells == Cells("salt", SALT) \o Cells("block", IF last THEN tail_block_size(w.length) ELSE block_size)
      kept == [w EXCEPT !.blocks[segnum] = cells]
  IN IF kind = "MDMF"
     THEN Queue(kept, w.offsets["share_data"] + (block_size + SALT) * segnum, cells)
     ELSE kept

(* Each put_ is the set of what it makes of the proxy: none when it raises *)
(* LayoutInvalid.                                                          *)
put_encprivkey(size) ==
  LET cells == Cells("enc_privkey", size)
  IN IF kind = "SDMF" THEN {Keep("enc_privkey", cells)}
     ELSE {Queue([w EXCEPT !.pieces["enc_privkey"] = cells,
                           !.offsets["share_hash_chain"] = w.offsets["enc_privkey"] + size],
                 w.offsets["enc_privkey"], cells) : ok \in {t \in {1} : w.offsets["signature"] = None}}

(* The block hash tree has one cell for each block here.                   *)
put_blockhashes ==
  LET cells == Cells("block_hash_tree", Blocks(w.length))
  IN IF kind = "SDMF" THEN {Keep("block_hash_tree", cells)}
     ELSE {Queue([w EXCEPT !.pieces["block_hash_tree"] = cells,
                           !.offsets["EOF"] = w.offsets["block_hash_tree"] + Len(cells)],
                 w.offsets["block_hash_tree"], cells)}

put_sharehashes(size) ==
  LET cells == Cells("share_hash_chain", size)
  IN IF kind = "SDMF" THEN {Keep("share_hash_chain", cells)}
     ELSE {Queue([w EXCEPT !.pieces["share_hash_chain"] = cells,
                           !.offsets["signature"] = w.offsets["share_hash_chain"] + size],
                 w.offsets["share_hash_chain"], cells) :
             ok \in {t \in {1} : w.offsets["share_hash_chain"] # None /\ w.offsets["verification_key"] = None}}

put_root_hash == {[w EXCEPT !.root = TRUE]}

put_signature(size) ==
  LET cells == Cells("signature", size)
  IN IF kind = "SDMF" THEN {Keep("signature", cells) : ok \in {t \in {1} : w.root}}
     ELSE {Queue([w EXCEPT !.pieces["signature"] = cells,
                           !.offsets["verification_key"] = w.offsets["signature"] + size],
                 w.offsets["signature"], cells) :
             ok \in {t \in {1} : w.offsets["signature"] # None /\ w.root
                                 /\ w.offsets["verification_key_end"] = None}}

put_verification_key(size) ==
  LET cells == Cells("verification_key", size)
  IN IF kind = "SDMF" THEN {Keep("verification_key", cells)}
     ELSE {Queue([w EXCEPT !.pieces["verification_key"] = cells,
                           !.offsets["verification_key_end"] = w.offsets["verification_key"] + size],
                 w.offsets["verification_key"], cells) :
             ok \in {t \in {1} : w.offsets["verification_key"] # None}}

(* The keys of a file stay the same, and so do the sizes.                  *)
SizesOf(piece) == IF share.version = 0 THEN Sizes ELSE {Len(latest.pieces[piece])}

(* The blocks go first, as Publish pushes them.                            *)
Put ==
  /\ w.calls < MaxCalls - share.version
  /\ \E x \in IF ~Complete
             THEN {put_block(CHOOSE b \in Missing : \A c \in Missing : b <= c)}
             ELSE UNION {put_encprivkey(s) : s \in SizesOf("enc_privkey")}
                  \cup UNION {put_sharehashes(s) : s \in SizesOf("share_hash_chain")}
                  \cup UNION {put_signature(s) : s \in SizesOf("signature")}
                  \cup UNION {put_verification_key(s) : s \in SizesOf("verification_key")}
                  \cup (IF w.pieces["block_hash_tree"] = <<>> THEN put_blockhashes ELSE {})
                  \cup (IF w.root THEN {} ELSE put_root_hash) :
       w' = [x EXCEPT !.calls = IF Complete THEN @ + 1 ELSE @]
  /\ UNCHANGED <<kind, share, latest>>

-----------------------------------------------------------------------------
(* One write vector applied by the server, which fills a gap with zeros.   *)
Written(cells, v) ==
  [j \in 1..(IF Len(cells) > v.at + Len(v.cells) THEN Len(cells) ELSE v.at + Len(v.cells)) |->
     IF j > v.at /\ j <= v.at + Len(v.cells) THEN v.cells[j - v.at]
     ELSE IF j <= Len(cells) THEN cells[j] ELSE Gap]

RECURSIVE Applied(_, _)
Applied(cells, queue) == IF queue = <<>> THEN cells ELSE Applied(Written(cells, Head(queue)), Tail(queue))

(* SDMFSlotWriteProxy._get_offsets_dict, for the pieces in their order.    *)
SDMFOffsets(sdmfPieces) ==
  LET at(p) == HEADER + FoldLeft(LAMBDA n, q : n + Len(q), 0, p)
      s == sdmfPieces
  IN [NoOffsets EXCEPT !["signature"] = at(SubSeq(s, 1, 1)), !["share_hash_chain"] = at(SubSeq(s, 1, 2)),
                       !["block_hash_tree"] = at(SubSeq(s, 1, 3)), !["share_data"] = at(SubSeq(s, 1, 4)),
                       !["enc_privkey"] = at(SubSeq(s, 1, 5)), !["EOF"] = at(SubSeq(s, 1, 6))]

SDMFPieces == <<w.pieces["verification_key"], w.pieces["signature"], w.pieces["share_hash_chain"],
                w.pieces["block_hash_tree"], Tail(w.blocks[0]), w.pieces["enc_privkey"]>>

(* finish_publishing: the offsets, the header and the queue go out in one  *)
(* request, which the server refuses unless the share is the expected one. *)
finish_publishing ==
  /\ Complete /\ w.expected = share.version
  /\ w.root /\ \A p \in Pieces : w.pieces[p] # <<>>
  /\ share' = IF kind = "MDMF"
              THEN [version |-> w.version, length |-> w.length, offsets |-> w.offsets,
                    cells |-> Applied(share.cells, w.queue)]
              ELSE [version |-> w.version, length |-> w.length, offsets |-> SDMFOffsets(SDMFPieces),
                    cells |-> <<Gap>> \o FlattenSeq(SDMFPieces)]
  /\ latest' = [pieces |-> w.pieces,
                blocks |-> [b \in 1..Blocks(w.length) |->
                              IF w.blocks[b - 1] = <<>> THEN latest.blocks[b] ELSE w.blocks[b - 1]]]
  /\ w' = [NewWriter(w.length, Blocks(w.length), None) EXCEPT !.calls = MaxCalls]
  /\ UNCHANGED kind

(* Publish.update: a new proxy for a file that grows, or an SDMF file that *)
(* is replaced; the blocks from the first changed one on are put.          *)
Update ==
  /\ w.expected = None /\ share.version < MaxVersions
  /\ \E length \in Lengths : \E first \in 0..(Blocks(length) - 1) :
       /\ kind = "SDMF" => Blocks(length) = 1
       /\ length >= share.length
       /\ length > share.length => first * segment_size <= share.length
       /\ w' = NewWriter(length, first, share.version)
  /\ UNCHANGED <<kind, share, latest>>

LayoutNext == Put \/ finish_publishing \/ Update

LayoutSpec == LayoutInit /\ [][LayoutNext]_layoutVars

-----------------------------------------------------------------------------
(* MDMFSlotReadProxy: the read vector of each piece, by the offsets of the *)
(* header.                                                                 *)
_read(from, to) == SubSeq(share.cells, from + 1, to)

EndOf(piece) ==
  LET o == share.offsets
  IN IF kind = "MDMF"
     THEN CASE piece = "enc_privkey" -> o["share_hash_chain"]
            [] piece = "share_hash_chain" -> o["signature"]
            [] piece = "signature" -> o["verification_key"]
            [] piece = "verification_key" -> o["verification_key_end"]
            [] piece = "block_hash_tree" -> o["EOF"]
     ELSE CASE piece = "enc_privkey" -> o["EOF"]
            [] piece = "share_hash_chain" -> o["block_hash_tree"]
            [] piece = "signature" -> o["share_hash_chain"]
            [] piece = "verification_key" -> o["signature"]
            [] piece = "block_hash_tree" -> o["share_data"]

StartOf(piece) == IF kind = "SDMF" /\ piece = "verification_key" THEN HEADER ELSE share.offsets[piece]

(* get_block_and_salt: an SDMF share has its salt in the header.           *)
get_block_and_salt(segnum) ==
  LET size == IF segnum + 1 = Blocks(share.length) THEN tail_block_size(share.length) ELSE block_size
      from == share.offsets["share_data"] + (IF kind = "SDMF" THEN block_size ELSE block_size + SALT) * segnum
  IN _read(from, from + size + (IF kind = "MDMF" THEN SALT ELSE 0))

(* Whatever the order in which the pieces were put, and put again, and     *)
(* however often the share was updated in place: a reader finds each piece *)
(* as it was last put, and every block, the ones an update left alone too. *)
ReadsBack ==
  share.version > 0 =>
    /\ \A p \in Pieces : _read(StartOf(p), EndOf(p)) = latest.pieces[p]
    /\ \A b \in 0..(Blocks(share.length) - 1) :
         get_block_and_salt(b) = IF kind = "SDMF" THEN Tail(latest.blocks[b + 1]) ELSE latest.blocks[b + 1]
=============================================================================
