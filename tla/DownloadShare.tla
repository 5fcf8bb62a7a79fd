---------------------------- MODULE DownloadShare ----------------------------
(***************************************************************************)
(* One Share of the immutable downloader (downloader/share.py) and the      *)
(* CommonShare it has in common with the copies of the same share on other  *)
(* servers.  The bytes of a share are abstracted to its parts: the offset   *)
(* table, the URI extension block (UEB), the share hash chain, the nodes of *)
(* the block hash tree and of the ciphertext hash tree, and one block per   *)
(* segment; _pending, _received and _unavailable are sets of parts.         *)
(*                                                                          *)
(* An operator takes and returns a record w of everything one turn of       *)
(* Share.loop can touch:                                                    *)
(*   s       the Share: [alive, off, seg, scheduled, pending, received,     *)
(*           unavailable]; seg is the segment asked of it by get_block, or  *)
(*           NoSeg (the downloader fetches one segment at a time)           *)
(*   ueb     node.have_UEB          sht   node.share_hash_tree              *)
(*   cht     node.ciphertext_hash_tree                                      *)
(*   bht     the block hash trees of all CommonShares, by share number      *)
(*   out     what the turn tells the observers of the block request, in     *)
(*           order: pairs of a state and whether the block is the true one  *)
(*   go      whether _get_satisfaction goes on to its next stage            *)
(*   retired whether a block request was retired in this pass               *)
(***************************************************************************)
EXTENDS Integers, Sequences, FiniteSets

CONSTANTS FileSize,        \* verifycap.size
          K, N,            \* needed_shares, total_shares
          GuessMax,        \* default_max_segment_size
          SegSize          \* the segment size in the UEB

NoSeg == -1
Ok == "ok"
Bad == "bad"
NoHash == "none"
PairHash(a, b) == IF a = Ok /\ b = Ok THEN Ok ELSE Bad
H == INSTANCE HashTree WITH pair_hash <- PairHash

Ceil(a, b) == (a + b - 1) \div b
next_multiple(n, k) == Ceil(n, k) * k

\* node._calculate_sizes
sizes(segment_size) ==
    LET rest   == FileSize % segment_size
        tail   == IF rest = 0 THEN segment_size ELSE rest
    IN  [num_segments      |-> Ceil(FileSize, segment_size),
         tail_segment_size |-> tail,
         block_size        |-> segment_size \div K,
         tail_block_size   |-> next_multiple(tail, K) \div K]

\* node._build_guessed_tables
guessed_segment_size ==
    next_multiple(IF FileSize < GuessMax THEN FileSize ELSE GuessMax, K)
guessed_num_segments == sizes(guessed_segment_size).num_segments
num_segments == sizes(SegSize).num_segments
GuessRight == guessed_segment_size = SegSize

\* node.get_num_segments
best_num_segments(ueb) == IF ueb THEN num_segments ELSE guessed_num_segments

Offsets       == <<"offsets", 0>>
UEB           == <<"ueb", 0>>
ShareHashes   == <<"share_hashes", 0>>
BlockHash(i)  == <<"block_hashes", i>>
CryptHash(i)  == <<"crypttext_hash_tree", i>>
Data(seg)     == <<"data", seg>>

\* The layout: offsets and data come first, the hashes and the UEB last.  One
\* remote read covers the asked-for parts of one of the two regions.
Front(part) == part[1] \in {"offsets", "data"}

NewShare == [alive |-> TRUE, off |-> FALSE, seg |-> NoSeg, scheduled |-> FALSE,
             pending |-> {}, received |-> {}, unavailable |-> {}]

\* What is wrong with a stored share: nothing, one kind of part that does not
\* hold what the uploader put there, or a share that ends before some part.
Value(flaw, part) == IF flaw = <<"bad", part[1]>> THEN Bad ELSE Ok
Layout == <<"offsets", "data", "crypttext_hash_tree", "block_hashes", "share_hashes", "ueb">>
At(field) == CHOOSE i \in DOMAIN Layout : Layout[i] = field
Missing(flaw, part) == flaw[1] = "short" /\ At(part[1]) >= At(flaw[2])

NoLeaves == [l \in {} |-> Ok]
All(v, nodes) == [i \in nodes |-> v]

-----------------------------------------------------------------------------
(* CommonShare and the node's trees *)

\* set_authoritative_num_segments for every CommonShare: a tree of the guessed
\* size is replaced.
resized(bht) ==
    IF guessed_num_segments = num_segments THEN bht
    ELSE [n \in DOMAIN bht |-> H!IncompleteHashTree(num_segments)]

desired_hashes(tree, leaves, seg) ==
    IF seg < leaves THEN H!needed_hashes(tree, seg, TRUE) ELSE {}

fail(w) ==     \* _fail
    [w EXCEPT !.s.alive = FALSE, !.go = FALSE, !.retired = FALSE,
              !.out = IF w.s.seg = NoSeg THEN @ ELSE Append(@, <<"DEAD", FALSE>>)]
wait(w) == [w EXCEPT !.go = FALSE]
use(w, parts) == [w EXCEPT !.s.received = @ \ parts]

satisfy_offsets(w, flaw) ==
    IF ~ w.go \/ w.s.off THEN w
    ELSE IF Offsets \notin w.s.received THEN wait(w)
    ELSE IF Value(flaw, Offsets) = Bad THEN fail(w)        \* LayoutInvalid
    ELSE [use(w, {Offsets}) EXCEPT !.s.off = TRUE]

\* _satisfy_UEB with node.validate_and_store_UEB
satisfy_UEB(w, flaw) ==
    IF ~ w.go \/ w.ueb THEN w
    ELSE IF UEB \notin w.s.received THEN wait(w)
    ELSE IF Value(flaw, UEB) = Bad THEN fail(w)
    ELSE [use(w, {UEB}) EXCEPT
             !.ueb = TRUE,
             !.cht = H!set_hashes(H!IncompleteHashTree(num_segments), All(Ok, {0}), NoLeaves).tree,
             !.sht = H!set_hashes(@, All(Ok, {0}), NoLeaves).tree,
             !.bht = resized(@)]

reject_segnum(w) ==
    IF w.go /\ w.s.seg # NoSeg /\ w.s.seg >= num_segments
    THEN [w EXCEPT !.out = Append(@, <<"BADSEGNUM", FALSE>>), !.s.seg = NoSeg,
                   !.go = FALSE, !.retired = TRUE]
    ELSE w

satisfy_share_hash_tree(w, flaw, shnum) ==
    LET chain == H!needed_hashes(H!IncompleteHashTree(N), shnum, TRUE)
        r     == H!set_hashes(w.sht, All(Value(flaw, ShareHashes), chain), NoLeaves)
    IN  IF ~ w.go \/ H!needed_hashes(w.sht, shnum, FALSE) = {} THEN w
        ELSE IF ShareHashes \notin w.s.received THEN wait(w)
        ELSE IF ~ r.ok THEN fail(w)
        ELSE [use(w, {ShareHashes}) EXCEPT !.sht = r.tree]

set_block_hash_root(w, shnum) ==
    IF ~ w.go \/ w.bht[shnum][0] # NoHash THEN w
    ELSE [w EXCEPT !.bht[shnum] =
             H!set_hashes(@, All(H!get_leaf(w.sht, shnum), {0}), NoLeaves).tree]

satisfy_block_hash_tree(w, flaw, shnum) ==
    LET need  == H!needed_hashes(w.bht[shnum], w.s.seg, TRUE)
        parts == {BlockHash(i) : i \in need}
        r     == H!set_hashes(w.bht[shnum], All(Value(flaw, BlockHash(0)), need), NoLeaves)
    IN  IF ~ w.go \/ w.s.seg = NoSeg THEN wait(w)
        ELSE IF need = {} THEN w
        ELSE IF ~ parts \subseteq w.s.received THEN wait(w)
        ELSE IF ~ r.ok THEN fail(w)
        ELSE [use(w, parts) EXCEPT !.bht[shnum] = r.tree]

satisfy_ciphertext_hash_tree(w, flaw) ==
    LET need  == H!needed_hashes(w.cht, w.s.seg, TRUE)
        parts == {CryptHash(i) : i \in need}
        r     == H!set_hashes(w.cht, All(Value(flaw, CryptHash(0)), need), NoLeaves)
    IN  IF ~ w.go \/ need = {} THEN w
        ELSE IF ~ parts \subseteq w.s.received THEN wait(w)
        ELSE IF ~ r.ok THEN fail(w)
        ELSE [use(w, parts) EXCEPT !.cht = r.tree]

\* check_block
block_ok(w, shnum, value) ==
    H!set_hashes(w.bht[shnum], NoLeaves, [l \in {w.s.seg} |-> value]).ok

\* A good block is delivered and everything else received is forgotten; a bad
\* one is reported, and the share stays in use.
satisfy_data_block(w, flaw, shnum) ==
    LET block == Data(w.s.seg)
        value == Value(flaw, block)
        told  == IF block_ok(w, shnum, value) THEN <<"COMPLETE", value = Ok>>
                                              ELSE <<"CORRUPT", FALSE>>
    IN  IF ~ w.go THEN w
        ELSE IF block \notin w.s.received THEN wait(w)
        ELSE [w EXCEPT !.out = Append(@, told), !.s.seg = NoSeg, !.go = FALSE,
                       !.retired = TRUE,
                       !.s.received = IF told[1] = "COMPLETE" THEN {} ELSE @ \ {block}]

\* One pass of _get_satisfaction, stage by stage.
get_satisfaction(w0, flaw, shnum) ==
    LET w1 == satisfy_offsets([w0 EXCEPT !.go = TRUE, !.retired = FALSE], flaw)
        w2 == reject_segnum(satisfy_UEB(w1, flaw))
        w3 == set_block_hash_root(satisfy_share_hash_tree(w2, flaw, shnum), shnum)
        w4 == satisfy_ciphertext_hash_tree(satisfy_block_hash_tree(w3, flaw, shnum), flaw)
    IN  satisfy_data_block(w4, flaw, shnum)

\* _desire: the parts asked for now.  Before the offset table is known they are
\* looked for where the guessed segment size puts them, which finds them only
\* when the guess is right.
desire(w, shnum, overrun_ok) ==
    LET seg    == w.s.seg
        leaves == best_num_segments(w.ueb)
        hashes == IF seg = NoSeg THEN {}
                  ELSE {BlockHash(i) : i \in desired_hashes(w.bht[shnum], leaves, seg)}
                       \cup {CryptHash(i) : i \in desired_hashes(w.cht, leaves, seg)}
        block  == IF seg = NoSeg \/ seg >= leaves THEN {} ELSE {Data(seg)}
        rest   == (IF w.ueb THEN {} ELSE {UEB})
                  \cup (IF H!needed_hashes(w.sht, shnum, FALSE) = {} THEN {} ELSE {ShareHashes})
                  \cup (IF GuessRight \/ w.ueb THEN hashes \cup block ELSE {})
    IN  IF w.s.off THEN rest
        ELSE {Offsets} \cup (IF overrun_ok /\ GuessRight THEN rest ELSE {})

\* A pass is repeated when it retired a block.
satisfied(w, flaw, shnum) == IF w.retired THEN get_satisfaction(w, flaw, shnum) ELSE w

\* _send_requests for what is desired and neither pending nor received; the
\* share is given up when a part that is really needed will never come.  With
\* the offset table still unknown only a server that does not tolerate overruns
\* makes the table needed.
send_requests(w, wants, overrun_ok) ==
    LET ask    == wants \ (w.s.pending \cup w.s.received)
        needed == IF w.s.off THEN wants ELSE IF overrun_ok THEN {} ELSE {Offsets}
        sent   == [w EXCEPT !.s.pending = @ \cup ask]
    IN  IF ~ w.s.alive THEN w
        ELSE IF needed \cap w.s.unavailable # {} THEN fail(sent) ELSE sent

ask_for_more(w, shnum, overrun_ok) ==
    send_requests(w, desire(w, shnum, overrun_ok), overrun_ok)

\* _do_loop: use what was received until no block is retired, then ask.
do_loop(w, flaw, shnum, overrun_ok) ==
    ask_for_more(satisfied(get_satisfaction(w, flaw, shnum), flaw, shnum), shnum, overrun_ok)

\* loop
loop(w, flaw, shnum, overrun_ok) ==
    LET w0 == [w EXCEPT !.s.scheduled = FALSE]
    IN  IF w.s.alive THEN do_loop(w0, flaw, shnum, overrun_ok) ELSE w0

\* _got_data for the parts of one read.
got_data(s, flaw, parts) ==
    LET short == {p \in parts : Missing(flaw, p)}
    IN  [s EXCEPT !.pending = @ \ parts, !.received = @ \cup (parts \ short),
                  !.unavailable = @ \cup short]
=============================================================================
