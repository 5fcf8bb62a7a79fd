----------------------------- MODULE Structures -----------------------------
(***************************************************************************)
(* The data structures a download rests on, driven by arbitrary sequences  *)
(* of calls: an IncompleteHashTree fed by servers that may be wrong, and   *)
(* the two classes of util/spans.py.  Spans is a sorted list of            *)
(* <<start, length>> that stands for a set of byte positions, DataSpans a  *)
(* sorted list of <<start, data>> that stands for the bytes held at some   *)
(* positions.  Each behaviour exercises one of the three.                  *)
(***************************************************************************)
EXTENDS Integers, Sequences, FiniteSets, FiniteSetsExt, SequencesExt

\* overlap: the common part of two ranges as <<start, length>>, or <<>>.
overlap(start0, length0, start1, length1) ==
    LET left  == Max({start0, start1})
        right == Min({start0 + length0, start1 + length1})
    IN  IF left < right THEN <<left, right - left>> ELSE <<>>

adjacent(start0, length0, start1, length1) ==
    \/ start0 < start1 /\ start0 + length0 = start1
    \/ start1 < start0 /\ start1 + length1 = start0

-----------------------------------------------------------------------------
(* Spans *)

Before(a, b) == a[1] < b[1] \/ (a[1] = b[1] /\ a[2] < b[2])
Sorted(spans) == SetToSortSeq(Range(spans), Before)

\* add: the run of spans that overlap or touch the new one becomes one span.
add(spans, start, length) ==
    LET Meets(i) == \/ overlap(spans[i][1], spans[i][2], start, length) # <<>>
                    \/ adjacent(spans[i][1], spans[i][2], start, length)
        met   == {i \in DOMAIN spans : Meets(i)}
        first == Min(met)
        last  == Max({j \in met : \A i \in first .. j : i \in met})
        from  == Min({start, spans[first][1]})
        to    == Max({start + length, spans[last][1] + spans[last][2]})
    IN  IF met = {} THEN Sorted(<<<<start, length>>>> \o spans)
        ELSE SubSeq(spans, 1, first - 1) \o <<<<from, to - from>>>>
                \o SubSeq(spans, last + 1, Len(spans))

\* remove, for one span: nothing left, one side, or both sides of it.
Without(span, start, length) ==
    LET o     == overlap(span[1], span[2], start, length)
        left  == <<span[1], o[1] - span[1]>>
        right == <<o[1] + o[2], span[1] + span[2] - (o[1] + o[2])>>
    IN  IF o = <<>> THEN <<span>>
        ELSE SelectSeq(<<left, right>>, LAMBDA s : s[2] > 0)

remove(spans, start, length) ==
    FlattenSeq([i \in DOMAIN spans |-> Without(spans[i], start, length)])

\* __add__ and __sub__: span by span.
plus(spans, other) ==
    FoldLeft(LAMBDA acc, s : add(acc, s[1], s[2]), spans, other)
minus(spans, other) ==
    FoldLeft(LAMBDA acc, s : remove(acc, s[1], s[2]), spans, other)

\* __and__: the bounds span is as long as the last span's END, which is more
\* than needed.
both(spans, other) ==
    IF spans = <<>> THEN <<>>
    ELSE LET bounds == <<<<spans[1][1], Last(spans)[1] + Last(spans)[2]>>>>
         IN  minus(spans, minus(bounds, other))

\* (start, length) in spans: one span holds all of it.
contains(spans, start, length) ==
    \E i \in DOMAIN spans :
        overlap(start, length, spans[i][1], spans[i][2]) = <<start, length>>

\* _check
Canonical(spans) == \A i \in 2 .. Len(spans) : spans[i][1] > spans[i-1][1] + spans[i-1][2]

-----------------------------------------------------------------------------
(* DataSpans *)

Take(data, n) == SubSeq(data, 1, n)
Drop(data, n) == SubSeq(data, n + 1, Len(data))
End(s) == s[1] + Len(s[2])

get_spans(ds) == FoldLeft(LAMBDA acc, s : add(acc, s[1], Len(s[2])), <<>>, ds)

\* get: <<>> is None.
get(ds, start, length) ==
    LET here == {i \in DOMAIN ds : ds[i][1] <= start /\ start < End(ds[i])}
        i    == Min(here)
        off  == start - ds[i][1]
    IN  IF here = {} \/ off + length > Len(ds[i][2]) THEN <<>>
        ELSE SubSeq(ds[i][2], off + 1, off + length)

\* The loop of add: the rest of the new data against span number i.
RECURSIVE Lay(_, _, _, _)
Lay(ds, i, start, data) ==
    LET s    == ds[i]
        pre  == start - s[1]           \* bytes of the old span that are kept
        end  == start + Len(data)
        room == Len(s[2]) - pre
    IN  IF data = <<>> THEN ds
        ELSE IF i > Len(ds) THEN Append(ds, <<start, data>>)
        ELSE IF start < s[1]           \* case A
        THEN Lay(InsertAt(ds, i, <<start, Take(data, Min({s[1] - start, Len(data)}))>>),
                 i + 1, s[1], Drop(data, s[1] - start))
        ELSE IF start >= End(s) THEN Lay(ds, i + 1, start, data)
        ELSE IF end < End(s)           \* cases B and E
        THEN [ds EXCEPT ![i] = <<s[1], Take(s[2], pre) \o data \o Drop(s[2], end - s[1])>>]
        ELSE                           \* cases C and D
             Lay([ds EXCEPT ![i] = <<s[1], Take(s[2], pre) \o Take(data, room)>>],
                 i + 1, start + room, Drop(data, room))

Merge(acc, s) ==
    IF acc # <<>> /\ adjacent(Last(acc)[1], Len(Last(acc)[2]), s[1], Len(s[2]))
    THEN Front(acc) \o <<<<Last(acc)[1], Last(acc)[2] \o s[2]>>>>
    ELSE Append(acc, s)

data_add(ds, start, data) == FoldLeft(Merge, <<>>, Lay(ds, 1, start, data))

Cut(s, start, length) ==
    LET o     == overlap(start, length, s[1], Len(s[2]))
        left  == <<s[1], Take(s[2], o[1] - s[1])>>
        right == <<o[1] + o[2], Drop(s[2], o[1] + o[2] - s[1])>>
    IN  IF o = <<>> THEN <<s>>
        ELSE SelectSeq(<<left, right>>, LAMBDA p : p[2] # <<>>)

data_remove(ds, start, length) ==
    FlattenSeq([i \in DOMAIN ds |-> Cut(ds[i], start, length)])

\* pop: get, and remove what was got.
pop(ds, start, length) ==
    [data |-> get(ds, start, length),
     rest |-> IF get(ds, start, length) = <<>> THEN ds ELSE data_remove(ds, start, length)]

-----------------------------------------------------------------------------
(* The calls, and what they should amount to.                              *)

CONSTANTS NumLeaves,   \* leaves of the hash tree
          MaxHashes,   \* hashes handed over in one set_hashes call
          LastByte,    \* Spans live in 0 .. LastByte
          LastCell,    \* DataSpans live in 0 .. LastCell
          MaxChunk,    \* longest piece of data added at once
          Byte         \* contents a byte can have

VARIABLES part,        \* which structure this behaviour is about
          tree,        \* IncompleteHashTree
          sp,          \* Spans
          wanted,      \* the set of positions sp stands for
          ds,          \* DataSpans
          cells        \* the bytes ds stands for: position -> content or Gap

vars == <<part, tree, sp, wanted, ds, cells>>

NoHash == -1
Forged == -2
Gap    == -1

\* The true hash of node i is the number i: only the true hashes of the two
\* children of a node hash to the true hash of that node.
PairHash(a, b) == IF a >= 1 /\ a % 2 = 1 /\ b = a + 1 THEN (a - 1) \div 2 ELSE Forged

H == INSTANCE HashTree WITH pair_hash <- PairHash

NoLeaves == [l \in {} |-> NoHash]
Nodes == 0 .. 2 * H!roundup_pow2(NumLeaves) - 2
Leaf == 0 .. NumLeaves - 1

\* The complete tree the uploader computed (HashTree) from its leaves.
Truth == LET first == H!roundup_pow2(NumLeaves) - 1
         IN  H!HashTreeOf([l \in Leaf |-> first + l], [l \in Nat |-> first + l])
True(nodes) == [i \in nodes |-> Truth[i]]

Init ==
    /\ part \in {"tree", "spans", "data"}
    \* the root comes from the cap or from the URI extension block
    /\ tree = H!set_hashes(H!IncompleteHashTree(NumLeaves), True({0}), NoLeaves).tree
    /\ sp = <<>> /\ wanted = {}
    /\ ds = <<>> /\ cells = [i \in 0 .. LastCell |-> Gap]

-----------------------------------------------------------------------------
(* A server hands over hashes of some nodes and a block that hashes to some *)
(* leaf value; each may be wrong.                                           *)
SetHashes ==
    /\ part = "tree"
    /\ \E nodes \in UNION {kSubset(n, Nodes) : n \in 0 .. MaxHashes} :
       \E lies \in SUBSET nodes, leaves \in SUBSET Leaf, lying \in BOOLEAN :
          /\ Cardinality(leaves) <= 1
          /\ tree' = H!set_hashes(tree,
                         [i \in nodes |-> IF i \in lies THEN Forged ELSE Truth[i]],
                         [l \in leaves |-> IF lying THEN Forged
                                           ELSE H!get_leaf(Truth, l)]).tree
    /\ UNCHANGED <<part, sp, wanted, ds, cells>>

Positions(start, length) == start .. start + length - 1

SpansAdd ==
    /\ part = "spans"
    /\ \E start \in 0 .. LastByte : \E length \in 1 .. LastByte - start + 1 :
          /\ sp' = add(sp, start, length)
          /\ wanted' = wanted \cup Positions(start, length)
    /\ UNCHANGED <<part, tree, ds, cells>>

SpansRemove ==
    /\ part = "spans"
    /\ \E start \in 0 .. LastByte : \E length \in 1 .. LastByte - start + 1 :
          /\ sp' = remove(sp, start, length)
          /\ wanted' = wanted \ Positions(start, length)
    /\ UNCHANGED <<part, tree, ds, cells>>

DataAdd ==
    /\ part = "data"
    /\ \E length \in 1 .. MaxChunk : \E start \in 0 .. LastCell - length + 1 :
       \E data \in [1 .. length -> Byte] :
          /\ ds' = data_add(ds, start, data)
          /\ cells' = [i \in DOMAIN cells |->
                          IF i \in Positions(start, length) THEN data[i - start + 1]
                                                            ELSE cells[i]]
    /\ UNCHANGED <<part, tree, sp, wanted>>

\* remove, and pop where the whole range is held.
DataRemove ==
    /\ part = "data"
    /\ \E start \in 0 .. LastCell : \E length \in 1 .. LastCell - start + 1 :
          /\ \/ ds' = data_remove(ds, start, length)
             \/ get(ds, start, length) # <<>> /\ ds' = pop(ds, start, length).rest
          /\ cells' = [i \in DOMAIN cells |->
                          IF i \in Positions(start, length) THEN Gap ELSE cells[i]]
    /\ UNCHANGED <<part, tree, sp, wanted>>

Next == SetHashes \/ SpansAdd \/ SpansRemove \/ DataAdd \/ DataRemove

Spec == Init /\ [][Next]_vars

-----------------------------------------------------------------------------
(* With a trusted root, whatever sequence of hashes and blocks the servers  *)
(* hand over, set_hashes never leaves a hash in the tree that is not the    *)
(* true one, and handing over the hashes that needed_hashes asks for, with  *)
(* the true block, is always accepted (hashtree.py, set_hashes and          *)
(* needed_hashes).                                                          *)
OnlyTrueHashes ==
    /\ \A i \in DOMAIN tree : tree[i] \in {NoHash, Truth[i]}
    /\ \A l \in Leaf :
          LET asked == H!needed_hashes(tree, l, TRUE)
              r     == H!set_hashes(tree, True(asked), NoLeaves)
          IN  /\ r.ok /\ H!get_leaf(r.tree, l) = H!get_leaf(Truth, l)
              /\ ~ H!set_hashes(r.tree, NoLeaves, [x \in {l} |-> Forged]).ok

Denotes(spans) == UNION {Positions(spans[i][1], spans[i][2]) : i \in DOMAIN spans}

(* Spans.add and remove keep the list sorted, merged and equal to the set   *)
(* it stands for, and +, - , & and in are the set operations (util/spans.py *)
(* Spans, whose _check states the first half).                              *)
SpansExact ==
    /\ Canonical(sp) /\ Denotes(sp) = wanted
    /\ \A start \in 0 .. LastByte : \A length \in 1 .. LastByte - start + 1 :
          LET other == <<<<start, length>>>>
              set   == Positions(start, length)
              ragged == plus(other, <<<<0, 1>>>>)
          IN  /\ contains(sp, start, length) = (set \subseteq wanted)
              /\ Denotes(both(sp, ragged)) = wanted \cap (set \cup {0})
              /\ Denotes(plus(sp, ragged)) = wanted \cup set \cup {0}
              /\ Denotes(minus(sp, ragged)) = wanted \ (set \cup {0})

(* DataSpans.get returns exactly the bytes last written to a range, and     *)
(* None when a byte of it is missing, after any adds, removes and pops; the *)
(* spans it reports are the bytes it holds (util/spans.py, DataSpans).      *)
DataExact ==
    /\ \A start \in 0 .. LastCell : \A length \in 1 .. LastCell - start + 1 :
          get(ds, start, length) =
             IF \E i \in Positions(start, length) : cells[i] = Gap THEN <<>>
             ELSE [j \in 1 .. length |-> cells[start + j - 1]]
    /\ Canonical(get_spans(ds))
    /\ Denotes(get_spans(ds)) = {i \in DOMAIN cells : cells[i] # Gap}
=============================================================================
