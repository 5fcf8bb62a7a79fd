------------------------------ MODULE HashTree ------------------------------
(***************************************************************************)
(* The Merkle trees of hashtree.py.  A tree is a function from the node     *)
(* numbers 0 .. 2 * L - 2 (L a power of two, node 0 the root) to hash       *)
(* values or NoHash.  The hash function is a constant: what the properties  *)
(* need of it is only which pairs it maps to which value.                   *)
(***************************************************************************)
EXTENDS Integers, FiniteSets

CONSTANTS NoHash,          \* None
          pair_hash(_, _)  \* the tagged hash of two children

\* The least power of two that is not below x (x >= 1).
roundup_pow2(x) == CHOOSE p \in {2 ^ d : d \in 0 .. x} :
                      p >= x /\ (p = 1 \/ p \div 2 < x)

parent(i) == (i - 1) \div 2
lchild(i) == 2 * i + 1
rchild(i) == 2 * i + 2
sibling(i) == IF lchild(parent(i)) = i THEN rchild(parent(i)) ELSE lchild(parent(i))

\* The level of node i: level d holds the nodes 2^d - 1 .. 2^(d+1) - 2.
depth_of(i) == CHOOSE d \in 0 .. i : 2 ^ d <= i + 1 /\ i + 1 < 2 ^ (d + 1)

\* The nodes a hash chain needs: the siblings of i and of its ancestors.
Chain[i \in Nat] == IF i = 0 THEN {} ELSE {sibling(i)} \cup Chain[parent(i)]
needed_for(i) == Chain[i]

Size(tree) == Cardinality(DOMAIN tree)
first_leaf_num(tree) == (Size(tree) - 1) \div 2
get_leaf(tree, leafnum) == tree[first_leaf_num(tree) + leafnum]

-----------------------------------------------------------------------------
(* HashTree: all the hashes of a list of leaves.                            *)

\* HashTree(L): leaves[i] for i in 0 .. n-1, padded with the empty leaf's hash
\* pad[i] up to a power of two.
HashTreeOf(leaves, pad) ==
    LET n   == Cardinality(DOMAIN leaves)
        end == roundup_pow2(n)
        at[i \in 0 .. 2 * end - 2] ==
            IF i >= end - 1
            THEN IF i - (end - 1) < n THEN leaves[i - (end - 1)] ELSE pad[i - (end - 1)]
            ELSE pair_hash(at[lchild(i)], at[rchild(i)])
    IN  at

-----------------------------------------------------------------------------
(* IncompleteHashTree: the hashes learned so far.                           *)

IncompleteHashTree(num_leaves) ==
    [i \in 0 .. 2 * roundup_pow2(num_leaves) - 2 |-> NoHash]

needed_hashes(tree, leafnum, include_leaf) ==
    LET leaf == first_leaf_num(tree) + leafnum
    IN  {i \in needed_for(leaf) \cup (IF include_leaf THEN {leaf} ELSE {}) :
             tree[i] = NoHash}

\* A parent that is known already is not compared.
CheckLevel_trusting(w, level) ==
    LET red     == {i \in w.red : depth_of(i) = level /\ i # 0}
        alone   == \E i \in red : w.tree[sibling(i)] = NoHash
        fresh   == {p \in {parent(i) : i \in red} : w.tree[p] = NoHash}
    IN  IF ~ w.ok \/ alone THEN [w EXCEPT !.ok = FALSE]
        ELSE [ok   |-> TRUE,
              tree |-> [i \in DOMAIN w.tree |->
                           IF i \in fresh THEN pair_hash(w.tree[lchild(i)], w.tree[rchild(i)])
                                          ELSE w.tree[i]],
              red  |-> (w.red \ red) \cup fresh]

\* One level of set_hashes: every node of the level that is not validated yet
\* is hashed with its sibling; a parent that is not known yet is filled in and
\* has to be validated in its turn.
CheckLevel(w, level) ==
    LET red     == {i \in w.red : depth_of(i) = level /\ i # 0}
        alone   == \E i \in red : w.tree[sibling(i)] = NoHash
        up(p)   == pair_hash(w.tree[lchild(p)], w.tree[rchild(p)])
        parents == {parent(i) : i \in red}
        fresh   == {p \in parents : w.tree[p] = NoHash}
    IN  IF ~ w.ok \/ alone THEN [w EXCEPT !.ok = FALSE]
        ELSE [ok   |-> \A p \in parents \ fresh : w.tree[p] = up(p),
              tree |-> [i \in DOMAIN w.tree |-> IF i \in fresh THEN up(i) ELSE w.tree[i]],
              red  |-> (w.red \ red) \cup fresh]

\* set_hashes(hashes, leaves): [ok |-> FALSE] is BadHashError or
\* NotEnoughHashesError, which every caller treats alike; the tree is then what
\* it was before the call.
set_hashes(tree, hashes, leaves) ==
    LET f          == first_leaf_num(tree)
        leafnodes  == {f + l : l \in DOMAIN leaves}
        conflict   == \E l \in DOMAIN leaves :
                         f + l \in DOMAIN hashes /\ hashes[f + l] # leaves[l]
        new_hashes == [i \in DOMAIN hashes \cup leafnodes |->
                          IF i \in leafnodes THEN leaves[i - f] ELSE hashes[i]]
        differs    == \E i \in DOMAIN new_hashes :
                         tree[i] # NoHash /\ tree[i] # new_hashes[i]
        red        == {i \in DOMAIN new_hashes : tree[i] = NoHash}
        added      == [i \in DOMAIN tree |->
                          IF i \in red THEN new_hashes[i] ELSE tree[i]]
        deepest    == depth_of(Size(tree) - 1)
        upto[l \in 0 .. deepest] ==      \* after the levels deepest .. l
            CheckLevel(IF l = deepest THEN [ok |-> TRUE, tree |-> added, red |-> red]
                                      ELSE upto[l + 1], l)
    IN  IF conflict \/ differs \/ ~ upto[0].ok
        THEN [ok |-> FALSE, tree |-> tree]
        ELSE [ok |-> TRUE, tree |-> upto[0].tree]
=============================================================================
