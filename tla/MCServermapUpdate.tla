-------------------------- MODULE MCServermapUpdate --------------------------
(* Four servers, a 1-of-2 file, versions 1 and 2. *)
EXTENDS ServermapUpdate

CONSTANTS Modes, PlacedShares

V1 == [seq |-> 1, hash |-> 5]
V2 == [seq |-> 2, hash |-> 3]

Four == <<"s1", "s2", "s3", "s4">>

At(S) == [p \in Slot |-> IF p \in S THEN V1 ELSE NoShare]

\* Shares may sit anywhere; at most PlacedShares of them exist, and share 0 once.
SomeGrids == {At(S) : S \in {T \in SUBSET Slot : /\ Cardinality(T) \in 1 .. PlacedShares
                                                    /\ Cardinality({p \in T : p[2] = 0}) <= 1}}

Start(m, known, burnt, key, n) ==
    [mode |-> m, map |-> At(known), bad_shares |-> At(burnt), has_privkey |-> key, others |-> n]

\* The file is new to this client, which may lack its private key when it wants to write; or its map
\* remembers a share on the last server, or that the share on the first server
\* was bad; or another client writes a share meanwhile.
Fresh == {Start(m, {}, {}, TRUE, 0) : m \in Modes} \union {Start("MODE_WRITE", {}, {}, FALSE, 0)}
Remembered == {Start(m, {<<serverlist[Len(serverlist)], 0>>}, {}, TRUE, 0) : m \in {"MODE_READ", "MODE_WRITE"}}
Burnt == {Start(m, {}, {<<serverlist[1], 0>>}, TRUE, 0) : m \in {"MODE_WRITE", "MODE_CHECK"}}
Shared == {Start("MODE_READ", {}, {}, TRUE, 1)}
AllStarts == Fresh \union Remembered \union Burnt \union Shared

OneCorrupt == {<<serverlist[1], 1>>}
=============================================================================
