---------------------------- MODULE MCMutableFile ----------------------------
EXTENDS MutableFile, TLC
CONSTANTS s1, s2, w1, w2, r1

Two == <<s1, s2>>
V1 == [seq |-> 1, hash |-> 1, items |-> {}]
V1b == [seq |-> 1, hash |-> 2, items |-> {}]
V2 == [seq |-> 2, hash |-> 1, items |-> {}]

\* Where the shares of a healthy file are: one after the other.
Healthy == {[p \in Slot |-> IF p[1] = serverlist[(p[2] % Len(serverlist)) + 1] THEN V1 ELSE NoShare]}

\* A newer version in one slot; too few shares.
Damaged ==
    {[g EXCEPT ![<<serverlist[1], 0>>] = V2] : g \in Healthy}
    \union {[g EXCEPT ![<<serverlist[1], 0>>] = NoShare] : g \in Healthy}

\* Any placement of shares of two versions; two heads.
Anything == [Slot -> {NoShare, V1, V2}] \union [Slot -> {V1, V1b}]

Scene(op, grids, hashes, losses) ==
    [op |-> op, grids |-> grids, hashes |-> hashes, losses |-> losses]

\* Two clients modify; two overwrite and a call fails; a repair
\* against a modify; a repair on its own.
Race   == Scene([w \in {w1, w2} |-> "modify"], Healthy, 1 .. 4, 0)
Losses == Scene([w \in {w1, w2} |-> "overwrite"], Healthy, 1 .. 2, 1)
Mend   == Scene([w \in {w1, r1} |-> IF w = r1 THEN "repair" ELSE "modify"], Damaged, 1 .. 3, 0)
Heal   == Scene([w \in {r1} |-> "repair"], Anything, 1 .. 3, 0)

AllScenes == {Race, Losses, Mend, Heal}
=============================================================================
