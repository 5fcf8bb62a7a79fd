------------------------ MODULE MutableFileClients ------------------------
(***************************************************************************)
(* The lemmas behind MutableFileProofs: what the operators of a server map *)
(* compute, the inductive invariant, and the steps that reach a server.    *)
(***************************************************************************)
EXTENDS MutableFile, FiniteSetTheorems, WellFoundedInduction, TLAPS

(* The provers tried, in this order, where a step names none. *)
USE SMTT(20), ZenonT(20), SMTT(60)

(* In a finite set, one element has the greatest key: the set of those     *)
(* above it is the least of such sets, and so empty.                       *)
LEMMA GreatestKey ==
  ASSUME NEW S, IsFiniteSet(S), S # {}, NEW key \in [S -> Nat]
  PROVE  \E x \in S : \A y \in S : key[y] <= key[x]
<1> DEFINE Above(x) == {y \in S : key[y] > key[x]}
           T == {Above(x) : x \in S}
<1>1. T \subseteq FiniteSubsetsOf(S)
  <2>1. ASSUME NEW x \in S PROVE Above(x) \in FiniteSubsetsOf(S)
    <3>1. Above(x) \in SUBSET S
      OBVIOUS
    <3>2. IsFiniteSet(Above(x))
      BY <3>1, FS_Subset
    <3>3. QED
      BY <3>1, <3>2 DEF FiniteSubsetsOf
  <2>2. QED
    BY <2>1
<1>2. T # {}
  <2>1. PICK x \in S : TRUE
    OBVIOUS
  <2>2. Above(x) \in T
    BY <2>1
  <2>3. QED
    BY Zenon, ZenonT(60), <2>2
<1>3. PICK U \in T : \A V \in T : ~ (<<V, U>> \in StrictSubsetOrdering(S))
  <2> HIDE DEF T
  <2>1. QED
    BY <1>1, <1>2, FS_StrictSubsetOrderingWellFounded, WFMin
<1>4. PICK x \in S : U = Above(x)
  BY <1>3
<1>5. Above(x) = {}
  <2>1. SUFFICES ASSUME NEW y \in Above(x) PROVE FALSE
    OBVIOUS
  <2>2. y \in S /\ key[y] > key[x] /\ key[y] \in Nat /\ key[x] \in Nat
    BY <2>1
  <2>3. Above(y) \subseteq Above(x) /\ y \notin Above(y)
    BY <2>2
  <2>4. Above(y) \in T /\ Above(y) \in SUBSET S /\ Above(x) \in SUBSET S
    BY <2>2
  <2>5. <<Above(y), U>> \in StrictSubsetOrdering(S)
    <3> HIDE DEF Above
    <3>1. QED
      BY <1>4, <2>1, <2>3, <2>4 DEF StrictSubsetOrdering
  <2>6. QED
    BY <1>3, <2>4, <2>5
<1>6. QED
  BY <1>5

LEMMA MaxOfFinite ==
  ASSUME NEW S \in SUBSET Nat, IsFiniteSet(S), S # {}
  PROVE  Max(S) \in S /\ \A y \in S : y <= Max(S)
<1> DEFINE key == [x \in S |-> x]
<1>1. key \in [S -> Nat]
  OBVIOUS
<1>2. PICK x \in S : \A y \in S : key[y] <= key[x]
  <2> HIDE DEF key
  <2>1. QED
    BY Zenon, ZenonT(60), <1>1, GreatestKey
<1>3. \A y \in S : x >= y
  BY <1>2
<1>4. QED
  BY Zenon, ZenonT(60), <1>3 DEF Max

(* The slots of a file, and what a map knows of them, are finitely many. *)
LEMMA SlotsFinite == IsFiniteSet(Slot) /\ IsFiniteSet(Share)
<1>1. IsFiniteSet(Server)
  <2>1. Len(serverlist) \in Nat /\ DOMAIN serverlist = 1 .. Len(serverlist)
    BY ServerMapAssumption
  <2>2. IsFiniteSet(1 .. Len(serverlist))
    BY <2>1, FS_Interval
  <2>3. serverlist \in Surjection(1 .. Len(serverlist), Server)
    BY <2>1, ServerMapAssumption DEF Surjection, Server, Range
  <2>4. QED
    BY <2>2, <2>3, FS_Surjection
<1>2. IsFiniteSet(Share)
  BY ServerMapAssumption, FS_Interval DEF Share
<1>3. QED
  BY <1>1, <1>2, FS_Product DEF Slot

LEMMA VersionsFinite ==
  ASSUME NEW M, NEW map \in [Slot -> M \union {NoShare}]
  PROVE  IsFiniteSet(versions(map)) /\ versions(map) \subseteq M
<1> DEFINE K == get_known_shares(map)
           f == [p \in K |-> map[p]]
<1>1. K \in SUBSET Slot
  BY DEF get_known_shares
<1>2. IsFiniteSet(K)
  BY <1>1, SlotsFinite, FS_Subset
<1>3. f \in Surjection(K, versions(map))
  BY DEF Surjection, versions
<1>4. IsFiniteSet(versions(map))
  <2> HIDE DEF f, K
  <2>1. QED
    BY <1>2, <1>3, FS_Surjection
<1>5. versions(map) \subseteq M
  BY DEF versions, get_known_shares
<1>6. QED
  BY <1>4, <1>5

-----------------------------------------------------------------------------
(* Upto(x, v): a share x that is there is not newer than v. *)
Upto(x, v) == x = NoShare \/ x.seq <= v.seq
Rises(x, v) == x = NoShare \/ x.seq < v.seq
Known(m, M) == m \in [Slot -> M \union {NoShare}]

(* highest_seqnum: no share in the map has a greater sequence number. *)
LEMMA HighestSeqnum ==
  ASSUME NEW M \in SUBSET Versions, NEW m, Known(m, M)
  PROVE  /\ highest_seqnum(m) \in Nat
         /\ \A p \in Slot : m[p] # NoShare => m[p] \in M /\ m[p].seq <= highest_seqnum(m)
<1> DEFINE V == versions(m)
           f == [v \in V |-> v.seq]
           Q == {v.seq : v \in V}
<1>1. IsFiniteSet(V) /\ V \subseteq M
  BY VersionsFinite DEF Known
<1>2. Q \subseteq Nat
  BY <1>1 DEF Versions
<1>3. IsFiniteSet(Q)
  <2>1. f \in Surjection(V, Q)
    BY DEF Surjection
  <2> HIDE DEF f, Q, V
  <2>2. QED
    BY <1>1, <2>1, FS_Surjection
<1>4. IsFiniteSet(Q \union {0}) /\ Q \union {0} \in SUBSET Nat /\ Q \union {0} # {}
  BY <1>2, <1>3, FS_AddElement
<1>5. Max(Q \union {0}) \in Nat /\ \A y \in Q : y <= Max(Q \union {0})
  <2> HIDE DEF Q
  <2>1. QED
    BY <1>4, MaxOfFinite
<1>6. highest_seqnum(m) = Max(Q \union {0})
  BY Zenon, ZenonT(60) DEF highest_seqnum
<1>7. ASSUME NEW p \in Slot, m[p] # NoShare
      PROVE  m[p] \in M /\ m[p].seq \in Q
  BY <1>7 DEF Known, versions, get_known_shares
<1>8. QED
  BY <1>5, <1>6, <1>7

(* The version that a repair reads: it is there, and no share in the map   *)
(* is newer, since the repair would refuse.                                *)
LEMMA RepairsTheNewest ==
  ASSUME NEW M \in SUBSET Versions, NEW m, Known(m, M),
         best_recoverable_version(m) # NoShare, ~ refuses(m)
  PROVE  \A p \in Slot : Upto(m[p], best_recoverable_version(m))
<1> DEFINE R == recoverable_versions(m)
           key == [v \in R |-> v.seq]
<1>1. IsFiniteSet(versions(m)) /\ versions(m) \subseteq M
  BY VersionsFinite DEF Known
<1>2. R \in SUBSET versions(m) /\ IsFiniteSet(R)
  BY <1>1, FS_Subset DEF recoverable_versions
<1>3. R # {}
  BY DEF best_recoverable_version
<1>4. \A v \in R : v.seq \in Nat
  BY <1>1, <1>2 DEF Versions
<1>5. key \in [R -> Nat]
  BY <1>4
<1>6. PICK b \in R : \A v \in R : key[v] <= key[b]
  <2> HIDE DEF key, R
  <2>1. QED
    BY Zenon, ZenonT(60), <1>2, <1>3, <1>5, GreatestKey
<1>7. \A v \in R : v = b \/ Below(v, b)
  BY <1>4, <1>6 DEF refuses, needs_merge, Below
<1> DEFINE best == best_recoverable_version(m)
<1>8. best \in R /\ \A v \in R : v = best \/ Below(v, best)
  BY Zenon, ZenonT(60), <1>3, <1>7 DEF best_recoverable_version
<1>9. \A v \in R : v.seq <= best.seq
  BY <1>4, <1>8 DEF Below
<1>10. ASSUME NEW v \in versions(m) PROVE v.seq <= best.seq
  <2>1. CASE v \in R
    BY <1>9, <2>1
  <2>2. CASE v \notin R
    <3>1. Cardinality(shnums(m, v)) \in Nat
      <4>1. shnums(m, v) \in SUBSET Share
        BY DEF shnums, Slot
      <4>2. QED
        BY <4>1, SlotsFinite, FS_Subset, FS_CardinalityType
    <3>2. v \in unrecoverable_versions(m)
      BY <2>2, <3>1, ServerMapAssumption DEF recoverable_versions, unrecoverable_versions
    <3>3. PICK x \in R : ~ (v.seq > x.seq)
      BY <3>2 DEF refuses, unrecoverable_newer_versions
    <3>4. v.seq \in Nat /\ x.seq \in Nat /\ best.seq \in Nat
      BY <1>1, <1>4, <1>8 DEF Versions
    <3>5. QED
      BY <1>9, <3>3, <3>4
  <2>3. QED
    BY <2>1, <2>2
<1>11. QED
  BY <1>10 DEF Upto, versions, get_known_shares

-----------------------------------------------------------------------------
(***************************************************************************)
(* The inductive invariant.  What a client knows are versions that were    *)
(* published (M stands for made).  A client that pushes tests each slot    *)
(* for a share older than the one it writes, in a repair even for one that *)
(* is not newer than the version it repairs; unless it was surprised, it   *)
(* has placed, or still waits for, every share it has a writer for.        *)
(***************************************************************************)
Enough(S) == Cardinality({p[2] : p \in S}) >= required_shares

ClientOK(c, op, M) ==
  /\ DOMAIN c = DOMAIN Idle
  /\ Known(c.map, M) /\ Known(c.smap, M)
  /\ c.pc = "best_map" => op # "repair"
  /\ c.pc = "modify_map" => op = "modify"
  /\ c.pc = "repair_read" => \A p \in Slot : Upto(c.smap[p], c.version)
  /\ c.pc = "push" =>
       /\ c.new \in M /\ Known(c.testv, M)
       /\ \A p \in Slot : Rises(c.testv[p], c.new)
       /\ op = "repair" => \A p \in Slot : Upto(c.testv[p], c.version)
       /\ ~ c.surprised => c.writers \subseteq c.placed \union c.pending
  /\ c.pc \in {"push", "done"} => c.placed \subseteq Slot /\ c.new \in M
  /\ c.pc = "done" => Enough(c.placed)

(* A write that is still on its way. *)
StrayOK(r, M) ==
  /\ r.slot \in Slot /\ r.new \in M
  /\ r.testv \in M \union {NoShare} /\ Rises(r.testv, r.new)

(* The shares that c counts as placed are there, or newer ones are. *)
PlacedIn(g, c) ==
  \A p \in c.placed : g[p] # NoShare /\ (g[p] = c.new \/ g[p].seq > c.new.seq)

(* Nobody else writes what a client pushes. *)
Own(cl, st) ==
  /\ \A v, w \in DOMAIN cl :
       cl[v].pc = "push" /\ cl[w].pc = "push" /\ cl[v].new = cl[w].new => v = w
  /\ \A r \in st, w \in DOMAIN cl :
       cl[w].pc = "push" /\ r.new = cl[w].new => r.testv = cl[w].testv[r.slot]

MInv ==
  /\ Writer \subseteq AllWriters /\ Hash \subseteq Nat
  /\ made \subseteq Versions
  /\ Known(grid, made)
  /\ DOMAIN client = Writer
  /\ \A w \in Writer : ClientOK(client[w], Op[w], made)
  /\ \A w \in Writer : client[w].pc \in {"push", "done"} => PlacedIn(grid, client[w])
  /\ \A r \in stray : StrayOK(r, made)
  /\ Own(client, stray)

LEMMA IdleFields ==
  DOMAIN Idle = {"pc", "map", "smap", "u", "version", "first_time", "count", "new",
                 "testv", "writers", "pending", "surprised", "checkstring", "placed"}
  BY DEF Idle

LEMMA IdleValues ==
  /\ Idle.pc = "idle" /\ Idle.map = EmptyMap /\ Idle.smap = EmptyMap /\ Idle.placed = {}
  /\ Idle.new = NoShare
  BY DEF Idle, NoVersion

LEMMA EmptyKnown == \A M : Known(EmptyMap, M)
  BY DEF Known, EmptyMap

(* The clients' other states: all that counts is what they know. *)
LEMMA MappingOK ==
  ASSUME NEW c, NEW op, NEW M, NEW pc, NEW mode, NEW map, DOMAIN c = DOMAIN Idle,
         Known(map, M), Known(c.smap, M), pc \notin {"push", "done"},
         pc = "best_map" => op # "repair", pc = "modify_map" => op = "modify",
         pc = "repair_read" => \A p \in Slot : Upto(c.smap[p], c.version)
  PROVE  ClientOK(Mapping(c, pc, mode, map), op, M) /\ Mapping(c, pc, mode, map).pc = pc
<1> DEFINE n == Mapping(c, pc, mode, map)
<1>1. /\ DOMAIN n = DOMAIN Idle /\ n.pc = pc /\ n.map = map /\ n.smap = c.smap
      /\ n.version = c.version
  BY IdleFields DEF Mapping
<1> HIDE DEF n
<1>2. ClientOK(n, op, M)
  BY <1>1 DEF ClientOK
<1>3. QED
  BY <1>1, <1>2 DEF n

LEMMA EndedOK ==
  ASSUME NEW c, NEW op, NEW M, NEW pc, DOMAIN c = DOMAIN Idle,
         \/ pc \in {"unchanged", "gave_up", "failed"}
         \/ pc = "done" /\ c.placed \subseteq Slot /\ c.new \in M /\ Enough(c.placed)
  PROVE  /\ ClientOK(Ended(c, pc), op, M) /\ Ended(c, pc).pc = pc
         /\ Ended(c, pc).new = c.new /\ Ended(c, pc).placed = c.placed
<1> DEFINE n == Ended(c, pc)
<1>1. /\ DOMAIN n = DOMAIN Idle /\ n.pc = pc /\ n.map = EmptyMap /\ n.smap = EmptyMap
      /\ n.new = c.new /\ n.placed = c.placed
  BY IdleFields, IdleValues DEF Ended
<1> HIDE DEF n
<1>2. ClientOK(n, op, M)
  BY <1>1, EmptyKnown DEF ClientOK
<1>3. QED
  BY <1>1, <1>2 DEF n

(* A client keeps what it knows as more is published. *)
LEMMA KnowsMore ==
  ASSUME NEW c, NEW op, NEW M, NEW N, M \subseteq N, ClientOK(c, op, M)
  PROVE  ClientOK(c, op, N)
<1>1. \A m : Known(m, M) => Known(m, N)
  BY DEF Known
<1>2. QED
  BY <1>1 DEF ClientOK

(* publish: the version is new, and above all that the client has seen. *)
LEMMA PublishedOK ==
  ASSUME NEW M \in SUBSET Versions, NEW c, DOMAIN c = DOMAIN Idle, Known(c.map, M), Known(c.smap, M),
         NEW op, NEW items \in SUBSET AllWriters, NEW h \in Nat, NEW some,
         op = "repair" => \A p \in Slot : Upto(c.map[p], c.version),
         \A v \in M : ~ (v.seq = new_seqnum(c) /\ v.hash = h),
         NEW n, n = Published(c, items, h, some)
  PROVE  /\ n.pc = "push" /\ n.new \in Versions /\ n.new \notin M /\ n.placed = {}
         /\ ClientOK(n, op, M \union {n.new})
<1> DEFINE v == [seq |-> new_seqnum(c), hash |-> h, items |-> items]
           testv == [p \in Slot |-> checkstring(c, p)]
           goal == update_goal(get_known_shares(c.map))
<1>1. /\ DOMAIN n = DOMAIN Idle /\ n.pc = "push" /\ n.new = v /\ n.testv = testv
      /\ n.writers = goal /\ n.pending = goal /\ n.placed = {}
      /\ n.map = c.map /\ n.smap = c.smap /\ n.version = c.version
  <2> HIDE DEF v, testv, goal
  <2>1. n = [c EXCEPT !.pc = "push", !.new = v, !.testv = testv, !.writers = goal, !.pending = goal,
                      !.surprised = FALSE, !.checkstring = checkstring(c, some), !.placed = {}]
    BY Zenon, ZenonT(60) DEF Published, v, testv, goal
  <2>2. QED
    BY <2>1, IdleFields
<1>2. /\ highest_seqnum(c.map) \in Nat /\ new_seqnum(c) = highest_seqnum(c.map) + 1
      /\ \A p \in Slot : c.map[p] # NoShare => c.map[p] \in M /\ c.map[p].seq <= highest_seqnum(c.map)
  BY HighestSeqnum DEF new_seqnum
<1>3. v \in Versions /\ v.seq = highest_seqnum(c.map) + 1 /\ v \notin M
  BY <1>2 DEF Versions
<1>4. testv = c.map
  BY DEF checkstring, Known
<1> HIDE DEF v, testv, goal
<1>5. ASSUME NEW p \in Slot PROVE Rises(testv[p], v)
  <2>1. CASE c.map[p] = NoShare
    BY <1>4, <2>1 DEF Rises
  <2>2. CASE c.map[p] # NoShare
    <3>1. c.map[p].seq \in Nat
      BY <1>2, <2>2 DEF Versions
    <3>2. QED
      BY <1>2, <1>3, <1>4, <2>2, <3>1 DEF Rises
  <2>3. QED
    BY <2>1, <2>2
<1>6. Known(c.map, M \union {v}) /\ Known(c.smap, M \union {v})
  BY DEF Known
<1>7. ClientOK(n, op, M \union {v})
  BY <1>1, <1>4, <1>5, <1>6 DEF ClientOK
<1>8. QED
  BY <1>1, <1>3, <1>7

(* A step of one client, with what else it may change. *)
LEMMA ClientStep ==
  ASSUME MInv, NEW w \in Writer, NEW n, Set(w, n), scene' = scene,
         Known(grid', made'), made \subseteq made', made' \subseteq Versions,
         ClientOK(n, Op[w], made'),
         \A v \in Writer : client[v].pc \in {"push", "done"} => PlacedIn(grid', client[v]),
         n.pc \in {"push", "done"} => PlacedIn(grid', n),
         \/ n.pc # "push"
         \/ client[w].pc = "push" /\ n.new = client[w].new /\ n.testv = client[w].testv
         \/ n.new \notin made,
         \A r \in stray' :
            \/ r \in stray
            \/ /\ StrayOK(r, made') /\ r.new = n.new /\ r.testv = n.testv[r.slot]
               /\ client[w].pc = "push" /\ n.new = client[w].new
  PROVE  MInv'
<1>1. /\ DOMAIN client = Writer /\ Writer' = Writer /\ Op' = Op /\ Hash' = Hash
      /\ DOMAIN client' = Writer
      /\ \A v \in Writer : client'[v] = IF v = w THEN n ELSE client[v]
  BY DEF MInv, Set, Writer, Op, Hash
<1>2. ASSUME NEW v \in Writer
      PROVE  /\ ClientOK(client'[v], Op'[v], made')
             /\ client'[v].pc \in {"push", "done"} => PlacedIn(grid', client'[v])
  BY <1>1, KnowsMore DEF MInv
<1>3. ASSUME NEW r \in stray' PROVE StrayOK(r, made')
  BY DEF MInv, StrayOK
<1>4. \A v \in Writer : client[v].pc = "push" => client[v].new \in made
  BY DEF MInv, ClientOK
<1>5. ASSUME NEW v \in Writer, NEW x \in Writer,
             client'[v].pc = "push", client'[x].pc = "push", client'[v].new = client'[x].new
      PROVE  v = x
  BY <1>1, <1>4, <1>5 DEF MInv, Own
<1>6. ASSUME NEW r \in stray', NEW v \in Writer, client'[v].pc = "push", r.new = client'[v].new
      PROVE  r.testv = client'[v].testv[r.slot]
  <2>1. CASE r \in stray
    <3>1. r.new \in made
      BY <2>1 DEF MInv, StrayOK
    <3>2. QED
      BY <1>1, <1>6, <2>1, <3>1 DEF MInv, Own
  <2>2. CASE r \notin stray
    BY <1>1, <1>6, <2>2 DEF MInv, Own
  <2>3. QED
    BY <2>1, <2>2
<1>7. Own(client', stray')
  BY <1>1, <1>5, <1>6 DEF Own
<1>8. Writer' \subseteq AllWriters /\ Hash' \subseteq Nat
  BY <1>1 DEF MInv
<1>9. QED
  BY <1>1, <1>2, <1>3, <1>7, <1>8 DEF MInv

LEMMA QuietStep ==
  ASSUME MInv, NEW w \in Writer, NEW n, Set(w, n), UNCHANGED <<scene, grid, made, stray>>,
         ClientOK(n, Op[w], made),
         n.pc \in {"push", "done"} => /\ client[w].pc = "push" /\ n.new = client[w].new
                                     /\ n.placed = client[w].placed,
         n.pc = "push" => n.testv = client[w].testv
  PROVE  MInv'
<1>1. Known(grid', made') /\ made \subseteq made' /\ made' \subseteq Versions
  BY DEF MInv
<1>2. \A v \in Writer : client[v].pc \in {"push", "done"} => PlacedIn(grid', client[v])
  BY DEF MInv
<1>3. n.pc \in {"push", "done"} => PlacedIn(grid', n)
  BY <1>2 DEF PlacedIn
<1>4. QED
  BY <1>1, <1>2, <1>3, ClientStep

LEMMA NothingThere == \A M \in SUBSET Versions : NoShare \notin M
  BY Zenon, ZenonT(60), ScenesAssumption

(* The server carries out a write. *)
LEMMA WriteOK ==
  ASSUME MInv, NEW p \in Slot, NEW testv, NEW new \in made, Rises(testv, new), Write(p, testv, new)
  PROVE  /\ Known(grid', made)
         /\ \A v \in Writer : client[v].pc \in {"push", "done"} => PlacedIn(grid', client[v])
         /\ \A q \in Slot :
              \/ grid'[q] = grid[q]
              \/ q = p /\ grid[p] = testv /\ grid'[p] = new
         /\ Wrote(p, testv) => grid'[p] = new
<1>1. Known(grid, made) /\ made \subseteq Versions
  BY DEF MInv
<1>2. /\ Known(grid', made)
      /\ \A q \in Slot :
           \/ grid'[q] = grid[q]
           \/ q = p /\ grid[p] = testv /\ grid'[p] = new
      /\ Wrote(p, testv) => grid'[p] = new
  <2>1. CASE Wrote(p, testv)
    <3>1. grid' = [grid EXCEPT ![p] = new] /\ grid[p] = testv
      BY <2>1 DEF Write, Wrote
    <3>2. QED
      BY <1>1, <3>1 DEF Known
  <2>2. CASE ~ Wrote(p, testv)
    BY <1>1, <2>2 DEF Write
  <2>3. QED
    BY <2>1, <2>2
<1>3. ASSUME NEW v \in Writer, client[v].pc \in {"push", "done"}
      PROVE  PlacedIn(grid', client[v])
  <2>1. /\ client[v].placed \subseteq Slot /\ client[v].new \in made
        /\ PlacedIn(grid, client[v])
    BY <1>3 DEF MInv, ClientOK
  <2>2. client[v].new.seq \in Nat /\ new.seq \in Nat /\ new # NoShare
    BY <1>1, <2>1, NothingThere DEF Versions
  <2>3. ASSUME NEW q \in client[v].placed
        PROVE  grid'[q] # NoShare /\ (grid'[q] = client[v].new \/ grid'[q].seq > client[v].new.seq)
    <3>1. q \in Slot /\ grid[q] # NoShare /\ (grid[q] = client[v].new \/ grid[q].seq > client[v].new.seq)
      BY <2>1 DEF PlacedIn
    <3>2. CASE grid'[q] = grid[q]
      BY <3>1, <3>2
    <3>3. CASE grid'[q] # grid[q]
      <4>1. grid[q] = testv /\ grid'[q] = new
        BY <1>2, <3>1, <3>3
      <4>2. grid[q].seq \in Nat /\ grid[q].seq < new.seq
        BY <1>1, <3>1, <4>1 DEF Rises, Known, Versions
      <4>3. QED
        BY <2>2, <3>1, <4>1, <4>2
    <3>4. QED
      BY <3>2, <3>3
  <2>4. QED
    BY <2>3 DEF PlacedIn
<1>4. QED
  BY <1>2, <1>3

LEMMA InitOK == Init => MInv
<1> SUFFICES ASSUME Init PROVE MInv
  OBVIOUS
<1>1. PICK s \in Scenes : /\ scene = [op |-> s.op, hashes |-> s.hashes, losses |-> s.losses]
                          /\ grid \in s.grids
  BY DEF Init
<1>2. /\ Writer = DOMAIN s.op /\ Hash = s.hashes /\ client = [w \in Writer |-> Idle]
      /\ made = versions(grid) /\ stray = {}
  BY <1>1 DEF Init, Writer, Op, Hash
<1>3. grid \in [Slot -> Versions \union {NoShare}] /\ s.hashes \subseteq Nat
  BY <1>1, ScenesAssumption
<1>4. made \subseteq Versions /\ Known(grid, made)
  BY <1>2, <1>3 DEF versions, get_known_shares, Known
<1>5. Writer \subseteq AllWriters /\ Hash \subseteq Nat
  BY <1>2, <1>3 DEF AllWriters
<1>6. ASSUME NEW w \in Writer PROVE ClientOK(client[w], Op[w], made) /\ client[w].pc = "idle"
  <2>1. client[w] = Idle
    BY <1>2
  <2>2. QED
    BY <2>1, IdleValues, EmptyKnown DEF ClientOK
<1>7. Own(client, stray)
  BY <1>2, <1>6 DEF Own
<1>8. QED
  BY <1>2, <1>4, <1>5, <1>6, <1>7 DEF MInv

LEMMA Unchanged ==
  ASSUME MInv, UNCHANGED vars
  PROVE  MInv'
<1>1. Writer' = Writer /\ Op' = Op /\ Hash' = Hash
  BY DEF vars, Writer, Op, Hash
<1>2. QED
  BY <1>1 DEF MInv, vars

(* Steps of a client that only changes what it knows. *)
LEMMA StartOK ==
  ASSUME MInv, NEW w \in Writer, Start(w)
  PROVE  MInv'
<1> DEFINE pc == IF Op[w] = "repair" THEN "check_map" ELSE "best_map"
           n == Mapping(Idle, pc, "MODE_WRITE", EmptyMap)
<1>1. Set(w, n) /\ UNCHANGED <<scene, grid, made, stray>>
  BY DEF Start
<1>2. Known(EmptyMap, made) /\ Known(Idle.smap, made)
  BY EmptyKnown, IdleValues
<1>3. /\ pc \notin {"push", "done"} /\ (pc = "best_map" => Op[w] # "repair")
      /\ pc # "modify_map" /\ pc # "repair_read"
  OBVIOUS
<1> HIDE DEF pc
<1>4. ClientOK(n, Op[w], made) /\ n.pc = pc
  BY <1>2, <1>3, MappingOK
<1> HIDE DEF n
<1>5. QED
  BY <1>1, <1>3, <1>4, QuietStep

LEMMA MaybeRepairOK ==
  ASSUME MInv, NEW w \in Writer, _maybe_repair(w)
  PROVE  MInv'
<1> DEFINE c == client[w]
           n == IF need_repair(c.map) THEN Mapping(c, "repair_map", "MODE_REPAIR", EmptyMap)
                ELSE Ended(c, "unchanged")
<1>1. Set(w, n) /\ UNCHANGED <<scene, grid, made, stray>>
  BY DEF _maybe_repair
<1>2. DOMAIN c = DOMAIN Idle /\ Known(c.smap, made) /\ Known(EmptyMap, made)
  BY EmptyKnown DEF MInv, ClientOK
<1>3. ClientOK(n, Op[w], made) /\ n.pc \notin {"push", "done"}
  <2>1. CASE need_repair(c.map)
    <3> DEFINE m == Mapping(c, "repair_map", "MODE_REPAIR", EmptyMap)
    <3>1. ClientOK(m, Op[w], made) /\ m.pc = "repair_map"
      BY <1>2, MappingOK
    <3> HIDE DEF m
    <3>2. QED
      BY <2>1, <3>1 DEF m
  <2>2. CASE ~ need_repair(c.map)
    BY <1>2, <2>2, EndedOK
  <2>3. QED
    BY <2>1, <2>2
<1> HIDE DEF n
<1>4. QED
  BY <1>1, <1>3, QuietStep
=============================================================================
