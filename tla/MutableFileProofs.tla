------------------------- MODULE MutableFileProofs -------------------------
(***************************************************************************)
(* Sequence numbers rise, and what was reported as stored is stored, for   *)
(* any servers, number of shares, clients and failing calls.               *)
(***************************************************************************)
EXTENDS MutableFileClients

(* The provers tried, in this order, where a step names none. *)
USE SMTT(20), ZenonT(20), SMTT(60)

LEMMA AnswerOK ==
  ASSUME MInv, NEW w \in Writer, NEW p \in Slot, _got_write_answer(w, p)
  PROVE  MInv'
<1> DEFINE c == client[w]
           wrote == Wrote(p, c.testv[p])
           n == answered(c, p, wrote)
<1>1. /\ c.pc = "push" /\ p \in c.pending /\ Write(p, c.testv[p], c.new) /\ Set(w, n)
      /\ UNCHANGED <<scene, made, stray, lost>>
  BY DEF _got_write_answer
<1>2. ClientOK(c, Op[w], made) /\ made \subseteq Versions /\ PlacedIn(grid, c)
  BY <1>1 DEF MInv
<1>3. c.new \in made /\ Rises(c.testv[p], c.new) /\ c.placed \subseteq Slot /\ c.new # NoShare
  BY <1>1, <1>2, NothingThere DEF ClientOK
<1>4. /\ Known(grid', made)
      /\ \A v \in Writer : client[v].pc \in {"push", "done"} => PlacedIn(grid', client[v])
      /\ wrote => grid'[p] = c.new
  BY <1>1, <1>3, WriteOK
<1> HIDE DEF wrote
<1>5. /\ DOMAIN n = DOMAIN Idle /\ n.pc = "push" /\ n.new = c.new /\ n.testv = c.testv
      /\ n.smap = c.smap /\ n.version = c.version /\ n.writers = c.writers
      /\ n.pending = c.pending \ {p}
      /\ n.placed = IF wrote THEN c.placed \union {p} ELSE c.placed
      /\ n.map = [c.map EXCEPT ![p] = IF wrote THEN c.new ELSE @]
      /\ n.surprised = (c.surprised \/ ~ wrote \/ surprise_shares(c, p) # {})
  <2>1. DOMAIN c = DOMAIN Idle
    BY <1>2 DEF ClientOK
  <2> HIDE DEF c
  <2>2. QED
    BY <1>1, <2>1, IdleFields DEF answered
<1> HIDE DEF n
<1>6. Known(n.map, made) /\ Known(n.smap, made)
  BY <1>2, <1>3, <1>5 DEF ClientOK, Known
<1>7. ~ n.surprised => n.writers \subseteq n.placed \union n.pending
  <2>1. SUFFICES ASSUME ~ n.surprised PROVE n.writers \subseteq n.placed \union n.pending
    OBVIOUS
  <2>2. ~ c.surprised /\ wrote
    BY Zenon, ZenonT(60), <1>5, <2>1
  <2>3. c.writers \subseteq c.placed \union c.pending
    BY Zenon, ZenonT(60), <1>1, <1>2, <2>2 DEF ClientOK
  <2>4. QED
    BY <1>5, <2>2, <2>3
<1>8. n.placed \subseteq Slot /\ PlacedIn(grid', n)
  BY <1>1, <1>3, <1>4, <1>5 DEF PlacedIn
<1>9. ClientOK(n, Op[w], made)
  BY <1>1, <1>2, <1>5, <1>6, <1>7, <1>8 DEF ClientOK
<1>10. QED
  BY <1>1, <1>2, <1>4, <1>5, <1>8, <1>9, ClientStep

LEMMA ConnectionOK ==
  ASSUME MInv, NEW w \in Writer, NEW p \in Slot, _connection_problem(w, p)
  PROVE  MInv'
<1> DEFINE c == client[w]
           r == [slot |-> p, testv |-> c.testv[p], new |-> c.new]
           n == dropped(c, p)
<1>1. /\ c.pc = "push" /\ p \in c.pending /\ Set(w, n) /\ UNCHANGED <<scene, made>>
      /\ \/ Write(p, c.testv[p], c.new) /\ UNCHANGED stray
         \/ stray' = stray \union {r} /\ UNCHANGED grid
  BY DEF _connection_problem
<1>2. ClientOK(c, Op[w], made) /\ made \subseteq Versions /\ PlacedIn(grid, c) /\ Known(grid, made)
  BY <1>1 DEF MInv
<1>3. /\ c.new \in made /\ Rises(c.testv[p], c.new) /\ c.placed \subseteq Slot
      /\ c.testv[p] \in made \union {NoShare}
  BY <1>1, <1>2 DEF ClientOK, Known
<1>4. /\ Known(grid', made)
      /\ \A v \in Writer : client[v].pc \in {"push", "done"} => PlacedIn(grid', client[v])
  <2>1. CASE Write(p, c.testv[p], c.new)
    BY <1>3, <2>1, WriteOK
  <2>2. CASE UNCHANGED grid
    BY <1>2, <2>2 DEF MInv
  <2>3. QED
    BY <1>1, <2>1, <2>2
<1>5. StrayOK(r, made)
  BY <1>3 DEF StrayOK
<1>6. /\ DOMAIN n = DOMAIN Idle /\ n.pc = "push" /\ n.new = c.new /\ n.testv = c.testv
      /\ n.smap = c.smap /\ n.version = c.version /\ n.writers = c.writers \ {p}
      /\ n.pending = c.pending \ {p} /\ n.placed = c.placed /\ n.map = c.map
      /\ n.surprised = c.surprised
  <2>1. DOMAIN c = DOMAIN Idle
    BY <1>2 DEF ClientOK
  <2> HIDE DEF c
  <2>2. QED
    BY <1>1, <2>1, IdleFields DEF dropped
<1> HIDE DEF n
<1>7. PlacedIn(grid', n)
  BY <1>1, <1>4, <1>6 DEF PlacedIn
<1>8. ClientOK(n, Op[w], made)
  BY <1>1, <1>2, <1>6 DEF ClientOK
<1>9. \A x \in stray' :
        \/ x \in stray
        \/ /\ StrayOK(x, made') /\ x.new = n.new /\ x.testv = n.testv[x.slot]
           /\ client[w].pc = "push" /\ n.new = client[w].new
  BY <1>1, <1>5, <1>6
<1>10. QED
  BY <1>1, <1>2, <1>4, <1>6, <1>7, <1>8, <1>9, ClientStep

LEMMA StrayWriteOK ==
  ASSUME MInv, NEW r \in stray, StrayWrite(r)
  PROVE  MInv'
<1>1. /\ stray' = stray \ {r} /\ UNCHANGED <<scene, client, made>>
      /\ Write(r.slot, r.testv, r.new) \/ UNCHANGED grid
  BY DEF StrayWrite
<1>2. r.slot \in Slot /\ r.new \in made /\ Rises(r.testv, r.new)
  BY DEF MInv, StrayOK
<1>3. /\ Known(grid', made)
      /\ \A v \in Writer : client[v].pc \in {"push", "done"} => PlacedIn(grid', client[v])
  <2>1. CASE Write(r.slot, r.testv, r.new)
    BY <1>2, <2>1, WriteOK
  <2>2. CASE UNCHANGED grid
    BY <2>2 DEF MInv
  <2>3. QED
    BY <1>1, <2>1, <2>2
<1>4. Own(client', stray')
  BY <1>1 DEF MInv, Own
<1>5. Writer' = Writer /\ Op' = Op /\ Hash' = Hash
  BY <1>1 DEF Writer, Op, Hash
<1>6. QED
  BY <1>1, <1>3, <1>4, <1>5 DEF MInv

LEMMA QueryOK ==
  ASSUME MInv, NEW w \in Writer, NEW s \in Server, _got_results(w, s) \/ _query_failed(w, s)
  PROVE  MInv'
<1> DEFINE c == client[w]
<1>1. ClientOK(c, Op[w], made) /\ Known(grid, made)
  BY DEF MInv
<1>2. PICK map, u : /\ Set(w, [c EXCEPT !.map = map, !.u = u])
                    /\ map = c.map \/ map = [p \in Slot |-> IF p[1] = s /\ p[2] \in {sh \in Share : grid[<<s, sh>>] # NoShare}
                                                              THEN grid[p] ELSE c.map[p]]
                    /\ c.pc \notin Terminal
                    /\ UNCHANGED <<scene, grid, made, stray>>
  <2>1. CASE _got_results(w, s)
    BY Zenon, ZenonT(60), <2>1 DEF _got_results
  <2>2. CASE _query_failed(w, s)
    <3>1. PICK u : /\ Set(w, [c EXCEPT !.u = u]) /\ c.pc \notin Terminal
                   /\ UNCHANGED <<scene, grid, made, stray>>
      BY Zenon, ZenonT(60), <2>2 DEF _query_failed
    <3>2. [c EXCEPT !.u = u] = [c EXCEPT !.map = c.map, !.u = u]
      BY Zenon, ZenonT(60)
    <3>3. QED
      BY Zenon, ZenonT(60), <3>1, <3>2
  <2>3. QED
    BY Zenon, ZenonT(60), <2>1, <2>2
<1> DEFINE n == [c EXCEPT !.map = map, !.u = u]
<1>3. Known(map, made)
  <2>1. Known(c.map, made)
    BY <1>1 DEF ClientOK
  <2>2. QED
    BY Zenon, ZenonT(60), <1>1, <1>2, <2>1 DEF Known
<1>4. /\ DOMAIN n = DOMAIN Idle /\ n.pc = c.pc /\ n.map = map /\ n.smap = c.smap
      /\ n.version = c.version /\ n.new = c.new /\ n.testv = c.testv /\ n.placed = c.placed
      /\ n.writers = c.writers /\ n.pending = c.pending /\ n.surprised = c.surprised
  <2>1. DOMAIN c = DOMAIN Idle
    BY <1>1 DEF ClientOK
  <2> HIDE DEF c
  <2>2. QED
    BY <2>1, IdleFields
<1>5. ClientOK(n, Op[w], made)
  <2> HIDE DEF n
  <2>1. QED
    BY <1>1, <1>3, <1>4 DEF ClientOK
<1>6. QED
  <2> HIDE DEF n
  <2>1. n.pc # "done"
    BY <1>2, <1>4 DEF Terminal
  <2>2. QED
    BY Zenon, ZenonT(60), <1>2, <1>4, <1>5, <2>1, QuietStep DEF n

LEMMA FullServermapOK ==
  ASSUME MInv, NEW w \in Writer, _got_full_servermap(w)
  PROVE  MInv'
<1> DEFINE c == client[w]
           best == best_recoverable_version(c.map)
           d == [c EXCEPT !.version = best, !.smap = c.map]
           m == Mapping(d, "repair_read", "MODE_READ", EmptyMap)
           stop == best = NoVersion \/ refuses(c.map)
           n == IF stop THEN Ended(c, "failed") ELSE m
<1>1. Set(w, n) /\ UNCHANGED <<scene, grid, made, stray>>
  BY DEF _got_full_servermap
<1>2. DOMAIN c = DOMAIN Idle /\ Known(c.map, made) /\ Known(EmptyMap, made) /\ made \subseteq Versions
  BY EmptyKnown DEF MInv, ClientOK
<1>3. ASSUME ~ stop PROVE ClientOK(m, Op[w], made) /\ m.pc = "repair_read"
  <2>1. \A p \in Slot : Upto(c.map[p], best)
    BY <1>2, <1>3, RepairsTheNewest DEF NoVersion
  <2> HIDE DEF c, best
  <2>2. DOMAIN d = DOMAIN Idle /\ d.smap = c.map /\ d.version = best
    BY <1>2, IdleFields
  <2> HIDE DEF d
  <2>3. QED
    BY <1>2, <2>1, <2>2, MappingOK
<1>4. ClientOK(n, Op[w], made) /\ n.pc \notin {"push", "done"}
  <2>1. CASE stop
    BY <1>2, <2>1, EndedOK
  <2> HIDE DEF stop, m
  <2>2. CASE ~ stop
    BY <1>3, <2>2
  <2>3. QED
    BY <2>1, <2>2
<1> HIDE DEF n
<1>5. QED
  BY <1>1, <1>4, QuietStep

LEMMA PushOK ==
  ASSUME MInv, NEW w \in Writer, _push(w)
  PROVE  MInv'
<1> DEFINE c == client[w]
<1>1. /\ c.pc = "push" /\ c.pending = {} /\ UNCHANGED <<scene, grid, made, stray>>
      /\ \/ enough_writers(c) /\ ~ c.surprised /\ Set(w, Ended(c, "done"))
         \/ Set(w, Ended(c, "failed")) \/ Set(w, Ended(c, "gave_up"))
         \/ Op[w] = "modify" /\ Set(w, _retry(c))
  BY Zenon, ZenonT(60) DEF _push
<1>2. ClientOK(c, Op[w], made)
  BY DEF MInv
<1>3. DOMAIN c = DOMAIN Idle /\ Known(c.map, made) /\ c.placed \subseteq Slot /\ c.new \in made
  BY <1>1, <1>2 DEF ClientOK
<1>4. CASE enough_writers(c) /\ ~ c.surprised /\ Set(w, Ended(c, "done"))
  <2>1. c.writers \subseteq c.placed
    <3>1. c.writers \subseteq c.placed \union c.pending
      BY Zenon, ZenonT(60), <1>1, <1>2, <1>4 DEF ClientOK
    <3>2. QED
      BY <1>1, <3>1
  <2>2. Enough(c.placed)
    <3> DEFINE P == {p[2] : p \in c.placed}
               W == {p[2] : p \in c.writers}
    <3>1. P \in SUBSET Share
      BY <1>3 DEF Slot
    <3>2. W \in SUBSET P
      BY <2>1
    <3>3. Cardinality(W) >= required_shares
      BY <1>4 DEF enough_writers
    <3>4. IsFiniteSet(P) /\ IsFiniteSet(W)
      <4> HIDE DEF P, W
      <4>1. QED
        BY <3>1, <3>2, SlotsFinite, FS_Subset
    <3>5. Cardinality(W) \in Nat /\ Cardinality(P) \in Nat /\ Cardinality(W) <= Cardinality(P)
      <4> HIDE DEF P, W
      <4>1. QED
        BY <3>2, <3>4, FS_Subset, FS_CardinalityType
    <3>6. required_shares \in Nat
      BY ServerMapAssumption
    <3>7. Cardinality(P) >= required_shares
      BY <3>3, <3>5, <3>6
    <3>8. QED
      BY <3>7 DEF Enough
  <2>3. /\ ClientOK(Ended(c, "done"), Op[w], made) /\ Ended(c, "done").pc = "done"
        /\ Ended(c, "done").new = c.new /\ Ended(c, "done").placed = c.placed
    BY <1>3, <2>2, EndedOK
  <2>4. QED
    BY <1>1, <1>4, <2>3, QuietStep
<1>5. ASSUME NEW pc \in {"failed", "gave_up"}, Set(w, Ended(c, pc)) PROVE MInv'
  <2>1. ClientOK(Ended(c, pc), Op[w], made) /\ Ended(c, pc).pc = pc
    BY <1>3, EndedOK
  <2>2. QED
    BY <1>1, <1>5, <2>1, QuietStep
<1>6. CASE Op[w] = "modify" /\ Set(w, _retry(c))
  <2>1. CASE _retry(c) = Ended(c, "gave_up")
    BY <1>5, <1>6, <2>1
  <2>2. CASE _retry(c) # Ended(c, "gave_up")
    <3> DEFINE d == [Idle EXCEPT !.version = c.version, !.first_time = FALSE, !.count = c.count + 1]
    <3>1. _retry(c) = Mapping(d, "modify_map", "MODE_CHECK", c.map)
      BY <2>2 DEF _retry
    <3>2. DOMAIN d = DOMAIN Idle /\ d.smap = EmptyMap
      BY IdleFields, IdleValues
    <3>3. Known(d.smap, made)
      BY <3>2, EmptyKnown
    <3> HIDE DEF d
    <3>4. ClientOK(_retry(c), Op[w], made) /\ _retry(c).pc = "modify_map"
      BY <1>3, <1>6, <3>1, <3>2, <3>3, MappingOK
    <3>5. QED
      BY <1>1, <1>6, <3>4, QuietStep
  <2>3. QED
    BY <2>1, <2>2
<1>7. QED
  BY <1>1, <1>4, <1>5, <1>6

(* The steps that publish. *)
LEMMA PublishOK ==
  ASSUME MInv, NEW w \in Writer, NEW c, DOMAIN c = DOMAIN Idle, Known(c.map, made), Known(c.smap, made),
         NEW items \in SUBSET AllWriters,
         Op[w] = "repair" => \A p \in Slot : Upto(c.map[p], c.version),
         publish(w, c, items), UNCHANGED <<scene, grid, stray>>
  PROVE  MInv'
<1>1. PICK h \in Hash, some \in update_goal(get_known_shares(c.map)) :
          /\ \A v \in made : ~ (v.seq = new_seqnum(c) /\ v.hash = h)
          /\ Set(w, Published(c, items, h, some))
          /\ made' = made \union {Published(c, items, h, some).new}
  BY Zenon, ZenonT(60) DEF publish
<1> DEFINE n == Published(c, items, h, some)
<1>2. made \in SUBSET Versions /\ h \in Nat /\ Known(grid, made)
  BY Zenon, ZenonT(60) DEF MInv
<1>3. /\ n.pc = "push" /\ n.new \in Versions /\ n.new \notin made /\ n.placed = {}
      /\ ClientOK(n, Op[w], made \union {n.new})
  BY Zenon, ZenonT(60), <1>1, <1>2, PublishedOK
<1> HIDE DEF n
<1>4. Set(w, n) /\ made' = made \union {n.new}
  BY Zenon, ZenonT(60), <1>1 DEF n
<1>5. Known(grid', made')
  BY Zenon, ZenonT(60), <1>2, <1>4 DEF Known
<1>6. \A v \in Writer : client[v].pc \in {"push", "done"} => PlacedIn(grid', client[v])
  BY Zenon, ZenonT(60) DEF MInv
<1>7. PlacedIn(grid', n)
  BY <1>3 DEF PlacedIn
<1>8. QED
  BY Zenon, ZenonT(60), <1>2, <1>3, <1>4, <1>5, <1>6, <1>7, ClientStep

LEMMA BestVersionOK ==
  ASSUME MInv, NEW w \in Writer, get_best_mutable_version(w)
  PROVE  MInv'
<1> DEFINE c == client[w]
           best == best_recoverable_version(c.map)
           d == [c EXCEPT !.version = best]
           m == Mapping(d, "modify_map", "MODE_WRITE", c.map)
<1>1. /\ UNCHANGED <<scene, grid, stray>>
      /\ \/ Set(w, Ended(c, "failed")) /\ UNCHANGED made
         \/ Op[w] = "modify" /\ Set(w, m) /\ UNCHANGED made
         \/ Op[w] = "overwrite" /\ publish(w, d, {w})
  BY Zenon, ZenonT(60) DEF get_best_mutable_version
<1>2. DOMAIN c = DOMAIN Idle /\ Known(c.map, made) /\ Known(c.smap, made) /\ {w} \in SUBSET AllWriters
  BY DEF MInv, ClientOK
<1> HIDE DEF best
<1>3. DOMAIN d = DOMAIN Idle /\ d.map = c.map /\ d.smap = c.smap
  <2> HIDE DEF c
  <2>1. QED
    BY <1>2, IdleFields
<1> HIDE DEF d
<1>4. CASE Set(w, Ended(c, "failed")) /\ UNCHANGED made
  <2>1. ClientOK(Ended(c, "failed"), Op[w], made) /\ Ended(c, "failed").pc = "failed"
    BY <1>2, EndedOK
  <2>2. QED
    BY <1>1, <1>4, <2>1, QuietStep
<1>5. CASE Op[w] = "modify" /\ Set(w, m) /\ UNCHANGED made
  <2>1. ClientOK(m, Op[w], made) /\ m.pc = "modify_map"
    BY <1>2, <1>3, <1>5, MappingOK
  <2> HIDE DEF m
  <2>2. QED
    BY <1>1, <1>5, <2>1, QuietStep
<1>6. CASE Op[w] = "overwrite" /\ publish(w, d, {w})
  BY <1>1, <1>2, <1>3, <1>6, PublishOK
<1>7. QED
  BY <1>1, <1>4, <1>5, <1>6

LEMMA ModifyOK ==
  ASSUME MInv, NEW w \in Writer, _modify_once(w)
  PROVE  MInv'
<1> DEFINE c == client[w]
           old == retrieved(c)
<1>1. /\ c.pc = "modify_map" /\ UNCHANGED <<scene, grid, stray>>
      /\ \/ Set(w, Ended(c, "failed")) /\ UNCHANGED made
         \/ Set(w, Ended(c, "unchanged")) /\ UNCHANGED made
         \/ old \in recoverable_versions(c.map) /\ publish(w, c, modified(old, w))
  BY Zenon, ZenonT(60) DEF _modify_once, Mapped
<1>2. /\ DOMAIN c = DOMAIN Idle /\ Known(c.map, made) /\ Known(c.smap, made) /\ w \in AllWriters
      /\ made \subseteq Versions /\ Op[w] = "modify"
  BY <1>1 DEF MInv, ClientOK
<1>3. ASSUME NEW pc \in {"failed", "unchanged"}, Set(w, Ended(c, pc)), UNCHANGED made PROVE MInv'
  <2>1. ClientOK(Ended(c, pc), Op[w], made) /\ Ended(c, pc).pc = pc
    BY <1>2, EndedOK
  <2>2. QED
    BY <1>1, <1>3, <2>1, QuietStep
<1>4. CASE old \in recoverable_versions(c.map) /\ publish(w, c, modified(old, w))
  <2>1. old \in made
    BY <1>2, <1>4 DEF recoverable_versions, versions, get_known_shares, Known
  <2>2. modified(old, w) \in SUBSET AllWriters
    BY <1>2, <2>1 DEF modified, Versions
  <2>3. QED
    BY <1>1, <1>2, <1>4, <2>2, PublishOK
<1>5. QED
  BY <1>1, <1>3, <1>4

LEMMA RepairOK ==
  ASSUME MInv, NEW w \in Writer, repair_upload(w)
  PROVE  MInv'
<1> DEFINE c == client[w]
           d == [c EXCEPT !.map = c.smap, !.smap = EmptyMap]
<1>1. /\ c.pc = "repair_read" /\ UNCHANGED <<scene, grid, stray>>
      /\ \/ c.version \in recoverable_versions(c.map) /\ publish(w, d, c.version.items)
         \/ Set(w, Ended(c, "failed")) /\ UNCHANGED made
  BY DEF repair_upload, Mapped
<1>2. /\ DOMAIN c = DOMAIN Idle /\ Known(c.map, made) /\ Known(c.smap, made) /\ made \subseteq Versions
      /\ \A p \in Slot : Upto(c.smap[p], c.version)
  BY <1>1 DEF MInv, ClientOK
<1>3. CASE Set(w, Ended(c, "failed")) /\ UNCHANGED made
  <2>1. ClientOK(Ended(c, "failed"), Op[w], made) /\ Ended(c, "failed").pc = "failed"
    BY <1>2, EndedOK
  <2>2. QED
    BY <1>1, <1>3, <2>1, QuietStep
<1>4. CASE c.version \in recoverable_versions(c.map) /\ publish(w, d, c.version.items)
  <2>1. c.version \in made
    BY <1>2, <1>4 DEF recoverable_versions, versions, get_known_shares, Known
  <2>2. c.version.items \in SUBSET AllWriters
    BY <1>2, <2>1 DEF Versions
  <2>3. DOMAIN d = DOMAIN Idle /\ d.map = c.smap /\ d.smap = EmptyMap /\ d.version = c.version
    <3> HIDE DEF c
    <3>1. QED
      BY <1>2, IdleFields
  <2>4. Known(d.map, made) /\ Known(d.smap, made)
    BY <1>2, <2>3, EmptyKnown
  <2> HIDE DEF d
  <2>5. QED
    BY <1>1, <1>2, <1>4, <2>2, <2>3, <2>4, PublishOK
<1>5. QED
  BY <1>1, <1>3, <1>4

-----------------------------------------------------------------------------
LEMMA StepOK == MInv /\ [Next]_vars => MInv'
<1> SUFFICES ASSUME MInv, [Next]_vars PROVE MInv'
  OBVIOUS
<1>1. ASSUME NEW w \in Writer, Start(w) PROVE MInv'
  BY <1>1, StartOK
<1>2. ASSUME NEW w \in Writer, Answer(w) PROVE MInv'
  BY <1>2, QueryOK, AnswerOK, ConnectionOK DEF Answer
<1>3. ASSUME NEW w \in Writer, Continue(w) PROVE MInv'
  BY <1>3, BestVersionOK, ModifyOK, MaybeRepairOK, FullServermapOK, RepairOK, PushOK DEF Continue
<1>4. ASSUME NEW r \in stray, StrayWrite(r) PROVE MInv'
  BY <1>4, StrayWriteOK
<1>5. CASE UNCHANGED vars
  BY <1>5, Unchanged
<1>6. QED
  BY <1>1, <1>2, <1>3, <1>4, <1>5 DEF Next

(* A slot changes only when a server carries out a write of a share that   *)
(* was tested for; the writer of a repair's version is the repair.         *)
LEMMA GridStep ==
  ASSUME MInv, [Next]_vars, NEW p \in Slot, grid'[p] # grid[p]
  PROVE  \E new \in made :
           /\ grid'[p] = new /\ Rises(grid[p], new)
           /\ \A w \in Writer : client[w].pc = "push" /\ client[w].new = new
                 => grid[p] = client[w].testv[p]
<1>1. Known(grid, made)
  BY DEF MInv
<1>2. ASSUME NEW q \in Slot, NEW testv, NEW new \in made, Rises(testv, new), Write(q, testv, new)
      PROVE  q = p /\ grid[p] = testv /\ grid'[p] = new
  BY <1>2, WriteOK
<1>3. ASSUME NEW w \in Writer, NEW q \in Slot, client[w].pc = "push",
             Write(q, client[w].testv[q], client[w].new)
      PROVE  \E new \in made :
               /\ grid'[p] = new /\ Rises(grid[p], new)
               /\ \A v \in Writer : client[v].pc = "push" /\ client[v].new = new
                     => grid[p] = client[v].testv[p]
  <2>1. client[w].new \in made /\ Rises(client[w].testv[q], client[w].new)
    BY <1>3 DEF MInv, ClientOK
  <2>2. q = p /\ grid[p] = client[w].testv[p] /\ grid'[p] = client[w].new
    BY <1>2, <1>3, <2>1
  <2>3. ASSUME NEW v \in Writer, client[v].pc = "push", client[v].new = client[w].new PROVE v = w
    BY <1>3, <2>3 DEF MInv, Own
  <2>4. QED
    BY <2>1, <2>2, <2>3
<1>4. ASSUME NEW r \in stray, Write(r.slot, r.testv, r.new)
      PROVE  \E new \in made :
               /\ grid'[p] = new /\ Rises(grid[p], new)
               /\ \A v \in Writer : client[v].pc = "push" /\ client[v].new = new
                     => grid[p] = client[v].testv[p]
  <2>1. r.slot \in Slot /\ r.new \in made /\ Rises(r.testv, r.new)
    BY DEF MInv, StrayOK
  <2>2. r.slot = p /\ grid[p] = r.testv /\ grid'[p] = r.new
    BY <1>2, <1>4, <2>1
  <2>3. ASSUME NEW v \in Writer, client[v].pc = "push", client[v].new = r.new
        PROVE  r.testv = client[v].testv[p]
    BY <2>2, <2>3 DEF MInv, Own
  <2>4. QED
    BY <2>1, <2>2, <2>3
<1>5. \/ \E w \in Writer, q \in Slot : client[w].pc = "push" /\ Write(q, client[w].testv[q], client[w].new)
      \/ \E r \in stray : Write(r.slot, r.testv, r.new)
      \/ grid' = grid
  <2>1. ASSUME NEW w \in Writer, NEW q \in Slot, _got_write_answer(w, q) \/ _connection_problem(w, q)
        PROVE  \/ client[w].pc = "push" /\ Write(q, client[w].testv[q], client[w].new)
               \/ grid' = grid
    BY <2>1 DEF _got_write_answer, _connection_problem
  <2>2. ASSUME NEW w \in Writer, NEW s \in Server, _got_results(w, s) \/ _query_failed(w, s)
        PROVE  grid' = grid
    BY Zenon, ZenonT(60), <2>2 DEF _got_results, _query_failed
  <2>3. ASSUME NEW w \in Writer, Start(w) \/ Continue(w) PROVE grid' = grid
    BY Zenon, ZenonT(60), <2>3 DEF Start, Continue, get_best_mutable_version, _modify_once, _maybe_repair,
              _got_full_servermap, repair_upload, _push
  <2>4. ASSUME NEW r \in stray, StrayWrite(r) PROVE Write(r.slot, r.testv, r.new) \/ grid' = grid
    BY <2>4 DEF StrayWrite
  <2>5. QED
    BY <2>1, <2>2, <2>3, <2>4 DEF Next, Answer, vars
<1>6. QED
  BY <1>3, <1>4, <1>5

(* SeqnumsRise, for every number of servers, shares, clients and retries   *)
(* and whatever calls fail: no server ever replaces a share by one whose   *)
(* sequence number is not above it, and no repair overwrites a share newer *)
(* than the version it repairs (set_checkstring and Repairer.start).       *)
THEOREM SeqnumsCorrect == Spec => SeqnumsRise
<1>1. ASSUME MInv, [Next]_vars
      PROVE  \A p \in Slot :
               /\ grid'[p] # grid[p] => grid[p] = NoShare \/ grid'[p].seq > grid[p].seq
               /\ \A w \in Writer : BuriesNothing(w, p)
  <2> SUFFICES ASSUME NEW p \in Slot, grid'[p] # grid[p]
               PROVE  /\ grid[p] = NoShare \/ grid'[p].seq > grid[p].seq
                      /\ \A w \in Writer : BuriesNothing(w, p)
    BY DEF BuriesNothing
  <2>1. PICK new \in made :
             /\ grid'[p] = new /\ Rises(grid[p], new)
             /\ \A w \in Writer : client[w].pc = "push" /\ client[w].new = new
                   => grid[p] = client[w].testv[p]
    BY <1>1, GridStep
  <2>2. grid[p] = NoShare \/ (grid[p].seq \in Nat /\ new.seq \in Nat)
    BY <1>1, <2>1 DEF MInv, Known, Versions
  <2>3. grid[p] = NoShare \/ grid'[p].seq > grid[p].seq
    BY <2>1, <2>2 DEF Rises
  <2>4. ASSUME NEW w \in Writer, Op[w] = "repair", client[w].pc = "push", new = client[w].new
        PROVE  Upto(grid[p], client[w].version)
    <3>1. grid[p] = client[w].testv[p]
      BY <2>1, <2>4
    <3>2. ClientOK(client[w], Op[w], made)
      BY <1>1 DEF MInv
    <3>3. QED
      BY <2>4, <3>1, <3>2 DEF ClientOK
  <2>5. QED
    BY <2>1, <2>3, <2>4 DEF BuriesNothing, Upto
<1>2. QED
  BY <1>1, InitOK, StepOK, PTL DEF Spec, SeqnumsRise

(* DoneIsStored, in the same generality: when a publish reports success    *)
(* (Publish._done), shares that suffice to recover its version were put on *)
(* the servers, and each one is still there unless a newer one is.         *)
THEOREM SuccessIsStored == Spec => []DoneIsStored
<1>1. ASSUME MInv PROVE DoneIsStored
  <2> SUFFICES ASSUME NEW w \in Writer, client[w].pc = "done"
               PROVE  /\ Cardinality({p[2] : p \in client[w].placed}) >= required_shares
                      /\ \A p \in client[w].placed :
                            grid[p] = client[w].new \/ grid[p].seq > client[w].new.seq
    BY Zenon, ZenonT(60) DEF DoneIsStored
  <2>1. ClientOK(client[w], Op[w], made) /\ PlacedIn(grid, client[w])
    BY <1>1 DEF MInv
  <2>2. Enough(client[w].placed)
    BY Zenon, ZenonT(60), <2>1 DEF ClientOK
  <2>3. QED
    BY <2>1, <2>2 DEF Enough, PlacedIn
<1>2. QED
  BY <1>1, InitOK, StepOK, PTL DEF Spec
=============================================================================
