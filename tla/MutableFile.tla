----------------------------- MODULE MutableFile -----------------------------
(***************************************************************************)
(* Several clients change one mutable (SDMF) file at the same time: the    *)
(* node's modify, overwrite and repair (mutable/filenode.py, repairer.py), *)
(* and the publish they end in (mutable/publish.py), against servers that  *)
(* test and set one slot at a time.                                        *)
(*                                                                         *)
(* The contents are the set of changes applied.  A version carries them    *)
(* with its sequence number and root hash.  A server answers a query or a  *)
(* write at once and the answer is handled in the same step: handling it   *)
(* touches the client's own state only, and nothing it sent waits for it.  *)
(* A call may also fail on the client's side while the server still        *)
(* carries it out, at once, later, or never.                               *)
(***************************************************************************)
EXTENDS ServerMap

CONSTANTS Scenes,     \* the situations to look at: records of what each client
                        \* does (op), what the servers may hold at the start
                        \* (grids), root hashes to choose from (hashes) and how
                        \* many calls may fail (losses)
          maxRetries    \* BackoffAgent gives up at this count (4 in the code)

\* What the servers hold at the start are versions of the file, and NoShare
\* stands for none of them.
AllWriters == UNION {DOMAIN s.op : s \in Scenes}
Versions == [seq : Nat, hash : Nat, items : SUBSET AllWriters]

ASSUME ScenesAssumption ==
    /\ NoShare \notin Versions
    /\ \A s \in Scenes : s.hashes \subseteq Nat /\ s.grids \subseteq [Slot -> Versions \union {NoShare}]

VARIABLES scene,      \* one of the scenes, for the whole behaviour
          grid,         \* what each slot holds
          client,       \* the state of each client's operation
          made,         \* every version ever published
          stray,        \* writes that the server may still carry out
          lost

vars == <<scene, grid, client, made, stray, lost>>

\* Clients that hold the write cap; Op[w] is "modify", "overwrite" or "repair"
\* (check and repair).
Op == scene.op
Writer == DOMAIN Op
Hash == scene.hashes
MaxLost == scene.losses

NoVersion == NoShare
Terminal == {"done", "unchanged", "gave_up", "failed"}

Idle == [pc |-> "idle", map |-> EmptyMap, smap |-> EmptyMap, u |-> update("MODE_WRITE", EmptyMap, TRUE),
         version |-> NoVersion, first_time |-> TRUE, count |-> 0, new |-> NoVersion,
         testv |-> EmptyMap, writers |-> {}, pending |-> {}, surprised |-> FALSE,
         checkstring |-> NoVersion, placed |-> {}]

Init ==
    /\ \E s \in Scenes :
          /\ scene = [op |-> s.op, hashes |-> s.hashes, losses |-> s.losses]
          /\ grid \in s.grids
    /\ client = [w \in Writer |-> Idle]
    /\ made = versions(grid)
    /\ stray = {}
    /\ lost = 0

Set(w, c) == client' = [client EXCEPT ![w] = c]

Mapping(c, pc, mode, map) ==
    [c EXCEPT !.pc = pc, !.map = map, !.u = update(mode, map, TRUE)]

\* Once it is over, only the outcome of an operation is kept.
Ended(c, pc) == [Idle EXCEPT !.pc = pc, !.new = c.new, !.placed = c.placed]

\* MutableFileNode.modify and overwrite start from get_best_mutable_version,
\* MutableCheckAndRepairer from a map of its own.
Start(w) ==
    /\ client[w].pc = "idle"
    /\ Set(w, Mapping(Idle, IF Op[w] = "repair" THEN "check_map" ELSE "best_map",
                      "MODE_WRITE", EmptyMap))
    /\ UNCHANGED <<scene, grid, made, stray, lost>>

-----------------------------------------------------------------------------
\* The answers of an update, as in ServermapUpdate, for a client that holds
\* the private key and for shares with valid signatures.
heard_awaited(u, s) == [u EXCEPT !.outstanding = @ \ {s}, !.completed = @ + 1]

heard(u, s) == [u EXCEPT !.outstanding = @ \ {s}, !.must_query = @ \ {s}, !.completed = @ + 1]

_got_results(w, s) ==
    LET c == client[w]
        found == {sh \in Share : grid[<<s, sh>>] # NoShare}
        map1 == [p \in Slot |-> IF p[1] = s /\ p[2] \in found THEN grid[p] ELSE c.map[p]]
        u1 == IF found = {} THEN [heard(c.u, s) EXCEPT !.empty = @ \union {s}]
              ELSE [heard(c.u, s) EXCEPT !.with_shares = @ \union {s}]
    IN  /\ c.pc \notin Terminal \union {"idle"} /\ c.u.running
        /\ s \in c.u.outstanding
        /\ Set(w, [c EXCEPT !.map = map1, !.u = check_for_done(u1, map1)])
        /\ UNCHANGED <<scene, grid, made, stray, lost>>

_query_failed(w, s) ==
    LET c == client[w]
        u1 == [heard(c.u, s) EXCEPT !.bad = @ \union {s}]
    IN  /\ c.pc \notin Terminal \union {"idle"} /\ c.u.running
        /\ lost < MaxLost
        /\ s \in c.u.outstanding
        /\ Set(w, [c EXCEPT !.u = check_for_done(u1, c.map)])
        /\ lost' = lost + 1
        /\ UNCHANGED <<scene, grid, made, stray>>

Mapped(w, pc) == client[w].pc = pc /\ ~client[w].u.running

-----------------------------------------------------------------------------
\* The order in which update_goal takes the servers: the least burdened one
\* first, then by place in the permuted list.
Burden(goal, i) == Cardinality({p \in goal : p[1] = serverlist[i]})

by_burden(goal, i) ==
    LET before(j) == \/ Burden(goal, j) < Burden(goal, i)
                     \/ Burden(goal, j) = Burden(goal, i) /\ j < i
    IN  Cardinality({j \in 1 .. Len(serverlist) : before(j)})

\* update_goal: every homeless share gets a server, the list wrapping around.
update_goal(goal) ==
    LET homeless == Share \ {p[2] : p \in goal}
        Turn(sh) == Cardinality({x \in homeless : x < sh}) % Len(serverlist)
        placed == {t \in (1 .. Len(serverlist)) \X homeless : by_burden(goal, t[1]) = Turn(t[2])}
    IN  goal \union {<<serverlist[t[1]], t[2]>> : t \in placed}

\* "one larger than anything present in the grid, according to the servermap".
new_seqnum(c) == highest_seqnum(c.map) + 1

\* The test vector of a write: the version the map has, or no share at all.
checkstring_ignored(c, p) == grid[p]

checkstring(c, p) == c.map[p]

\* Publish.publish up to finish_publishing, which sends every write.  For SDMF
\* the checkstring that answers are compared with is the one a writer, picked
\* by _get_some_writer, tests for.
Published(c, items, h, some) ==
    LET goal == update_goal(get_known_shares(c.map))
        new == [seq |-> new_seqnum(c), hash |-> h, items |-> items]
    IN  [c EXCEPT !.pc = "push", !.new = new, !.testv = [p \in Slot |-> checkstring(c, p)],
                  !.writers = goal, !.pending = goal, !.surprised = FALSE,
                  !.checkstring = checkstring(c, some), !.placed = {}]

publish(w, c, items) ==
    \E h \in Hash, some \in update_goal(get_known_shares(c.map)) :
        /\ \A v \in made : ~(v.seq = new_seqnum(c) /\ v.hash = h)
        /\ Set(w, Published(c, items, h, some))
        /\ made' = made \union {Published(c, items, h, some).new}

-----------------------------------------------------------------------------
\* MutableFileNode._modify and _overwrite, once the first map is there: the
\* version to start from is fixed here.  overwrite publishes against this map.
get_best_mutable_version(w) ==
    LET c == client[w]
        best == best_recoverable_version(c.map)
    IN  /\ Mapped(w, "best_map")
        /\ \/ /\ best = NoVersion
              /\ Set(w, Ended(c, "failed"))
              /\ UNCHANGED made
           \/ /\ best # NoVersion
              /\ Op[w] = "modify"
              /\ Set(w, Mapping([c EXCEPT !.version = best], "modify_map", "MODE_WRITE", c.map))
              /\ UNCHANGED made
           \/ /\ best # NoVersion
              /\ Op[w] = "overwrite"
              /\ publish(w, [c EXCEPT !.version = best], {w})
        /\ UNCHANGED <<scene, grid, stray, lost>>

\* The version that an attempt of modify downloads: the one of the
\* MutableFileVersion object, on every attempt.
retrieved(c) == c.version

\* The modifier gets the old contents and adds its change to them.
modified(old, w) == old.items \union {w}

\* MutableFileVersion._modify_once.  The download fails if the version is gone
\* from the map or has too few shares.  An unchanged file is published again
\* after a collision (#551).
_modify_once(w) ==
    LET c == client[w]
        old == retrieved(c)
    IN  /\ Mapped(w, "modify_map")
        /\ \/ /\ old \notin recoverable_versions(c.map)
              /\ Set(w, Ended(c, "failed"))
              /\ UNCHANGED made
           \/ /\ old \in recoverable_versions(c.map)
              /\ w \in old.items /\ c.first_time
              /\ Set(w, Ended(c, "unchanged"))
              /\ UNCHANGED made
           \/ /\ old \in recoverable_versions(c.map)
              /\ w \notin old.items \/ ~c.first_time
              /\ publish(w, c, modified(old, w))
        /\ UNCHANGED <<scene, grid, stray, lost>>

need_repair_recoverable(map) == recoverable_versions(map) = {}

\* MutableChecker: healthy is one version, recoverable, with all its shares.
need_repair(map) ==
    \/ unrecoverable_versions(map) # {}
    \/ Cardinality(recoverable_versions(map)) # 1
    \/ Cardinality(shnums(map, best_recoverable_version(map))) < total_shares

_maybe_repair(w) ==
    LET c == client[w]
    IN  /\ Mapped(w, "check_map")
        /\ Set(w, IF need_repair(c.map) THEN Mapping(c, "repair_map", "MODE_REPAIR", EmptyMap)
                  ELSE Ended(c, "unchanged"))
        /\ UNCHANGED <<scene, grid, made, stray, lost>>

\* Repairer without force: newer shares that cannot be recovered, or several
\* heads, are left to somebody who can merge.
refuses(map) == unrecoverable_newer_versions(map) # {} \/ needs_merge(map)

_got_full_servermap(w) ==
    LET c == client[w]
        best == best_recoverable_version(c.map)
    IN  /\ Mapped(w, "repair_map")
        /\ Set(w, IF best = NoVersion \/ refuses(c.map) THEN Ended(c, "failed")
                  ELSE Mapping([c EXCEPT !.version = best, !.smap = c.map],
                               "repair_read", "MODE_READ", EmptyMap))
        /\ UNCHANGED <<scene, grid, made, stray, lost>>

\* download_version makes a map in MODE_READ of its own to find the version,
\* and the upload then uses the first map.
repair_upload(w) ==
    LET c == client[w]
    IN  /\ Mapped(w, "repair_read")
        /\ IF c.version \in recoverable_versions(c.map)
           THEN publish(w, [c EXCEPT !.map = c.smap, !.smap = EmptyMap], c.version.items)
           ELSE Set(w, Ended(c, "failed")) /\ UNCHANGED made
        /\ UNCHANGED <<scene, grid, stray, lost>>

-----------------------------------------------------------------------------
\* The server's slot_testv_and_readv_and_writev for one share: the old
\* checkstrings are read, then the share is written if its test vector holds.
Wrote(p, testv) == grid[p] = testv

Write(p, testv, new) == grid' = IF Wrote(p, testv) THEN [grid EXCEPT ![p] = new] ELSE grid

\* Shares on the server that the publish neither writes nor recognises.
surprise_shares(c, p) ==
    {sh \in Share \ {p[2]} :
        /\ grid[<<p[1], sh>>] # NoShare
        /\ <<p[1], sh>> \notin c.writers
        /\ grid[<<p[1], sh>>] # c.checkstring}

\* Forgetting that a failed test vector is a collision.
answered_quietly(c, p, wrote) ==
    [c EXCEPT !.pending = @ \ {p},
              !.surprised = @ \/ surprise_shares(c, p) # {},
              !.map[p] = IF wrote THEN c.new ELSE @,
              !.placed = IF wrote THEN @ \union {p} ELSE @]

answered(c, p, wrote) ==
    [c EXCEPT !.pending = @ \ {p},
              !.surprised = @ \/ ~wrote \/ surprise_shares(c, p) # {},
              !.map[p] = IF wrote THEN c.new ELSE @,
              !.placed = IF wrote THEN @ \union {p} ELSE @]

_got_write_answer(w, p) ==
    LET c == client[w]
    IN  /\ c.pc = "push"
        /\ p \in c.pending
        /\ Write(p, c.testv[p], c.new)
        /\ Set(w, answered(c, p, Wrote(p, c.testv[p])))
        /\ UNCHANGED <<scene, made, stray, lost>>

dropped(c, p) == [c EXCEPT !.pending = @ \ {p}, !.writers = @ \ {p}]

\* The call fails for the client: the writer is dropped, and its answer is not
\* looked at.  The server may have carried it out, or may still do so.
_connection_problem(w, p) ==
    LET c == client[w]
    IN  /\ c.pc = "push"
        /\ p \in c.pending
        /\ lost < MaxLost
        /\ \/ Write(p, c.testv[p], c.new) /\ UNCHANGED stray
           \/ stray' = stray \union {[slot |-> p, testv |-> c.testv[p], new |-> c.new]} /\ UNCHANGED grid
        /\ Set(w, dropped(c, p))
        /\ lost' = lost + 1
        /\ UNCHANGED <<scene, made>>

\* A write arrives after its sender has given up on it, or is lost for good.
StrayWrite(r) ==
    /\ stray' = stray \ {r}
    /\ \/ Write(r.slot, r.testv, r.new)
       \/ UNCHANGED grid
    /\ UNCHANGED <<scene, client, made, lost>>

\* _push in DONE_STATE.
enough_writers(c) == Cardinality({p[2] : p \in c.writers}) >= required_shares

\* _failure: an UncoordinatedWriteError is retried by modify, after the
\* backoff, with a MODE_CHECK map on top of what is known; until the agent
\* gives up.
_retry(c) ==
    IF c.count + 1 = maxRetries THEN Ended(c, "gave_up")
    ELSE Mapping([Idle EXCEPT !.version = c.version, !.first_time = FALSE, !.count = c.count + 1],
                 "modify_map", "MODE_CHECK", c.map)

_push(w) ==
    LET c == client[w]
    IN  /\ c.pc = "push"
        /\ c.pending = {}
        /\ Set(w, IF enough_writers(c) /\ ~c.surprised THEN Ended(c, "done")
                  ELSE IF ~c.surprised THEN Ended(c, "failed")
                  ELSE IF Op[w] = "modify" THEN _retry(c)
                  ELSE Ended(c, "gave_up"))
        /\ UNCHANGED <<scene, grid, made, stray, lost>>

-----------------------------------------------------------------------------
Answer(w) == \/ \E s \in Server : _got_results(w, s) \/ _query_failed(w, s)
             \/ \E p \in Slot : _got_write_answer(w, p) \/ _connection_problem(w, p)

Continue(w) == \/ get_best_mutable_version(w)
               \/ _modify_once(w)
               \/ _maybe_repair(w)
               \/ _got_full_servermap(w)
               \/ repair_upload(w)
               \/ _push(w)

AllOver ==
    /\ \A w \in Writer : client[w].pc \in Terminal
    /\ stray = {}

Next ==
    \/ \E w \in Writer : Start(w) \/ Answer(w) \/ Continue(w)
    \/ \E r \in stray : StrayWrite(r)

\* Calls are answered or fail, callbacks are run, the backoff timer fires.
Fairness ==
    \A w \in AllWriters :
        WF_vars(w \in Writer /\ (Start(w) \/ Answer(w) \/ Continue(w)))

Spec == Init /\ [][Next]_vars /\ Fairness
-----------------------------------------------------------------------------
\* Types, and what the phases of an operation have in common: a client waits
\* only for writers it still has, and a share it counts as placed is one that
\* it meant to write.
TypeOK ==
    /\ lost \in 0 .. MaxLost
    /\ versions(grid) \subseteq made
    /\ \A w \in Writer :
          /\ client[w].u \in UpdaterType
          /\ client[w].pending \subseteq client[w].writers
          /\ client[w].count < maxRetries
          /\ client[w].pc = "push" => client[w].placed \intersect client[w].pending = {}

\* The write of a share is conditional on what the map says the share is
\* (set_checkstring), and the new sequence number is above all in the map: so
\* whatever is delayed, lost or repeated, a slot never goes back to an older
\* version, nor to another version with the same sequence number.  A repair
\* without force never overwrites a share newer than the version whose contents
\* it publishes: "repair(force=False) will refuse to run in a situation like
\* this" (Repairer.start).
BuriesNothing(w, p) ==
    Op[w] = "repair" /\ client[w].pc = "push" /\ grid'[p] # grid[p] /\ grid'[p] = client[w].new
        => grid[p] = NoShare \/ grid[p].seq <= client[w].version.seq
SeqnumsRise ==
    [][\A p \in Slot :
          /\ grid'[p] # grid[p] => grid[p] = NoShare \/ grid'[p].seq > grid[p].seq
          /\ \A w \in Writer : BuriesNothing(w, p)]_vars

\* An operation that reports success (Publish._done) has stored enough shares
\* to recover its version, and they are there unless newer ones replaced them.
DoneIsStored ==
    \A w \in Writer : client[w].pc = "done" =>
        /\ Cardinality({p[2] : p \in client[w].placed}) >= required_shares
        /\ \A p \in client[w].placed :
              grid[p] = client[w].new \/ grid[p].seq > client[w].new.seq

\* Once all is quiet, if no call failed and nobody overwrote the file, the
\* version that a reader would get carries every change whose modify has
\* reported success.
NoLostUpdate ==
    (AllOver /\ lost = 0 /\ recoverable_versions(grid) # {} /\ \A w \in Writer : Op[w] # "overwrite") =>
        \A w \in Writer :
            client[w].pc = "done" /\ Op[w] = "modify" => w \in best_recoverable_version(grid).items

\* Once modifies and overwrites of a healthy file are over, and if no call
\* failed, some version of it can still be read ("at least one competing
\* version will have k shares and thus be recoverable",
\* docs/specifications/mutable.rst).
StillReadable ==
    (AllOver /\ lost = 0 /\ \A w \in Writer : Op[w] # "repair") => recoverable_versions(grid) # {}

\* All three: success means stored, none of it lost, and something to read.
UpdatesKept == TypeOK /\ DoneIsStored /\ NoLostUpdate /\ StillReadable

\* Every operation comes to an end: it succeeds, gives up or fails.
Ends == <>(\A w \in Writer : client[w].pc \in Terminal)

\* A check-and-repair that nobody disturbs, and that does not fail, leaves one
\* version of the file with all of its shares and not one share of another
\* ("all existing shares will be for the same version", MutableChecker).
RepairHeals ==
    \A w \in Writer :
        Writer = {w} /\ lost = 0 /\ Op[w] = "repair" /\ client[w].pc \in {"done", "unchanged"} =>
            /\ Cardinality(versions(grid)) = 1
            /\ \A v \in versions(grid) : shnums(grid, v) = Share

=============================================================================
