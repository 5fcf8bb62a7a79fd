------------------------------ MODULE ChkUpload ------------------------------
(***************************************************************************)
(* A direct upload of an immutable file (immutable/upload.py,              *)
(* happiness_upload.py, encode.py, util/happinessutil.py): which server is *)
(* asked to hold which share, the rounds in which the servers are asked,   *)
(* and the pushing of the shares to those that were selected.              *)
(***************************************************************************)
EXTENDS Integers, Sequences, SequencesExt

-----------------------------------------------------------------------------
(***************************************************************************)
(* The servers-of-happiness arithmetic (immutable/happiness_upload.py and  *)
(* util/happinessutil.py): the Edmonds-Karp search for a maximum matching  *)
(* of servers and shares, and share_placement, which decides with three of *)
(* these searches which server is asked to hold which share.               *)
(*                                                                         *)
(* Dictionaries of sets are relations: a sharemap is a set of pairs        *)
(* <<share, server>>, a servermap a set of pairs <<server, share>>.  Python *)
(* sets of server ids are walked in an arbitrary order, here the sequence  *)
(* order; the dictionary of existing shares in the order found in which the *)
(* servers answered; sets of small integers in ascending order.            *)
(***************************************************************************)
CONSTANTS Ids,          \* the servers, sorted by id
          total_shares, \* N
          source, sink  \* the ends of a flow network

Server == ToSet(Ids)
Share  == 0..(total_shares - 1)

Sorted(shares) == SelectSeq([i \in 1..total_shares |-> i - 1], LAMBDA t : t \in shares)
Walk(order, peers) == SelectSeq(order, LAMBDA p : p \in peers)

\* The image of a set under a relation, and the relation turned around.
Image(rel, S) == {r[2] : r \in {x \in rel : x[1] \in S}}
Flip(rel)     == {<<r[2], r[1]>> : r \in rel}

-----------------------------------------------------------------------------
(* Flow networks.  verts lists the vertices by index, next the edges in    *)
(* adjacency-list form; a flow is the set of the edges it uses.            *)

network(peers, shares, adjacent) ==
  [verts |-> <<source>> \o peers \o shares \o <<sink>>,
   next  |-> (source :> peers) @@ (sink :> <<>>)
             @@ [p \in ToSet(peers) |-> adjacent[p]]
             @@ [t \in ToSet(shares) |-> <<sink>>]]

\* Plausible slip: flow that is once sent is never taken back.
residual_greedy(graph, flow) ==
  [v \in ToSet(graph.verts) |-> SelectSeq(graph.next[v], LAMBDA w : <<v, w>> \notin flow)]

residual_network(graph, flow) ==
  [v \in ToSet(graph.verts) |->
     SelectSeq(graph.verts, LAMBDA u : <<u, v>> \in flow)
       \o SelectSeq(graph.next[v], LAMBDA w : <<v, w>> \notin flow)]

\* The predecessor table of a breadth-first search.
RECURSIVE bfs(_, _, _)
bfs(next, queue, predecessor) ==
  IF queue = <<>> THEN predecessor
  ELSE LET n     == Head(queue)
           white == SelectSeq(next[n], LAMBDA v : v \notin DOMAIN predecessor)
       IN  bfs(next, Tail(queue) \o white, predecessor @@ [v \in ToSet(white) |-> n])

RECURSIVE PathTo(_, _)
PathTo(predecessor, n) ==
  IF n = source THEN {}
  ELSE PathTo(predecessor, predecessor[n]) \cup {<<predecessor[n], n>>}

PathIn(predecessor) ==
  IF sink \in DOMAIN predecessor THEN PathTo(predecessor, sink) ELSE {}

augmenting_path_for(next) == PathIn(bfs(next, <<source>>, source :> source))

\* Flow is sent along the path, and taken back where the path runs against it.
Along(flow, path) == (flow \cup (path \ Flip(flow))) \ Flip(path)

RECURSIVE Augmented(_, _, _)
Augmented(graph, flow, path) ==
  IF path = {} THEN flow
  ELSE Augmented(graph, Along(flow, path),
                 augmenting_path_for(residual_network(graph, Along(flow, path))))

compute_maximum(graph) ==
  Augmented(graph, {}, augmenting_path_for(residual_network(graph, {})))

-----------------------------------------------------------------------------
(* happinessutil *)

servers_of_happiness(sharemap) ==
  LET servermap == Flip(sharemap)
      peers     == Image(sharemap, Share)
      graph     == network(Walk(Ids, peers), Sorted(Image(servermap, peers)),
                           [p \in peers |-> Sorted(Image(servermap, {p}))])
  IN  Cardinality({e \in compute_maximum(graph) : e[1] = source})

(* What the number means: the size of a largest set of pairs that share    *)
(* neither a server nor a share.                                           *)
Matching(M) == \A e, f \in M : e # f => e[1] # f[1] /\ e[2] # f[2]
LargestMatching(rel) == Max({Cardinality(M) : M \in {X \in SUBSET rel : Matching(X)}})

-----------------------------------------------------------------------------
(* happiness_upload *)

Unrepeated(s) == FoldLeft(LAMBDA seen, t : IF Contains(seen, t) THEN seen ELSE Append(seen, t),
                          <<>>, s)

(* With a servermap every server is connected to the shares of all of them: *)
(* _servermap_flow_graph inserts one and the same list for each server.     *)
calculate_mappings(order, peers, shares, servermap) ==
  LET walk     == Walk(order, peers)
      indexed  == IF servermap = {} THEN Sorted(shares)
                  ELSE Unrepeated(FlattenSeq([i \in DOMAIN walk |->
                         Sorted(Image(servermap, {walk[i]}) \cap shares)]))
      graph    == network(walk, Sorted(shares), [p \in peers |-> indexed])
  IN  {e \in Flip(compute_maximum(graph)) : e[1] \in shares /\ e[2] \in peers}

Load(placed, p) == Cardinality({e \in placed : e[2] = p})

Lightest(placed, peers) ==
  LET least == {p \in peers : \A q \in peers : Load(placed, p) <= Load(placed, q)}
  IN  Head(Walk(Ids, least))

distribute_homeless_shares(found, placed, homeless, peers_to_shares) ==
  LET holders(t) == Walk(found, Image(Flip(peers_to_shares), {t}))
      renewed == {<<t, Head(holders(t))>> : t \in {x \in homeless : holders(x) # <<>>}}
      peers   == Image(Flip(peers_to_shares), Share)
      rest    == Sorted({t \in homeless : holders(t) = <<>>})
  IN  IF peers = {} THEN placed \cup renewed
      ELSE FoldLeft(LAMBDA m, t : m \cup {<<t, Lightest(m, peers)>>}, placed \cup renewed, rest)

(* share_placement, step by step.  g holds its arguments and the orders:   *)
(* g.held is peers_to_shares.                                              *)

HeldBy(g, P) == {e \in g.held : e[1] \in P}

place_readonly(g) ==
  calculate_mappings(g.order, g.readonly, Image(g.held, g.readonly), HeldBy(g, g.readonly))

\* What the mapping of the read-only servers leaves: the holdings that are not
\* used up, and the servers, without those whose holdings all are.
Unused(g, ro) ==
  {e \in g.held : e[1] \notin Image(ro, Share) /\ e[2] \notin Image(Flip(ro), Server)}
NewPeers(g, ro, servermap) ==
  g.peers \ (Image(ro, Share) \cup (Image(Flip(g.held), Share) \ Image(Flip(servermap), Share)))
NewShares(ro) == Share \ Image(Flip(ro), Server)

place_existing(g, ro) ==
  calculate_mappings(g.order, NewPeers(g, ro, Unused(g, ro)), NewShares(ro), Unused(g, ro))

place_new(g, ro, ex) ==
  calculate_mappings(g.order, NewPeers(g, ro, Unused(g, ro)) \ Image(ex, Share),
                     NewShares(ro) \ Image(Flip(ex), Server), {})

Homeless(placed) == Share \ Image(Flip(placed), Server)

place_homeless(g, placed) ==
  distribute_homeless_shares(g.found, placed, Homeless(placed), HeldBy(g, Server \ g.readonly))

\* Shares that still have no server: those of the read-only servers come first.
Leftover(g, placed) ==
  Sorted(Homeless(placed) \cap Image(g.held, g.readonly))
    \o Sorted(Homeless(placed) \ Image(g.held, g.readonly))

RoundRobin(placed, homeless, peers) ==
  placed \cup {<<homeless[i], peers[((i - 1) % Len(peers)) + 1]>> : i \in DOMAIN homeless}

Spread(g, placed) == RoundRobin(placed, Leftover(g, placed), Walk(g.order, g.peers \ g.readonly))
WithExisting(g, ro, ex) == Spread(g, place_homeless(g, ro \cup ex \cup place_new(g, ro, ex)))
WithReadonly(g, ro) == WithExisting(g, ro, place_existing(g, ro))

share_placement(order, found, peers, readonly_peers, peers_to_shares) ==
  LET g == [order |-> order, found |-> found, peers |-> peers, readonly |-> readonly_peers,
            held |-> peers_to_shares]
  IN  IF peers = {} THEN {} ELSE WithReadonly(g, place_readonly(g))

-----------------------------------------------------------------------------
(***************************************************************************)
(* Tahoe2ServerSelector, PeerSelector and ServerTracker                    *)
(* (immutable/upload.py): the servers are asked what they hold, then, in   *)
(* rounds, to allocate the shares that share_placement gives them, until   *)
(* enough of them are happy or a round brings nothing.  A query that takes *)
(* longer than 15 seconds counts as failed, but timeout_call does not      *)
(* cancel it: its answer still reaches the ServerTracker.                  *)
(*                                                                         *)
(* c is the state of the uploading client, srv the servers' shares and     *)
(* open buckets for this storage index, late the queries that have timed   *)
(* out and that the server has not seen yet, slow the servers that had any. *)
(***************************************************************************)
CONSTANTS Starts,    \* what the servers hold and accept, and the happiness asked for
          Orders,    \* the orders in which Python may walk a set of servers
          MaxFaults, \* failures and timeouts in one upload
          NotAsked

VARIABLES start, srv, c, late, slow, faults
vars == <<start, srv, c, late, slow, faults>>

min_happiness == start.happy

-----------------------------------------------------------------------------
(* A storage server, reduced to one storage index (external to the client: *)
(* ImmutableStorage models it).  It has room for a number of shares.       *)

ServerUsed(s) == srv[s].open \cup srv[s].closed

\* The buckets allocate_buckets creates: none for a share that is held or open.
Allocated(s, sharenums) ==
  LET wanted == Sorted(sharenums \ (srv[s].holds \cup ServerUsed(s)))
      free   == srv[s].room - Cardinality(ServerUsed(s))
  IN  ToSet(SubSeq(wanted, 1, IF free < Len(wanted) THEN free ELSE Len(wanted)))

AlreadyGot(s) == srv[s].holds \cup srv[s].closed

\* A bucket writer is dropped, by an abort or because the connection broke.
Dropped(sv, pairs) == [s \in Server |-> [sv[s] EXCEPT !.open = @ \ Image(pairs, {s})]]

-----------------------------------------------------------------------------
(* PeerSelector *)

mark_readonly_peer(cl, s) ==
  [cl EXCEPT !.readonly_peers = @ \cup {s}, !.peers = @ \ {s}]

mark_bad_peer(cl, s) ==
  IF s \in cl.peers \cup cl.readonly_peers
    THEN [cl EXCEPT !.peers = @ \ {s}, !.readonly_peers = @ \ {s}, !.bad_peers = @ \cup {s}]
    ELSE cl

-----------------------------------------------------------------------------
(* get_shareholders *)

Merged(cl) == Flip(cl.existing) \cup Flip({b \in cl.buckets : b[1] \in cl.use})

AllocationFor(placements, s) == Image(Flip(placements), {s})

\* _allocation_for and the queries of one round: a server is not asked again
\* for just what it has already allocated, except to renew leases.
Asked(cl, s, shares) ==
  IF s \in cl.readonly \/ shares # Image(cl.buckets, {s}) THEN shares ELSE NotAsked

Placing(cl, placements) ==
  [cl EXCEPT !.bad      = FALSE,
             !.homeless = @ \ Image(Flip(placements), Server),
             !.asked    = [s \in Server |-> Asked(cl, s, AllocationFor(placements, s))]]

NextRound(cl, order) ==
  Placing(cl, share_placement(order, cl.found, cl.peers, cl.readonly_peers, cl.existing))

Waiting(cl) == {s \in Server : cl.asked[s] # NotAsked}

\* Plausible slip: the buckets of a failed selection are left open.
Concluded_leaking(cl) ==
  [cl EXCEPT !.phase = IF servers_of_happiness(Merged(cl)) >= min_happiness
                         THEN "selected" ELSE "unhappy"]

\* The end of the selection; a failed one aborts the buckets of use_trackers.
Concluded(cl) ==
  IF servers_of_happiness(Merged(cl)) >= min_happiness
    THEN [cl EXCEPT !.phase = "selected"]
    ELSE [cl EXCEPT !.phase = "unhappy",
                    !.buckets = {b \in @ : b[1] \notin cl.use}]

\* A round in which nobody is asked is the last.
Underway(cl) == IF Waiting(cl) = {} THEN Concluded(cl) ELSE cl

\* Plausible slip: rounds go on although they bring nothing.
Judged_stubborn(cl, order, happiness) ==
  IF happiness >= min_happiness \/ cl.write = {} THEN Concluded(cl)
  ELSE Underway(NextRound([cl EXCEPT !.last = happiness], order))

\* What follows when the last answer of a round is in.
Judged(cl, order, happiness) ==
  IF happiness = cl.last \/ ~ cl.bad \/ happiness >= min_happiness \/ cl.write = {}
    THEN Concluded(cl)
    ELSE Underway(NextRound([cl EXCEPT !.last = happiness], order))

Gathered(cl, order) ==
  IF Waiting(cl) = {} THEN Judged(cl, order, servers_of_happiness(Merged(cl))) ELSE cl

\* The round goes on as cl; the servers, in state sv, drop what it aborts.
Proceed(cl, sv) ==
  \E after \in {Gathered(cl, order) : order \in Orders} :
    c' = after /\ srv' = Dropped(sv, cl.buckets \ after.buckets)

\* _make_readonly moves the tracker; PeerSelector does not hear of it.
make_readonly(cl, s) == [cl EXCEPT !.write = @ \ {s}, !.readonly = @ \cup {s}]

Unasked(cl, s) == [cl EXCEPT !.asked[s] = NotAsked]

\* _buckets_allocated with a result, then the callbacks of the loop.
buckets_allocated(cl, s, alreadygot, allocated) ==
  LET ask      == cl.asked[s]
      progress == allocated # {} \/ alreadygot \cap (cl.homeless \cup ask) # {}
      cl2      == [Unasked(cl, s) EXCEPT
                     !.homeless = (@ \ alreadygot) \cup (ask \ (alreadygot \cup allocated)),
                     !.use      = IF allocated # {} THEN @ \cup {s} ELSE @,
                     !.bad      = @ \/ ~ progress]
  IN  IF progress THEN cl2 ELSE make_readonly(cl2, s)

\* _buckets_allocated with a failure.
query_failed(cl, s) ==
  make_readonly(mark_readonly_peer([Unasked(cl, s) EXCEPT !.homeless = @ \cup cl.asked[s],
                                                          !.bad      = TRUE], s), s)

-----------------------------------------------------------------------------
(* The upload begins: candidate servers that are too small for the share   *)
(* are read-only from the start.                                           *)

Init ==
  /\ start \in Starts
  /\ srv = [s \in Server |-> [holds |-> start.holds[s], room |-> start.room[s],
                              open |-> {}, closed |-> {}]]
  /\ c = [phase |-> "asking", peers |-> start.write, readonly_peers |-> Server \ start.write,
          bad_peers |-> {}, existing |-> {}, found |-> <<>>,
          write |-> start.write, readonly |-> Server \ start.write,
          buckets |-> {}, use |-> {}, homeless |-> Share, asked |-> [s \in Server |-> NotAsked],
          bad |-> FALSE, last |-> -1]
  /\ late = [s \in Server |-> <<>>]
  /\ slow = {}
  /\ faults = 0

\* All servers have said what they hold, or failed to: the answers concern
\* one server each, so they are taken together; found is their order.
ExistingShares(failed, answers, order) ==
  /\ c.phase = "asking" /\ faults + Cardinality(failed) <= MaxFaults
  /\ faults' = faults + Cardinality(failed)
  /\ LET heard == [c EXCEPT !.phase = "placing",
                            !.existing = UNION {{s} \X srv[s].holds : s \in Server \ failed},
                            !.found    = SelectSeq(answers, LAMBDA s : s \notin failed /\ srv[s].holds # {}),
                            !.homeless = @ \ UNION {srv[s].holds : s \in c.readonly \ failed},
                            !.write    = @ \ failed,
                            !.readonly = @ \cup failed]
     IN  c' = Underway(NextRound(FoldSet(LAMBDA s, cl : mark_bad_peer(cl, s), heard, failed), order))
  /\ UNCHANGED <<start, srv, late, slow>>

Selecting(s) == c.phase = "placing" /\ c.asked[s] # NotAsked

\* Queries of one client reach a server in the order they were sent.
AllocateAnswered(s) ==
  /\ Selecting(s) /\ late[s] = <<>>
  /\ LET new == Allocated(s, c.asked[s])
         cl  == [c EXCEPT !.buckets = @ \cup ({s} \X new)]
     IN  Proceed(buckets_allocated(cl, s, AlreadyGot(s), new),
                 [srv EXCEPT ![s].open = @ \cup new])
  /\ UNCHANGED <<start, late, slow, faults>>

\* The query fails: the server refuses it, or the connection is lost and with
\* it every bucket this client has open there.
AllocateFailed(s, broken) ==
  /\ Selecting(s) /\ late[s] = <<>> /\ faults < MaxFaults
  /\ faults' = faults + 1
  /\ Proceed(query_failed(c, s), IF broken THEN [srv EXCEPT ![s].open = {}] ELSE srv)
  /\ UNCHANGED <<start, late, slow>>

AllocateTimedOut(s) ==
  /\ Selecting(s) /\ faults < MaxFaults
  /\ faults' = faults + 1
  /\ late' = [late EXCEPT ![s] = Append(@, c.asked[s])]
  /\ slow' = slow \cup {s}
  /\ Proceed(query_failed(c, s), srv)
  /\ UNCHANGED start

\* A server works on a query whose client has given up waiting: only the
\* ServerTracker hears of the result.
AllocateLate(s) ==
  /\ late[s] # <<>> /\ c.phase # "selected"
  /\ LET new == Allocated(s, Head(late[s]))
     IN  /\ srv' = [srv EXCEPT ![s].open = @ \cup new]
         /\ c' = [c EXCEPT !.buckets = @ \cup ({s} \X new)]
  /\ late' = [late EXCEPT ![s] = Tail(@)]
  /\ UNCHANGED <<start, slow, faults>>

SelectionNext ==
  \/ \E failed \in SUBSET Server, answers, order \in Orders : ExistingShares(failed, answers, order)
  \/ \E s \in Server : \/ AllocateAnswered(s) \/ AllocateTimedOut(s) \/ AllocateLate(s)
                       \/ \E broken \in BOOLEAN : AllocateFailed(s, broken)

-----------------------------------------------------------------------------
(***************************************************************************)
(* CHKUploader (immutable/upload.py) and Encoder (immutable/encode.py):    *)
(* once the servers are selected, every share is pushed to its server in   *)
(* steps, each of which waits for all of them; a server that fails is      *)
(* dropped, and the upload goes on as long as the rest is happy enough.    *)
(***************************************************************************)
CONSTANTS num_segments

VARIABLES enc
uploadVars == <<vars, enc>>

\* start_all_shareholders, the segments, four sets of hashes, and close.
LastStep == num_segments + 6
SegmentSteps == 2..(num_segments + 1)

Idle == [landlords |-> {}, servermap |-> {}, step |-> 0, waiting |-> {}, result |-> "none"]

UploadInit == Init /\ enc = Idle

Encoding == enc.result = "encoding"

\* CHKUploader.set_shareholders and Encoder.set_shareholders.  Nothing can
\* happen between the selection and this.
set_shareholders ==
  /\ c.phase = "selected" /\ enc.result = "none"
  /\ LET buckets == Flip({b \in c.buckets : b[1] \in c.use})
         once    == \A a, b \in buckets : a # b => a[1] # b[1]
     IN  enc' = IF once THEN [landlords |-> buckets, servermap |-> Merged(c), step |-> 1,
                              waiting |-> Image(Flip(buckets), Server), result |-> "encoding"]
                        ELSE [Idle EXCEPT !.result = "AssertionError"]
  /\ c' = [c EXCEPT !.phase = "over"]
  /\ UNCHANGED <<start, srv, late, slow, faults>>

\* Every server has answered: the next step sends to all that are left.
NextStep ==
  /\ Encoding /\ enc.waiting = {}
  /\ enc' = IF enc.step = LastStep
              THEN [enc EXCEPT !.result = "done"]
              ELSE [enc EXCEPT !.step = @ + 1, !.waiting = Image(Flip(enc.landlords), Server)]
  /\ UNCHANGED vars

Landlord(t) == CHOOSE s \in Image(enc.landlords, {t}) : TRUE

\* A put_ call returns; it may only have been queued by the write buffer.
PutDone(t) ==
  /\ Encoding /\ t \in enc.waiting /\ enc.step < LastStep
  /\ enc' = [enc EXCEPT !.waiting = @ \ {t}]
  /\ UNCHANGED vars

Closed(sv, pairs) ==
  [s \in Server |-> LET shares == Image(pairs, {s}) \cap sv[s].open
                    IN  [sv[s] EXCEPT !.open = @ \ shares, !.closed = @ \cup shares]]

\* close flushes the write buffer and closes the bucket, if it is still there.
CloseDone(t) ==
  /\ Encoding /\ t \in enc.waiting /\ enc.step = LastStep
  /\ t \in srv[Landlord(t)].open
  /\ srv' = Closed(srv, {<<Landlord(t), t>>})
  /\ enc' = [enc EXCEPT !.waiting = @ \ {t}]
  /\ UNCHANGED <<start, c, late, slow, faults>>

\* Encoder.err: the shareholders that are left are told to abort; those that
\* have already been told to close may have done so.
Abandon(e, sv, closed) ==
  /\ enc' = [e EXCEPT !.result = "failed", !.waiting = {}]
  /\ srv' = Dropped(Closed(sv, closed), Flip(e.landlords))

remove_shareholder(t) ==
  LET pair == {<<t, Landlord(t)>>}
  IN  [enc EXCEPT !.landlords = @ \ pair, !.servermap = @ \ pair, !.waiting = @ \ {t}]

\* A put_ call or the close fails: the server refused it, the connection broke
\* and took every open bucket with it, or only the answer to a close was lost.
PutFailed(t, how) ==
  /\ Encoding /\ t \in enc.waiting
  /\ IF t \in srv[Landlord(t)].open THEN faults < MaxFaults ELSE how = "refused"
  /\ how = "answer" => enc.step = LastStep
  /\ LET s  == Landlord(t)
         e  == remove_shareholder(t)
         s1 == CASE how = "refused" -> srv
                 [] how = "broken"  -> [srv EXCEPT ![s].open = {}]
                 [] how = "answer"  -> Closed(srv, {<<s, t>>})
         s2 == Dropped(s1, {<<s, t>>})
     IN  IF servers_of_happiness(e.servermap) >= min_happiness
           THEN enc' = e /\ srv' = s2
           ELSE \E closed \in SUBSET (IF enc.step = LastStep THEN e.waiting ELSE {}) :
                  Abandon(e, s2, {<<Landlord(u), u>> : u \in closed})
  \* a bucket the server no longer has fails without a new fault
  /\ faults' = IF t \in srv[Landlord(t)].open THEN faults + 1 ELSE faults
  /\ UNCHANGED <<start, c, late, slow>>

\* The source cannot be read when a segment is to be encoded.
ReadFailed ==
  /\ Encoding /\ enc.step \in SegmentSteps /\ faults < MaxFaults
  /\ enc.waiting = Image(Flip(enc.landlords), Server)
  /\ faults' = faults + 1
  /\ Abandon(enc, srv, {})
  /\ UNCHANGED <<start, c, late, slow>>

Over == c.phase = "unhappy" \/ enc.result \in {"done", "failed", "AssertionError"}
Stored == UNION {AlreadyGot(s) \X {s} : s \in Server}

\* The upload is over and every query has been seen: nothing is left to do.
Finished == Over /\ (\A s \in Server : late[s] = <<>>) /\ UNCHANGED uploadVars

Next ==
  \/ SelectionNext /\ UNCHANGED enc
  \/ set_shareholders \/ NextStep \/ ReadFailed
  \/ \E t \in Share : \/ PutDone(t) \/ CloseDone(t)
                      \/ \E how \in {"refused", "broken", "answer"} : PutFailed(t, how)
  \/ Finished

\* No server is silent for ever: a query times out, any other call is answered
\* or fails with its connection.  Next can always be taken (TLC's deadlock check),
\* so that this is the weak fairness of Next.
Fairness == []<> Over \/ []<> <<TRUE>>_uploadVars
Spec == UploadInit /\ [][Next]_uploadVars /\ Fairness

-----------------------------------------------------------------------------

TypeOK ==
  /\ start \in Starts
  /\ \A s \in Server : srv[s].open \cup srv[s].closed \subseteq Share
                       /\ Cardinality(srv[s].open \cup srv[s].closed) <= srv[s].room
  /\ c.phase \in {"asking", "placing", "selected", "unhappy", "over"}
  /\ c.buckets \subseteq Server \X Share /\ c.use \subseteq Server /\ c.homeless \subseteq Share
  /\ c.write \cap c.readonly = {} /\ c.write \cup c.readonly = Server
  /\ c.peers \cap (c.readonly_peers \cup c.bad_peers) = {}
  /\ enc.landlords \subseteq enc.servermap /\ enc.servermap \subseteq Share \X Server
  /\ enc.step \in 0..LastStep /\ enc.waiting \subseteq Image(Flip(enc.landlords), Server)
  /\ enc.result \in {"none", "encoding", "done", "failed", "AssertionError"}

(* An upload that reports success (Encoder.done) has left on the servers   *)
(* enough shares that min_happiness servers can be paired with different   *)
(* shares, whatever failed on the way: _remove_shareholder is the only     *)
(* guard once the servers are selected.                                    *)
DoneIsHappy == enc.result = "done" => LargestMatching(Stored) >= min_happiness

(* When the upload is over, whatever way it ended, no server is left with  *)
(* an open bucket, unless one of its answers came after the timeout        *)
(* (get_shareholders, _failed, Encoder.err and _remove_shareholder each     *)
(* abort a part of the buckets), or the assertion of set_shareholders ended it. *)
NothingLeftOpen ==
  Over /\ enc.result # "AssertionError" => \A s \in Server \ slow : srv[s].open = {}

(* servers_of_happiness, the augmenting-path search, finds the size of a   *)
(* largest matching for every sharemap an upload meets.                    *)
HappinessExact ==
  LET map == IF Encoding THEN enc.servermap ELSE Merged(c)
  IN  Encoding \/ c.phase = "placing" => servers_of_happiness(map) = LargestMatching(map)

(* Every upload ends: the rounds of get_shareholders do not go on for ever *)
(* with servers that keep refusing, and no step of the encoder waits for a *)
(* share that has been removed.                                            *)
Ends == <> Over
=============================================================================
