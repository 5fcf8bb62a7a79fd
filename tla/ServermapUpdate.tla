--------------------------- MODULE ServermapUpdate ---------------------------
(***************************************************************************)
(* One run of ServermapUpdater (mutable/servermap.py): queries are sent to *)
(* a first set of servers and then to more, the answers and failures come  *)
(* back in any order, each share of an answer is validated in a turn of    *)
(* its own, and after every answer the updater decides whether to stop.    *)
(* Meanwhile another client may publish a newer version, share by share.   *)
(*                                                                         *)
(* A share is abstracted to its version and to whether its signature is    *)
(* valid.  The node holds the public key; it may have to fetch the private *)
(* key, with a further read of each share.                                 *)
(***************************************************************************)
EXTENDS ServerMap

CONSTANTS Starts,         \* the mode, map, bad shares and keys an update starts
                          \* with, and how many shares another client may write
          Grids,          \* what the servers may hold at the start
          Corrupt,        \* slots whose share has a bad signature
          fetch_update_data, \* the update prepares an in-place MDMF update
          NewVersion      \* the version another client is publishing

\* mark_bad_share takes a share out of the map.
ASSUME StartsAssumption ==
    \A start \in Starts :
        /\ start.mode \in Mode /\ start.has_privkey \in BOOLEAN
        /\ DOMAIN start.map = Slot /\ DOMAIN start.bad_shares = Slot
        /\ \A p \in Slot : start.map[p] = NoShare \/ start.bad_shares[p] = NoShare

VARIABLES grid, map, bad_shares, u, query, reachable, unreachable, writes
vars == <<grid, map, bad_shares, u, query, reachable, unreachable, writes>>

\* A server is asked once at the start, and once more if it is still on the
\* list of extra servers.
Query == Server \X {1, 2}

NoAnswer == [sh \in Share |-> NoShare]

Unsent == [state |-> "unsent", answer |-> NoAnswer, todo |-> {}, last |-> {},
           alone |-> FALSE]

InFlight == [Unsent EXCEPT !.state = "flight"]

\* _send_initial_requests and _do_query.
Sent(q, who, n) == [p \in Query |-> IF p[1] \in who /\ p[2] = n THEN InFlight ELSE q[p]]

Init ==
    /\ grid \in Grids
    /\ \E start \in Starts :
          /\ map = start.map
          /\ bad_shares = start.bad_shares
          /\ u = update(start.mode, start.map, start.has_privkey)
          /\ writes = start.others
    /\ query = Sent([q \in Query |-> Unsent], u.outstanding, 1)
    /\ reachable = {}
    /\ unreachable = {}

\* An answer that comes in when the update is over is ignored.
Over == IF u.running THEN "over" ELSE "late"

\* The queries that the step from u to u2 sends.
WithMore(q, u2) ==
    LET more == Range(u.extra) \ Range(u2.extra)
        first == {s \in more : q[<<s, 1>>].state = "unsent"}
    IN  Sent(Sent(q, first, 1), more \ first, 2)

\* The query to s needs no more waiting.
retired(u1, s) ==
    [u1 EXCEPT !.outstanding = @ \ {s}, !.must_query = @ \ {s}, !.completed = @ + 1]

\* _done_processing, then _check_for_done.
done_processing(u1, s, m, q) ==
    LET u2 == check_for_done(retired(u1, s), m)
    IN  /\ u' = u2
        /\ query' = WithMore(q, u2)
        /\ reachable' = reachable \union {s}

\* The shares of an answer are validated in one turn, unless more must be read
\* from the server for each of them: the private key, or the blocks that an
\* in-place update needs.
ReadsMore == u.need_privkey \/ fetch_update_data

\* The answer is complete once the deferreds in "ds" have fired.  With
\* fetch_update_data the loop rebinds "ds" for each share, so only those of
\* the last share are waited for.
waited_for_last(q) == query[q].last

waited_for(q) == IF fetch_update_data THEN query[q].last ELSE query[q].todo

_got_results(q) ==
    LET s == q[1]
        datavs == [sh \in Share |-> grid[<<s, sh>>]]
        found == {sh \in Share : datavs[sh] # NoShare}
        asked == [query EXCEPT ![q] = [@ EXCEPT !.state = Over, !.answer = datavs]]
    IN  /\ query[q].state = "flight"
        /\ IF ~u.running \/ found = {}
           THEN done_processing(IF u.running THEN [u EXCEPT !.empty = @ \union {s}] ELSE u,
                                s, map, asked)
           ELSE /\ \E last \in found :
                      query' = [asked EXCEPT ![q] = [@ EXCEPT !.state = "working", !.todo = found,
                                                              !.last = {last}, !.alone = ReadsMore]]
                /\ UNCHANGED <<u, reachable>>
        /\ UNCHANGED <<grid, map, bad_shares, unreachable, writes>>

\* add_new_share for the shares S that server s sent, unless they are known as
\* bad; mark_bad_share for those whose signature does not verify.
recorded(s, S, answer) ==
    LET valid == {sh \in S : <<s, sh>> \notin Corrupt /\ bad_shares[<<s, sh>>] = NoShare}
        corrupt == {sh \in S : <<s, sh>> \in Corrupt}
    IN  /\ map' = [p \in Slot |-> IF p[1] = s /\ p[2] \in valid THEN answer[p[2]]
                                  ELSE IF p[1] = s /\ p[2] \in corrupt THEN NoShare
                                  ELSE map[p]]
        /\ bad_shares' = [p \in Slot |-> IF p[1] = s /\ p[2] \in corrupt THEN answer[p[2]]
                                         ELSE bad_shares[p]]

\* _got_signature_one_share and its errback _got_corrupt_share: nothing is
\* recorded when the update is over.
validated_late(s, S, answer) == recorded(s, S, answer)

validated(s, S, answer) ==
    IF u.running THEN recorded(s, S, answer) ELSE UNCHANGED <<map, bad_shares>>

\* What they leave in the updater's own tables.
seen(u1, s, S) ==
    IF ~u1.running THEN u1
    ELSE [u1 EXCEPT !.bad = IF \E sh \in S : <<s, sh>> \in Corrupt THEN @ \union {s} ELSE @,
                    !.with_shares = IF \E sh \in S : <<s, sh>> \notin Corrupt /\ bad_shares[<<s, sh>>] = NoShare
                                    THEN @ \union {s} ELSE @]

\* The private key came with the share (_try_to_validate_privkey), or reading
\* it failed (_privkey_query_failed), which forgets that the server is awaited.
PrivkeyFound == [u EXCEPT !.need_privkey = FALSE]

_privkey_query_failed(s) == [u EXCEPT !.outstanding = @ \ {s}]

_got_signature_one_share(q, S) ==
    LET s == q[1]
        left == query[q].todo \ S
        complete == query[q].state = "working" /\ left \intersect waited_for(q) = {}
        asked == [query EXCEPT ![q] = [@ EXCEPT !.todo = left,
                                                !.state = IF complete THEN Over ELSE query[q].state]]
        keys == IF query[q].alone /\ u.need_privkey THEN {PrivkeyFound, _privkey_query_failed(s)} ELSE {u}
    IN  /\ S \subseteq query[q].todo
        /\ IF query[q].alone THEN Cardinality(S) = 1 ELSE S = query[q].todo /\ S # {}
        /\ validated(s, S, query[q].answer)
        /\ \E u1 \in keys :
              IF complete
              THEN done_processing(seen(u1, s, S), s, map', asked)
              ELSE /\ u' = seen(u1, s, S)
                   /\ query' = asked
                   /\ UNCHANGED reachable
        /\ UNCHANGED <<grid, unreachable, writes>>

\* A query errs back (connection lost, server error), then _check_for_done.
_query_failed(q) ==
    LET s == q[1]
        u2 == check_for_done([retired(u, s) EXCEPT !.bad = @ \union {s}], map)
        asked == [query EXCEPT ![q] = [@ EXCEPT !.state = "failed"]]
    IN  /\ query[q].state = "flight"
        /\ IF u.running
           THEN /\ u' = u2
                /\ query' = WithMore(asked, u2)
                /\ unreachable' = unreachable \union {s}
           ELSE /\ query' = asked
                /\ UNCHANGED <<u, unreachable>>
        /\ UNCHANGED <<grid, map, bad_shares, reachable, writes>>

\* Another client's share lands on a server.
Overwritten(p) ==
    /\ writes > 0
    /\ grid[p] # NewVersion
    /\ grid' = [grid EXCEPT ![p] = NewVersion]
    /\ writes' = writes - 1
    /\ UNCHANGED <<map, bad_shares, u, query, reachable, unreachable>>

Answer(q) ==
    \/ _got_results(q)
    \/ _query_failed(q)
    \/ \E S \in SUBSET Share : _got_signature_one_share(q, S)

Next ==
    \/ \E q \in Query : Answer(q)
    \/ \E p \in Slot : Overwritten(p)

\* Every query is answered or errs back: the client's connection to a server
\* that stays silent is dropped by its keepalive timer.  The turns that
\* validate shares are run by the reactor.
Fairness == \A q \in Query : []<>(query[q].state # "flight" /\ query[q].todo = {})

Spec == Init /\ [][Next]_vars /\ Fairness

-----------------------------------------------------------------------------
\* Types, and the bookkeeping of queries: a server is awaited or must be
\* awaited only while a query to it is in flight or being processed.
TypeOK ==
    /\ u \in UpdaterType
    /\ DOMAIN map = Slot /\ DOMAIN bad_shares = Slot
    /\ \A p \in Slot : map[p] = NoShare \/ bad_shares[p] = NoShare
    /\ \A s \in u.outstanding \union u.must_query : u.running =>
          \E n \in {1, 2} : query[<<s, n>>].state \in {"flight", "working"}

\* How a server's side of the story went.
Heard(s) == \E n \in {1, 2} : query[<<s, n>>].state \in {"over", "failed"}
HasShares(s) == \E n \in {1, 2} : query[<<s, n>>].answer # NoAnswer
Empty(s) == \E n \in {1, 2} : query[<<s, n>>].state = "over" /\ query[<<s, n>>].answer = NoAnswer

\* When the update ends (_done), it knows what its mode promises.  Checking
\* and repairing have heard from every server.  Writing has heard from every
\* server up to a point where EPSILON empty ones follow one that has shares,
\* or from all it could.  Reading and MODE_ANYTHING hold a version they can
\* recover, or have heard from all.  This holds when the shares of an answer
\* are validated in one turn.  When more must be read for each share,
\* _privkey_query_failed and _check_for_done can end the update in between.
Enough ==
    (~u.running /\ \A q \in Query : ~query[q].alone) =>
        LET unheard == {i \in 1 .. Len(serverlist) : ~Heard(serverlist[i])}
        IN  \/ unheard = {}
            \/ /\ u.mode = "MODE_WRITE"
               /\ recoverable_versions(map) # {}
               /\ \E f \in 1 .. Min(unheard) - 1 :
                     /\ HasShares(serverlist[f])
                     /\ Cardinality({i \in f + 1 .. Min(unheard) - 1 : Empty(serverlist[i])}) >= EPSILON
            \/ /\ u.mode \in {"MODE_READ", "MODE_ANYTHING"}
               /\ recoverable_versions(map) # {}

\* And an answer counts as completed only when every share in it has been
\* validated, "When dl fires, we know that processing is done" (the comment on
\* the DeferredList at the end of _got_results): each share of a counted
\* answer is in the map, or known as bad.
NothingMissed ==
    \A q \in Query : \A sh \in Share :
        (query[q].state = "over" /\ query[q].answer[sh] # NoShare) =>
            map[<<q[1], sh>>] # NoShare \/ bad_shares[<<q[1], sh>>] # NoShare

\* Both: an update that has ended holds what its mode promises, and what was
\* answered is accounted for.
EnoughKnown == TypeOK /\ Enough /\ NothingMissed

\* "the servermap will not be touched after this" (_done): answers and
\* validations that come in late leave the shares in the map alone.
MapFrozen == [][~u.running => UNCHANGED <<map, bad_shares>>]_vars

\* The update ends, whichever servers answer, fail, or hold bad shares.
Finishes == <>(~u.running)
=============================================================================
