------------------------------ MODULE Checkers ------------------------------
(***************************************************************************)
(* Checking and repairing an immutable file (immutable/checker.py,         *)
(* immutable/repairer.py, CiphertextFileNode in immutable/filenode.py):    *)
(* all servers are asked at once which shares they hold, each share may be *)
(* downloaded and verified, the answers are counted, and what is missing   *)
(* may be uploaded again.  Meanwhile shares rot and servers go away.       *)
(*                                                                         *)
(* A share is absent (""), "good", or named for the part of it that is     *)
(* damaged.                                                                *)
(***************************************************************************)
EXTENDS Naturals, FiniteSets, ServerMap

CONSTANTS Servers,
          needed_shares,  \* of the verify cap; total_shares is ServerMap's
          Damages,    \* parts of a share that may be damaged
          Shares0,    \* where the shares are at first
          MaxRot,     \* bound on shares that go bad meanwhile
          MaxLost     \* bound on servers that go away

VARIABLES shares,   \* server -> share number -> what is there
          up,       \* servers that are connected
          verify,   \* was the check asked to verify?
          buckets,  \* server -> its answer to get_buckets: [known, nums]
          verdict,  \* server -> share number -> outcome of the verification
          cr,       \* check results
          prr,      \* post-repair results
          phase,    \* "check", "unhealthy", "repair", "done" or "failed"
          wasGood,  \* ghost: <<server, number>> good at some time of the check
          wasBad,   \* ghost: the same, damaged
          left      \* what may still happen: [rot, lost]

checkVars == <<shares, up, verify, buckets, verdict, cr, prr, phase, wasGood, wasBad, left>>

Nums == 0..(total_shares - 1)
Unknown == [known |-> FALSE, nums |-> {}, responded |-> FALSE]
NoResults == [sharemap |-> {}, corrupt |-> {}, incompatible |-> {}, responding |-> {},
              healthy |-> FALSE, recoverable |-> FALSE]

GoodNow(sh) == {<<s, n>> \in Servers \X Nums : sh[s][n] = "good"}
BadNow(sh) == {<<s, n>> \in Servers \X Nums : sh[s][n] \in Damages}

CheckInit ==
  /\ shares \in Shares0 /\ up = Servers /\ verify \in BOOLEAN
  /\ buckets = [s \in Servers |-> Unknown]
  /\ verdict = [s \in Servers |-> [n \in Nums |-> ""]]
  /\ cr = NoResults /\ prr = NoResults /\ phase = "check"
  /\ wasGood = GoodNow(shares) /\ wasBad = BadNow(shares)
  /\ left = [rot |-> MaxRot, lost |-> MaxLost]

-----------------------------------------------------------------------------
(* _get_buckets, for _check_server_shares and _verify_server_shares.       *)
_get_buckets(s) ==
  /\ phase = "check" /\ ~buckets[s].known
  /\ buckets' = [buckets EXCEPT ![s] =
       [known |-> TRUE, responded |-> s \in up,
        nums |-> IF s \in up THEN {n \in Nums : shares[s][n] # ""} ELSE {}]]
  /\ UNCHANGED <<shares, up, verify, verdict, cr, prr, phase, wasGood, wasBad, left>>

(* ValidatedExtendedURIProxy.start: the URI extension block must have the  *)
(* hash of the verify cap.                                                 *)
UEBGood(share) == share # "ueb"

(* get_all_sharehashes, get_all_blockhashes, get_all_crypttext_hashes.     *)
HashesGood(share) == share \notin {"share hashes", "block hashes", "crypttext hashes"}

(* get_block and _got_data for every block.                                *)
BlocksGood(share) == share # "block"

(* _errb and _all_good.                                                    *)
Outcome(share) ==
  CASE share = "version" -> "incompatible"
    [] share # "version" /\ ~(UEBGood(share) /\ HashesGood(share) /\ BlocksGood(share)) -> "corrupt"
    [] OTHER -> "verified"

(* _download_and_verify: with the share gone meanwhile the server answers  *)
(* with a failure.                                                         *)
_download_and_verify(s, n) ==
  /\ phase = "check" /\ verify /\ n \in buckets[s].nums /\ verdict[s][n] = ""
  /\ verdict' = [verdict EXCEPT ![s][n] = CASE s \notin up -> "disconnect"
                                            [] s \in up /\ shares[s][n] = "" -> "failure"
                                            [] OTHER -> Outcome(shares[s][n])]
  /\ UNCHANGED <<shares, up, verify, buckets, cr, prr, phase, wasGood, wasBad, left>>

-----------------------------------------------------------------------------
(* collect, _curry_empty_corrupted: what is believed of a server.          *)
Found(s) == IF verify THEN {n \in Nums : verdict[s][n] = "verified"} ELSE buckets[s].nums

Located(what) == {<<s, n>> \in Servers \X Nums : verdict[s][n] = what}

Results(map, corrupt, incompatible, responding) ==
  LET numbers == {p[2] : p \in map}
  IN [sharemap |-> map, corrupt |-> corrupt, incompatible |-> incompatible,
      responding |-> responding,
      healthy |-> Cardinality(numbers) >= total_shares,
      recoverable |-> Cardinality(numbers) >= needed_shares]

(* _format_results, when every server is done; _maybe_repair.              *)
_format_results ==
  /\ phase = "check" /\ \A s \in Servers : buckets[s].known
  /\ verify => \A s \in Servers : \A n \in buckets[s].nums : verdict[s][n] # ""
  /\ cr' = Results({p \in Servers \X Nums : p[2] \in Found(p[1])}, Located("corrupt"),
                   Located("incompatible"), {s \in Servers : buckets[s].responded})
  /\ phase' = IF cr'.healthy THEN "done" ELSE "unhealthy"
  /\ prr' = IF cr'.healthy THEN cr' ELSE prr
  /\ UNCHANGED <<shares, up, verify, buckets, verdict, wasGood, wasBad, left>>

Enough == Cardinality({n \in Nums : \E s \in up : shares[s][n] = "good"}) >= needed_shares

(* Repairer.start: the segment size is read off the shares that are left.  *)
Repairer ==
  /\ phase = "unhealthy"
  /\ phase' = IF Enough THEN "repair" ELSE "failed"
  /\ UNCHANGED <<shares, up, verify, buckets, verdict, cr, prr, wasGood, wasBad, left>>

(* read_encrypted runs out of shares: the upload, and with it the repair,  *)
(* fails.                                                                  *)
read_encrypted_fails ==
  /\ phase = "repair" /\ ~Enough /\ phase' = "failed"
  /\ UNCHANGED <<shares, up, verify, buckets, verdict, cr, prr, wasGood, wasBad, left>>

(* What the upload may push: shares to servers that do not have them; with *)
(* a happiness of 0 it may be none.                                        *)
Placements ==
  {P \in SUBSET {p \in up \X Nums : shares[p[1]][p[2]] = ""} :
     \A p \in P, q \in P : p[2] = q[2] => p = q}

Pushed_and_found(placed) == placed \cup {p \in Servers \X Nums : p[1] \in up /\ shares[p[1]][p[2]] # ""}

(* The sharemap of the upload results: what was pushed.                    *)
Pushed(placed) == placed

(* The sharemap of the post-repair results.                                *)
Merged(found, pushed) == found \cup pushed

(* The upload, and _gather_repair_results: what it pushed is added to what *)
(* the check found.                                                        *)
_gather_repair_results ==
  /\ phase = "repair" /\ Enough
  /\ \E placed \in Placements :
       /\ shares' = [s \in Servers |-> [n \in Nums |-> IF <<s, n>> \in placed THEN "good" ELSE shares[s][n]]]
       /\ wasGood' = wasGood \cup placed
       /\ prr' = Results(Merged(cr.sharemap, Pushed(placed)), cr.corrupt, cr.incompatible,
                         cr.responding \cup {p[1] : p \in placed})
  /\ phase' = "done"
  /\ UNCHANGED <<up, verify, buckets, verdict, cr, wasBad, left>>

-----------------------------------------------------------------------------
(* A share is damaged or deleted on a server's disk.                       *)
Rot(s, n) ==
  /\ left.rot > 0 /\ shares[s][n] = "good" /\ phase \notin {"done", "failed"}
  /\ \E what \in Damages \cup {""} : shares' = [shares EXCEPT ![s][n] = what]
  /\ wasBad' = wasBad \cup BadNow(shares')
  /\ left' = [left EXCEPT !.rot = @ - 1]
  /\ UNCHANGED <<up, verify, buckets, verdict, cr, prr, phase, wasGood>>

Lose(s) ==
  /\ left.lost > 0 /\ s \in up /\ phase \notin {"done", "failed"}
  /\ up' = up \ {s} /\ left' = [left EXCEPT !.lost = @ - 1]
  /\ UNCHANGED <<shares, verify, buckets, verdict, cr, prr, phase, wasGood, wasBad>>

CheckNext ==
  \/ \E s \in Servers : _get_buckets(s) \/ Lose(s)
  \/ \E s \in Servers, n \in Nums : _download_and_verify(s, n) \/ Rot(s, n)
  \/ _format_results \/ Repairer \/ read_encrypted_fails \/ _gather_repair_results

CheckSpec == CheckInit /\ [][CheckNext]_checkVars

-----------------------------------------------------------------------------
(* What a verifying check reports is true: each share it counts was whole  *)
(* on the server it names, each one it calls corrupt was damaged; and      *)
(* after a repair each share counted was found whole or uploaded, so that  *)
(* a file is called healthy only if all its shares were there.             *)
ReportsTheTruth ==
  \A r \in {cr, prr} :
    /\ verify => r.sharemap \subseteq wasGood
    /\ r.corrupt \cup r.incompatible \subseteq wasBad
    /\ verify /\ r.healthy => {p[2] : p \in wasGood} = Nums

(* Repair never makes it worse: what was counted before is counted after,  *)
(* and if no share rotted and no server left during the check, a file that *)
(* had enough shares is still called recoverable.                          *)
RepairAdds ==
  phase = "done" =>
    /\ cr.sharemap \subseteq prr.sharemap
    /\ cr.recoverable => prr.recoverable
    /\ left.rot = MaxRot /\ left.lost = MaxLost
       /\ Cardinality({p[2] : p \in wasGood}) >= needed_shares => prr.recoverable

-----------------------------------------------------------------------------
(***************************************************************************)
(* Checking a mutable file, and repairing it when the check finds that it  *)
(* needs it (mutable/checker.py, mutable/repairer.py): the map of the      *)
(* shares, the verification of every share number, the verdict, and the    *)
(* repair that publishes the best version anew.  A share is the version it *)
(* claims and whether its blocks are good, which only reading it all       *)
(* shows.  Servers do not answer, and shares are lost in between.          *)
(***************************************************************************)
CONSTANTS Shares,      \* shares there may be at the start: records [version, good]
          MaxLosses    \* bound on shares lost

VARIABLES grid,   \* Slot -> NoShare or [version, good]
          ck      \* the check

mutableCheckVars == <<grid, ck>>

Nothing == [healthy |-> FALSE, recoverable |-> FALSE, good |-> 0, wrong |-> 0, corrupt |-> {}]
NoCheck == [st |-> "idle", verify |-> FALSE, smap |-> EmptyMap, need_repair |-> FALSE, bad |-> {},
            results |-> Nothing, repair |-> "none", post |-> Nothing, losses |-> 0, heard |-> {}, was |-> EmptyMap]

MutableCheckInit ==
  /\ grid \in [Slot -> {NoShare} \cup Shares]
  /\ ck = NoCheck

(* What a map update learns from the servers that answer (external:        *)
(* ServermapUpdater, in ServermapUpdate).                                  *)
Mapped(A) == [p \in Slot |-> IF p[1] \in A /\ grid[p] # NoShare THEN grid[p].version ELSE NoShare]

(* _got_mapupdate_results: whether the map alone calls for a repair.       *)
_got_mapupdate_results(map) ==
  LET best == best_recoverable_version(map)
  IN \/ unrecoverable_versions(map) # {}
     \/ Cardinality(recoverable_versions(map)) # 1
     \/ best # NoShare /\ Cardinality(shnums(map, best)) < total_shares

check ==
  /\ ck.st = "idle"
  /\ \E A \in SUBSET Server, v \in BOOLEAN : \E map \in {Mapped(A)} :
       ck' = [NoCheck EXCEPT !.st = IF v THEN "verify" ELSE "count", !.verify = v, !.smap = map, !.heard = A,
                             !.need_repair = _got_mapupdate_results(map), !.was = grid]
  /\ UNCHANGED grid

(* A server loses a share.                                                 *)
ShareLost ==
  /\ ck.st \in {"verify", "count", "maybe_repair"} /\ ck.losses < MaxLosses
  /\ \E p \in Slot : grid[p] # NoShare /\ grid' = [grid EXCEPT ![p] = NoShare]
  /\ ck' = [ck EXCEPT !.losses = @ + 1]

(* Retrieve(verify=True): one copy of each share number is read, and the   *)
(* bad ones are taken off the map (external: Retrieve).                    *)
Bad(version, reader) ==
  {<<reader[sh], sh>> : sh \in {h \in DOMAIN reader : grid[<<reader[h], h>>] # [version |-> version, good |-> TRUE]}}

_process_bad_shares(bad) ==
  ck' = [ck EXCEPT !.st = "count", !.bad = bad, !.need_repair = @ \/ bad # {},
                   !.smap = [p \in Slot |-> IF p \in bad THEN NoShare ELSE @[p]]]

Readers(map, best) ==
  {r \in [shnums(map, best) -> Server] : \A sh \in DOMAIN r : map[<<r[sh], sh>>] = best}

_verify_all_shares ==
  /\ ck.st = "verify"
  /\ \E best \in {best_recoverable_version(ck.smap)} :
       IF best = NoShare THEN ck' = [ck EXCEPT !.st = "count"]
       ELSE \E r \in Readers(ck.smap, best) : \E bad \in {Bad(best, r)} : _process_bad_shares(bad)
  /\ UNCHANGED grid

-----------------------------------------------------------------------------
(* _count_shares, of one version.                                          *)
_count_shares(map, v) ==
  [good |-> Cardinality(shnums(map, v)), wrong |-> Cardinality({p \in get_known_shares(map) : map[p] # v})]

(* Whether the map is of a healthy file.                                   *)
Healthy(map) ==
  /\ unrecoverable_versions(map) = {}
  /\ Cardinality(recoverable_versions(map)) = 1
  /\ _count_shares(map, best_recoverable_version(map)).good >= total_shares

(* Which version is counted: the best, or any of the unrecoverable ones.   *)
Counted(map) ==
  IF recoverable_versions(map) # {} THEN {best_recoverable_version(map)} ELSE unrecoverable_versions(map)

_make_checker_results(map, bad) ==
  LET v == CHOOSE w \in Counted(map) : TRUE
      c == IF Counted(map) = {} THEN [good |-> 0, wrong |-> 0] ELSE _count_shares(map, v)
  IN [healthy |-> Healthy(map), recoverable |-> recoverable_versions(map) # {},
      good |-> c.good, wrong |-> c.wrong, corrupt |-> bad]

MakeResults ==
  /\ ck.st = "count"
  /\ ck' = [ck EXCEPT !.st = "maybe_repair", !.results = _make_checker_results(ck.smap, ck.bad)]
  /\ UNCHANGED grid

-----------------------------------------------------------------------------
(* MutableCheckAndRepairer *)

(* No repair is needed, or the node is read-only.                          *)
_maybe_repair_not ==
  /\ ck.st = "maybe_repair"
  /\ ck' = [ck EXCEPT !.st = "done", !.post = ck.results]
  /\ UNCHANGED grid

RepairEnds(outcome, map) ==
  ck' = [ck EXCEPT !.st = "done", !.repair = outcome, !.post = _make_checker_results(map, ck.bad)]

_repair_error == ck' = [ck EXCEPT !.st = "done", !.repair = "failed"]

MustForceRepair(map) == unrecoverable_newer_versions(map) # {} \/ needs_merge(map)

(* The repairer's download: it finds k good shares of the version, or not. *)
Downloads(map, v) ==
  Cardinality({p[2] : p \in {q \in Slot : map[q] = v /\ grid[q] = [version |-> v, good |-> TRUE]}}) >= required_shares

(* Every share on the map is replaced, and every share number gets a home  *)
(* (external: Publish, in MutableFile).                                    *)
Published(map, A) ==
  \E home \in [Share -> A] :
    \E new \in {[seq |-> highest_seqnum(map) + 1, hash |-> best_recoverable_version(map).hash]},
       to \in {get_known_shares(map) \cup
                {<<home[sh], sh>> : sh \in {h \in Share : \A s \in Server : map[<<s, h>>] = NoShare}}} :
       /\ grid' = [p \in Slot |-> IF p \in to THEN [version |-> new, good |-> TRUE] ELSE grid[p]]
       /\ \E m \in {[p \in Slot |-> IF p \in to THEN new ELSE NoShare]} : RepairEnds("successful", m)

(* Repairer.start: with a map of its own.                                  *)
_got_full_servermap ==
  /\ ck.st = "maybe_repair" /\ ck.need_repair
  /\ \E A \in SUBSET Server : \E map \in {Mapped(A)} : \E best \in {best_recoverable_version(map)} :
       IF best = NoShare THEN RepairEnds("unsuccessful", map) /\ UNCHANGED grid
       ELSE IF MustForceRepair(map) \/ ~Downloads(map, best) THEN _repair_error /\ UNCHANGED grid
       ELSE Published(map, A)

MutableCheckNext ==
  check \/ ShareLost \/ _verify_all_shares \/ MakeResults \/ _maybe_repair_not \/ _got_full_servermap

MutableCheckSpec == MutableCheckInit /\ [][MutableCheckNext]_mutableCheckVars

-----------------------------------------------------------------------------
(* The shares of the servers that answered, of which there is one copy of  *)
(* each number, all of one version and, where that was looked at, all good.*)
WholeAt(g, A, verified) ==
  \E v \in {x.version : x \in Shares} :
    /\ \A p \in Slot : (p[1] \in A /\ g[p] # NoShare) => g[p].version = v /\ (verified => g[p].good)
    /\ \A sh \in Share : \E s \in A : g[<<s, sh>>] # NoShare

OneCopy(g) == \A p, q \in Slot : (p # q /\ p[2] = q[2]) => NoShare \in {g[p], g[q]}

(* The verdict is true of the grid: when no share has two homes and none   *)
(* was lost meanwhile, a file is called healthy exactly if the servers     *)
(* that answered hold all the shares of one version and nothing else,      *)
(* whole ones if they were verified; and whatever the copies, a file that  *)
(* is called unhealthy or has a corrupt share is repaired, and a healthy   *)
(* one is left alone (_got_mapupdate_results, _make_checker_results).      *)
VerdictTrue ==
  ck.st \in {"maybe_repair", "done"} =>
    /\ (OneCopy(ck.was) /\ ck.losses = 0) => (ck.results.healthy <=> WholeAt(ck.was, ck.heard, ck.verify))
    /\ ck.need_repair <=> (~ck.results.healthy \/ ck.results.corrupt # {})
    /\ ck.results.healthy => ck.results.good = total_shares /\ ck.results.wrong = 0

(* A repair that is reported successful leaves every share number on some  *)
(* server, good and of a version above all that it saw, and what was       *)
(* readable before is readable after (_maybe_repair, _got_full_servermap). *)
RepairTrue ==
  ck.repair = "successful" =>
    /\ ck.post.healthy
    /\ \E new \in {grid[p].version : p \in {q \in Slot : grid[q] # NoShare}} :
         \A sh \in Share : \E s \in Server : grid[<<s, sh>>] = [version |-> new, good |-> TRUE]

MutableCheckTrue == VerdictTrue /\ RepairTrue
=============================================================================
