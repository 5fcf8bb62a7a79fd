------------------------------ MODULE ServerMap ------------------------------
(***************************************************************************)
(* What a client knows of the shares of one mutable file, and the rules by *)
(* which it decides that it knows enough: the class ServerMap and the      *)
(* decisions of ServermapUpdater (mutable/servermap.py) as operators on    *)
(* values, shared by the modules that map, publish and repair a file.      *)
(*                                                                         *)
(* A map is a function from (server, share number) to the version found    *)
(* there, or NoShare.  A version is the pair the code sorts on: sequence   *)
(* number, then root hash (a number standing for the hash).  Every version *)
(* of the file has the same k and N.  The set of bad shares is kept apart, *)
(* as a function to the checkstring that was found.                        *)
(***************************************************************************)
EXTENDS Integers, FiniteSets, Sequences, FiniteSetsExt

CONSTANTS serverlist,        \* the servers in the permuted order of the file
          total_shares,      \* N
          required_shares,   \* k
          NoShare

Server == Range(serverlist)
Share == 0 .. total_shares - 1
Slot == Server \X Share

ASSUME ServerMapAssumption ==
    /\ serverlist \in Seq(Server)
    /\ IsInjective(serverlist)
    /\ total_shares \in Nat \ {0}
    /\ required_shares \in 1 .. total_shares

EmptyMap == [p \in Slot |-> NoShare]

get_known_shares(map) == {p \in Slot : map[p] # NoShare}

all_servers(map) == {p[1] : p \in get_known_shares(map)}

\* make_versionmap: the versions present, and the share numbers of each.
versions(map) == {map[p] : p \in get_known_shares(map)}

shnums(map, v) == {p[2] : p \in {q \in Slot : map[q] = v}}

recoverable_versions(map) ==
    {v \in versions(map) : Cardinality(shnums(map, v)) >= required_shares}

unrecoverable_versions(map) ==
    {v \in versions(map) : Cardinality(shnums(map, v)) < required_shares}

\* Python sorts the version tuples: sequence number first, then root hash.
Below(v, w) == v.seq < w.seq \/ (v.seq = w.seq /\ v.hash < w.hash)

best_recoverable_version(map) ==
    IF recoverable_versions(map) = {} THEN NoShare
    ELSE CHOOSE v \in recoverable_versions(map) :
             \A w \in recoverable_versions(map) : w = v \/ Below(w, v)

highest_seqnum(map) == Max({v.seq : v \in versions(map)} \union {0})

unrecoverable_newer_versions(map) ==
    {v \in unrecoverable_versions(map) :
        \A w \in recoverable_versions(map) : v.seq > w.seq}

needs_merge(map) ==
    \E v, w \in recoverable_versions(map) : v # w /\ v.seq = w.seq

-----------------------------------------------------------------------------
(***************************************************************************)
(* One update.  The updater's own tables are a record: the queries in      *)
(* flight, the servers not asked yet (extra), those it must hear from, and *)
(* what each answer showed.                                                *)
(***************************************************************************)
Mode == {"MODE_READ", "MODE_WRITE", "MODE_CHECK", "MODE_REPAIR", "MODE_ANYTHING"}

EPSILON == required_shares

MAX_IN_FLIGHT == 5

num_servers_to_query(mode) ==
    IF mode = "MODE_WRITE" THEN total_shares + EPSILON ELSE required_shares + EPSILON

\* _build_initial_querylist takes servers off the front of extra_servers
\* until enough distinct ones are asked; Taken is how many it takes.
Taken(mode, map) ==
    LET Asked(n) == all_servers(map) \union Range(SubSeq(serverlist, 1, n))
        enough == {n \in 0 .. Len(serverlist) :
                      Cardinality(Asked(n)) >= num_servers_to_query(mode)}
    IN  IF enough = {} THEN Len(serverlist) ELSE Min(enough)

AskedFirst(mode, map) ==
    all_servers(map) \union Range(SubSeq(serverlist, 1, Taken(mode, map)))

\* ServermapUpdater.update: who is asked at once, and who must answer.
update(mode, map, has_privkey) ==
    LET everyone == mode \in {"MODE_CHECK", "MODE_REPAIR"}
    IN  [mode        |-> mode,
         outstanding |-> IF everyone THEN Server ELSE AskedFirst(mode, map),
         extra       |-> IF everyone THEN <<>>
                         ELSE SubSeq(serverlist, Taken(mode, map) + 1, Len(serverlist)),
         must_query  |-> IF everyone THEN Server ELSE all_servers(map),
         empty       |-> {},
         bad         |-> {},
         with_shares |-> {},
         completed   |-> 0,
         need_privkey |-> mode \in {"MODE_WRITE", "MODE_REPAIR"} /\ ~has_privkey,
         running     |-> TRUE]

UpdaterType ==
    [mode : Mode, outstanding : SUBSET Server, must_query : SUBSET Server,
     extra : {SubSeq(serverlist, n, Len(serverlist)) : n \in 1 .. Len(serverlist) + 1},
     empty : SUBSET Server, bad : SUBSET Server, with_shares : SUBSET Server,
     completed : Nat, need_privkey : BOOLEAN, running : BOOLEAN]

\* The walk of _check_for_done over the permuted list: x, 0, 1 or ?.
standing(u, s) ==
    IF s \in u.bad THEN "x"
    ELSE IF s \in u.empty THEN "0"
    ELSE IF s \in u.with_shares THEN "1"
    ELSE "?"

Standing(u, lo, hi, c) == {i \in lo .. hi : standing(u, serverlist[i]) = c}

\* Places where EPSILON empty servers have followed the last one with a share.
boundaries(u) ==
    {i \in Standing(u, 1, Len(serverlist), "0") :
        LET found == Standing(u, 1, i, "1")
        IN  found # {} /\ Cardinality(Standing(u, Max(found), i, "0")) >= EPSILON}

not_responded(u) ==
    IF boundaries(u) = {} THEN {} ELSE Standing(u, 1, Min(boundaries(u)), "?")

\* Off by one: stops with one query fewer than it was asked to keep going.
send_more_queries_short(u, n) ==
    LET more == Min({Len(u.extra), Max({0, n - 1 - Cardinality(u.outstanding)})})
    IN  [u EXCEPT !.outstanding = @ \union Range(SubSeq(u.extra, 1, more)),
                  !.extra = SubSeq(@, more + 1, Len(@))]

send_more_queries(u, n) ==
    LET more == Min({Len(u.extra), Max({0, n - Cardinality(u.outstanding)})})
    IN  [u EXCEPT !.outstanding = @ \union Range(SubSeq(u.extra, 1, more)),
                  !.extra = SubSeq(@, more + 1, Len(@))]

\* MODE_READ stops once enough servers have answered, some version can be
\* recovered and no newer one is in sight.
read_satisfied(u, map) ==
    /\ u.completed >= num_servers_to_query("MODE_READ")
    /\ recoverable_versions(map) # {}
    /\ unrecoverable_newer_versions(map) = {}

\* MODE_WRITE stops at a boundary with no silent server before it.
found_boundary(u, map) ==
    /\ u.mode = "MODE_WRITE"
    /\ recoverable_versions(map) # {}
    /\ boundaries(u) # {}

finished(u, map) ==
    \/ u.outstanding = {} /\ u.extra = <<>>
    \/ u.mode = "MODE_ANYTHING" /\ recoverable_versions(map) # {}
    \/ u.mode \in {"MODE_CHECK", "MODE_REPAIR"}
    \/ u.mode = "MODE_READ" /\ read_satisfied(u, map)
    \/ found_boundary(u, map) /\ not_responded(u) = {} /\ ~u.need_privkey

\* _check_for_done: wait, stop, or ask more servers.
check_for_done(u, map) ==
    IF ~u.running \/ u.must_query # {} THEN u
    ELSE IF finished(u, map) THEN [u EXCEPT !.running = FALSE]
    ELSE IF found_boundary(u, map) /\ not_responded(u) # {}
         THEN send_more_queries(u, Cardinality(not_responded(u)))
    ELSE send_more_queries(u, MAX_IN_FLIGHT)
=============================================================================
