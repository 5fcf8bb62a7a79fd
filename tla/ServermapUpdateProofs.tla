----------------------- MODULE ServermapUpdateProofs ------------------------
(***************************************************************************)
(* When a servermap update ends it knows what its mode promises, for any   *)
(* servers, k and N, any shares on them, bad ones among them, and answers  *)
(* in any order.                                                           *)
(***************************************************************************)
EXTENDS ServermapUpdate, FiniteSetTheorems, SequenceTheorems, WellFoundedInduction, TLAPS

(* The provers tried, in this order, where a step names none. *)
USE SMTT(20), ZenonT(20), SMTT(60)

L == Len(serverlist)

LEMMA ListOK ==
  /\ L \in Nat /\ DOMAIN serverlist = 1 .. L
  /\ \A i \in 1 .. L : serverlist[i] \in Server
  /\ \A s \in Server : \E i \in 1 .. L : s = serverlist[i]
  /\ \A i, j \in 1 .. L : serverlist[i] = serverlist[j] => i = j
<1>1. L \in Nat /\ DOMAIN serverlist = 1 .. L
  BY ServerMapAssumption DEF L
<1>2. QED
  BY <1>1, ServerMapAssumption DEF Server, Range, IsInjective

LEMMA ServerFinite == IsFiniteSet(Server)
<1>1. IsFiniteSet(1 .. L)
  BY ListOK, FS_Interval
<1>2. serverlist \in Surjection(1 .. L, Server)
  BY ListOK, ServerMapAssumption DEF Surjection, L
<1>3. QED
  BY <1>1, <1>2, FS_Surjection

LEMMA LeastOne ==
  ASSUME NEW T \in SUBSET Nat, T # {}
  PROVE  Min(T) \in T /\ \A i \in T : Min(T) <= i
<1> DEFINE R == OpToRel(<, Nat)
<1>1. PICK x \in T : \A y \in T : ~ (<<y, x>> \in R)
  <2>1. IsWellFoundedOn(R, Nat)
    BY Zenon, ZenonT(60), NatLessThanWellFounded
  <2> HIDE DEF R
  <2>2. QED
    BY Zenon, ZenonT(60), <2>1, WFMin
<1>2. ASSUME NEW y \in T PROVE x <= y
  <2>1. y < x => <<y, x>> \in R
    BY DEF OpToRel
  <2>2. ~ (<<y, x>> \in R)
    BY Zenon, ZenonT(60), <1>1
  <2> HIDE DEF R
  <2>3. QED
    BY <2>1, <2>2
<1>3. QED
  BY Zenon, ZenonT(60), <1>2 DEF Min

LEMMA GreatestOne ==
  ASSUME NEW hi \in Nat, NEW T \in SUBSET (0 .. hi), T # {}
  PROVE  Max(T) \in T /\ \A i \in T : i <= Max(T)
<1> DEFINE U == {hi - x : x \in T}
<1>1. U \in SUBSET Nat /\ U # {}
  OBVIOUS
<1>2. Min(U) \in U /\ \A i \in U : Min(U) <= i
  <2> HIDE DEF U
  <2>1. QED
    BY <1>1, LeastOne
<1>3. PICK x \in T : Min(U) = hi - x
  BY Zenon, ZenonT(60), <1>2
<1>4. ASSUME NEW y \in T PROVE x >= y
  <2>1. hi - x <= hi - y
    BY Zenon, ZenonT(60), <1>2, <1>3
  <2>2. x \in Int /\ y \in Int
    OBVIOUS
  <2>3. QED
    BY <2>1, <2>2
<1>5. QED
  BY Zenon, ZenonT(60), <1>4 DEF Max

(* The end of the server list, from place n on. *)
From(n) == SubSeq(serverlist, n, L)
Places(a, b) == {serverlist[i] : i \in a .. b}

LEMMA FromOK ==
  ASSUME NEW n \in 1 .. L + 1
  PROVE  /\ From(n) \in Seq(Server) /\ Len(From(n)) = L - n + 1
         /\ \A i \in 1 .. L - n + 1 : From(n)[i] = serverlist[n + i - 1]
         /\ Range(From(n)) = Places(n, L)
<1> DEFINE f == From(n)
<1>9. n \in Int /\ L \in Int
  BY ListOK
<1>1. /\ f \in Seq(Server) /\ Len(f) = IF n <= L THEN L - n + 1 ELSE 0
      /\ \A i \in 1 .. L - n + 1 : f[i] = serverlist[n + i - 1]
  <2>1. \A i \in n .. L : serverlist[i] \in Server
    BY ListOK
  <2>2. QED
    BY <2>1, <1>9, SubSeqProperties DEF From
<1> HIDE DEF f
<1>2. Len(f) = L - n + 1
  BY <1>1, ListOK
<1>3. Range(f) = {f[i] : i \in 1 .. L - n + 1}
  BY <1>1, <1>2 DEF Range
<1>4. {f[i] : i \in 1 .. L - n + 1} = Places(n, L)
  <2>1. ASSUME NEW i \in n .. L PROVE serverlist[i] \in {f[j] : j \in 1 .. L - n + 1}
    <3>1. i - n + 1 \in 1 .. L - n + 1 /\ n + (i - n + 1) - 1 = i
      BY ListOK
    <3>2. QED
      BY <1>1, <3>1
  <2>2. ASSUME NEW i \in 1 .. L - n + 1 PROVE f[i] \in Places(n, L)
    <3>1. n + i - 1 \in n .. L
      BY ListOK
    <3>2. QED
      BY <1>1, <3>1 DEF Places
  <2>3. QED
    BY <2>1, <2>2 DEF Places
<1>5. QED
  BY <1>1, <1>2, <1>3, <1>4 DEF f

LEMMA SplitOK ==
  ASSUME NEW n \in 1 .. L + 1, NEW k \in 0 .. L - n + 1
  PROVE  /\ SubSeq(From(n), k + 1, Len(From(n))) = From(n + k)
         /\ Range(SubSeq(From(n), 1, k)) = Places(n, n + k - 1)
<1> DEFINE f == From(n)
           a == k + 1
           b == L - n + 1
           g == SubSeq(f, a, b)
           h == SubSeq(f, 1, k)
<1>1. /\ f \in Seq(Server) /\ Len(f) = L - n + 1 /\ L \in Nat
      /\ \A i \in 1 .. L - n + 1 : f[i] = serverlist[n + i - 1] /\ f[i] \in Server
  <2>1. \A i \in 1 .. L - n + 1 : n + i - 1 \in 1 .. L
    BY ListOK
  <2>2. QED
    BY Zenon, ZenonT(60), <2>1, FromOK, ListOK
<1> HIDE DEF f
<1>2. g = From(n + k)
  <2>1. n + k \in 1 .. L + 1
    BY <1>1
  <2>2. /\ From(n + k) \in Seq(Server) /\ Len(From(n + k)) = L - (n + k) + 1
        /\ \A i \in 1 .. L - (n + k) + 1 : From(n + k)[i] = serverlist[n + k + i - 1]
    BY <2>1, FromOK
  <2>3. /\ g \in Seq(Server) /\ Len(g) = IF a <= b THEN b - a + 1 ELSE 0
        /\ \A i \in 1 .. b - a + 1 : g[i] = f[a + i - 1]
    <3>1. a \in Int /\ b \in Int /\ \A i \in a .. b : f[i] \in Server
      BY <1>1
    <3> HIDE DEF a, b
    <3>2. QED
      BY <3>1, SubSeqProperties
  <2> HIDE DEF g
  <2>4. Len(g) = Len(From(n + k))
    BY <1>1, <2>2, <2>3
  <2>5. ASSUME NEW i \in 1 .. Len(g) PROVE g[i] = From(n + k)[i]
    <3>1. i \in 1 .. L - (n + k) + 1
      BY <2>2, <2>4
    <3>2. k + i \in 1 .. L - n + 1 /\ a + i - 1 = k + i /\ i \in 1 .. b - a + 1
      BY <1>1, <3>1
    <3>3. g[i] = f[k + i]
      BY <2>3, <3>2
    <3>4. f[k + i] = serverlist[n + (k + i) - 1]
      BY <1>1, <3>2
    <3>5. n + (k + i) - 1 = n + k + i - 1
      BY <3>1
    <3>6. QED
      BY <2>2, <3>1, <3>3, <3>4, <3>5
  <2>6. QED
    BY <2>2, <2>3, <2>4, <2>5, SeqEqual
<1>3. Range(h) = Places(n, n + k - 1)
  <2>1. /\ h \in Seq(Server) /\ Len(h) = (IF 1 <= k THEN k - 1 + 1 ELSE 0)
        /\ \A i \in 1 .. k - 1 + 1 : h[i] = f[1 + i - 1]
    <3>1. \A i \in 1 .. k : f[i] \in Server
      BY <1>1
    <3>2. k \in Int
      BY <1>1
    <3>3. QED
      BY <3>1, <3>2, SubSeqProperties
  <2> HIDE DEF h
  <2>2. Len(h) = k /\ \A i \in 1 .. k : h[i] = serverlist[n + i - 1]
    BY <1>1, <2>1
  <2>3. Range(h) = {h[i] : i \in 1 .. k}
    BY <2>1, <2>2 DEF Range
  <2>4. ASSUME NEW i \in n .. n + k - 1 PROVE serverlist[i] \in {h[j] : j \in 1 .. k}
    <3>1. i - n + 1 \in 1 .. k /\ n + (i - n + 1) - 1 = i
      BY <1>1
    <3>2. QED
      BY Zenon, ZenonT(60), <2>2, <3>1
  <2>5. ASSUME NEW i \in 1 .. k PROVE h[i] \in Places(n, n + k - 1)
    <3>1. n + i - 1 \in n .. n + k - 1
      BY <1>1
    <3>2. QED
      BY <2>2, <3>1 DEF Places
  <2>6. QED
    BY <2>3, <2>4, <2>5 DEF Places
<1>4. QED
  BY <1>1, <1>2, <1>3 DEF f

-----------------------------------------------------------------------------
(* What the decisions of the updater change. *)
SameTables(v, x) ==
  /\ x.mode = v.mode /\ x.must_query = v.must_query /\ x.empty = v.empty
  /\ x.bad = v.bad /\ x.with_shares = v.with_shares

Asks(v, x) ==
  /\ Range(x.extra) \subseteq Range(v.extra)
  /\ x.outstanding = v.outstanding \union (Range(v.extra) \ Range(x.extra))

LEMMA UpdaterFields ==
  ASSUME NEW v \in UpdaterType
  PROVE  /\ v.mode \in Mode /\ v.outstanding \subseteq Server /\ v.must_query \subseteq Server
         /\ v.empty \subseteq Server /\ v.bad \subseteq Server /\ v.with_shares \subseteq Server
         /\ v.completed \in Nat /\ v.need_privkey \in BOOLEAN /\ v.running \in BOOLEAN
         /\ \E m \in 1 .. L + 1 : v.extra = From(m)
         /\ Cardinality(v.outstanding) \in Nat
<1>1. /\ v.mode \in Mode /\ v.outstanding \subseteq Server /\ v.must_query \subseteq Server
      /\ v.empty \subseteq Server /\ v.bad \subseteq Server /\ v.with_shares \subseteq Server
      /\ v.completed \in Nat /\ v.need_privkey \in BOOLEAN /\ v.running \in BOOLEAN
  BY DEF UpdaterType
<1>2. \E m \in 1 .. L + 1 : v.extra = From(m)
  BY DEF UpdaterType, From, L
<1>3. Cardinality(v.outstanding) \in Nat
  BY <1>1, ServerFinite, FS_Subset, FS_CardinalityType
<1>4. QED
  BY <1>1, <1>2, <1>3

LEMMA HowManyMore ==
  ASSUME NEW a \in Nat, NEW b \in Int
  PROVE  Min({a, Max({0, b})}) \in 0 .. a
<1>1. \E x \in {0, b} : \A y \in {0, b} : x >= y
  OBVIOUS
<1> DEFINE c == Max({0, b})
<1>2. c \in {0, b} /\ \A y \in {0, b} : c >= y
  BY Zenon, ZenonT(60), <1>1 DEF Max
<1>3. c \in Nat
  BY <1>2
<1> HIDE DEF c
<1>4. {a, c} \in SUBSET Nat /\ {a, c} # {}
  BY <1>3
<1>5. Min({a, c}) \in {a, c} /\ \A i \in {a, c} : Min({a, c}) <= i
  BY <1>4, LeastOne
<1>6. Min({a, c}) \in 0 .. a
  BY <1>3, <1>5
<1>7. QED
  BY <1>6 DEF c

LEMMA SentMore ==
  ASSUME NEW v \in UpdaterType, NEW n \in Nat, NEW x, x = send_more_queries(v, n)
  PROVE  x \in UpdaterType /\ SameTables(v, x) /\ Asks(v, x) /\ x.running = v.running
<1>1. PICK m \in 1 .. L + 1 : v.extra = From(m)
  BY UpdaterFields
<1> DEFINE room == n - Cardinality(v.outstanding)
           more == Min({Len(v.extra), Max({0, room})})
           first == Range(SubSeq(v.extra, 1, more))
           rest == SubSeq(v.extra, more + 1, Len(v.extra))
<1>2. x = [v EXCEPT !.outstanding = v.outstanding \union first, !.extra = rest]
  BY Zenon, ZenonT(60) DEF send_more_queries
<1>3. Len(v.extra) = L - m + 1 /\ L \in Nat /\ Range(v.extra) = Places(m, L)
  BY <1>1, FromOK, ListOK
<1>4. Len(v.extra) \in Nat /\ room \in Int
  BY <1>3, UpdaterFields
<1>5. more \in 0 .. L - m + 1
  <2> HIDE DEF room
  <2>1. QED
    BY <1>3, <1>4, HowManyMore
<1> HIDE DEF more
<1>6. rest = From(m + more) /\ first = Places(m, m + more - 1)
  BY <1>1, <1>5, SplitOK
<1>7. m + more \in 1 .. L + 1
  BY <1>3, <1>5
<1>8. Range(rest) = Places(m + more, L)
  BY Zenon, ZenonT(60), <1>6, <1>7, FromOK
<1> HIDE DEF rest, first
<1>9. Range(rest) \subseteq Range(v.extra) /\ first \subseteq Server
  BY <1>3, <1>5, <1>6, <1>8, ListOK DEF Places
<1>10. first = Range(v.extra) \ Range(rest)
  <2>1. ASSUME NEW i \in m .. L PROVE serverlist[i] \in first <=> ~ (serverlist[i] \in Range(rest))
    <3>1. i \in 1 .. L /\ (i \in m .. m + more - 1 \/ i \in m + more .. L) /\ m + more - 1 <= L
      BY <1>3, <1>5
    <3>2. \A j \in m .. m + more - 1 : j \in 1 .. L
      BY <1>3, <1>5
    <3>3. \A j \in m + more .. L : j \in 1 .. L
      BY <1>3, <1>5
    <3>4. \A j \in m .. m + more - 1, k \in m + more .. L : j # k
      BY <1>3, <1>5
    <3>5. QED
      BY <1>6, <1>8, <3>1, <3>2, <3>3, <3>4, ListOK DEF Places
  <2>2. first \subseteq Places(m, L)
    BY <1>3, <1>5, <1>6 DEF Places
  <2>3. QED
    BY <1>3, <2>1, <2>2 DEF Places
<1>11. /\ x.outstanding = v.outstanding \union first /\ x.extra = rest /\ SameTables(v, x)
       /\ x.running = v.running /\ x.completed = v.completed /\ x.need_privkey = v.need_privkey
       /\ x = [mode |-> x.mode, outstanding |-> x.outstanding, extra |-> x.extra,
                must_query |-> x.must_query, empty |-> x.empty, bad |-> x.bad,
                with_shares |-> x.with_shares, completed |-> x.completed,
                need_privkey |-> x.need_privkey, running |-> x.running]
  BY Zenon, ZenonT(60), <1>2 DEF UpdaterType, SameTables
<1>12. x \in UpdaterType
  <2>1. x.extra \in {SubSeq(serverlist, i, Len(serverlist)) : i \in 1 .. Len(serverlist) + 1}
    BY Zenon, ZenonT(60), <1>6, <1>7, <1>11 DEF From, L
  <2>2. x.outstanding \subseteq Server
    BY <1>9, <1>11, UpdaterFields
  <2>3. QED
    BY Zenon, ZenonT(60), <1>11, <2>1, <2>2, UpdaterFields DEF UpdaterType, SameTables
<1>13. QED
  BY <1>9, <1>10, <1>11, <1>12 DEF Asks

LEMMA BoundaryOK ==
  ASSUME NEW v, boundaries(v) # {}
  PROVE  /\ Min(boundaries(v)) \in boundaries(v) /\ Min(boundaries(v)) \in 1 .. L
         /\ not_responded(v) = Standing(v, 1, Min(boundaries(v)), "?")
         /\ Cardinality(not_responded(v)) \in Nat
<1> DEFINE b == Min(boundaries(v))
<1>1. boundaries(v) \subseteq 1 .. L
  BY DEF boundaries, Standing, L
<1>2. b \in boundaries(v)
  BY <1>1, ListOK, LeastOne
<1>3. b \in 1 .. L
  BY <1>1, <1>2
<1>4. not_responded(v) = Standing(v, 1, b, "?")
  BY DEF not_responded
<1> HIDE DEF b
<1>5. Cardinality(Standing(v, 1, b, "?")) \in Nat
  <2>1. Standing(v, 1, b, "?") \in SUBSET (1 .. b)
    BY DEF Standing
  <2>2. IsFiniteSet(1 .. b)
    BY <1>3, ListOK, FS_Interval
  <2>3. QED
    BY Zenon, ZenonT(60), <2>1, <2>2, FS_Subset, FS_CardinalityType
<1>6. QED
  BY <1>2, <1>3, <1>4, <1>5 DEF b

(* _check_for_done asks more servers, or ends the update, or does nothing. *)
LEMMA CheckOK ==
  ASSUME NEW v \in UpdaterType, NEW m, NEW x, x = check_for_done(v, m)
  PROVE  /\ x \in UpdaterType /\ SameTables(v, x) /\ Asks(v, x)
         /\ x.running => v.running
         /\ ~ v.running => x = v
         /\ v.running /\ ~ x.running =>
              v.must_query = {} /\ finished(v, m) /\ x.outstanding = v.outstanding /\ x.extra = v.extra
<1>1. CASE x = v
  BY <1>1 DEF SameTables, Asks
<1>2. CASE /\ v.running /\ v.must_query = {} /\ finished(v, m)
           /\ x = [v EXCEPT !.running = FALSE]
  <2>1. x \in UpdaterType
    BY Zenon, ZenonT(60), <1>2 DEF UpdaterType
  <2>2. x.outstanding = v.outstanding /\ x.extra = v.extra /\ SameTables(v, x)
    BY <1>2 DEF UpdaterType, SameTables
  <2>3. QED
    BY <1>2, <2>1, <2>2 DEF Asks
<1>3. ASSUME v.running, NEW n \in Nat, x = send_more_queries(v, n)
      PROVE  x \in UpdaterType /\ SameTables(v, x) /\ Asks(v, x) /\ x.running
  BY Zenon, ZenonT(60), <1>3, SentMore
<1>4. CASE v.running /\ found_boundary(v, m) /\ x = send_more_queries(v, Cardinality(not_responded(v)))
  <2>1. Cardinality(not_responded(v)) \in Nat
    BY <1>4, BoundaryOK DEF found_boundary
  <2>2. QED
    BY Zenon, ZenonT(60), <1>3, <1>4, <2>1
<1>5. CASE v.running /\ x = send_more_queries(v, MAX_IN_FLIGHT)
  <2>1. MAX_IN_FLIGHT \in Nat
    BY DEF MAX_IN_FLIGHT
  <2>2. QED
    BY Zenon, ZenonT(60), <1>3, <1>5, <2>1
<1>6. QED
  BY Zenon, ZenonT(60), <1>1, <1>2, <1>4, <1>5 DEF check_for_done

(* ServermapUpdater.update: every server is asked at once or later. *)
LEMMA UpdateOK ==
  ASSUME NEW mode \in Mode, NEW m, NEW pk \in BOOLEAN, NEW x, x = update(mode, m, pk)
  PROVE  /\ x \in UpdaterType /\ x.running /\ x.mode = mode
         /\ x.outstanding \union Range(x.extra) = Server /\ x.must_query \subseteq x.outstanding
         /\ x.empty = {} /\ x.bad = {} /\ x.with_shares = {}
         /\ mode \in {"MODE_CHECK", "MODE_REPAIR"} => x.must_query = Server
<1> DEFINE t == Taken(mode, m)
           all == all_servers(m)
           everyone == mode \in {"MODE_CHECK", "MODE_REPAIR"}
<1>1. t \in 0 .. L
  <2> DEFINE enough == {n \in 0 .. L : Cardinality(all \union Range(SubSeq(serverlist, 1, n)))
                                         >= num_servers_to_query(mode)}
  <2>1. t = IF enough = {} THEN L ELSE Min(enough)
    BY Zenon, ZenonT(60) DEF Taken, L
  <2>2. enough \in SUBSET (0 .. L)
    OBVIOUS
  <2> HIDE DEF enough, t
  <2>3. QED
    BY <2>1, <2>2, ListOK, LeastOne
<1>2. all \subseteq Server
  BY DEF all_servers, get_known_shares, Slot
<1>3. /\ From(1) = serverlist /\ Range(SubSeq(serverlist, 1, t)) = Places(1, t)
      /\ From(t + 1) = SubSeq(serverlist, t + 1, L) /\ Range(From(t + 1)) = Places(t + 1, L)
  <2>1. From(1) = serverlist
    BY ServerMapAssumption, SubSeqFull DEF From, L
  <2>2. 1 \in 1 .. L + 1 /\ t \in 0 .. L - 1 + 1 /\ 1 + t - 1 = t /\ t + 1 \in 1 .. L + 1
    BY <1>1, ListOK
  <2> HIDE DEF t
  <2>3. Range(SubSeq(From(1), 1, t)) = Places(1, 1 + t - 1)
    BY <2>2, SplitOK
  <2>4. Range(From(t + 1)) = Places(t + 1, L)
    BY <2>2, FromOK
  <2>5. QED
    BY Zenon, ZenonT(60), <2>1, <2>2, <2>3, <2>4 DEF From
<1>4. Places(1, t) \union Places(t + 1, L) = Server
  BY <1>1, ListOK DEF Places
<1>5. From(L + 1) = <<>> /\ Range(<<>>) = {}
  <2>1. From(L + 1) = <<>>
    BY ListOK, SubSeqEmpty DEF From
  <2>2. QED
    BY <2>1 DEF Range
<1> HIDE DEF t, all
<1>6. x = [mode |-> mode,
           outstanding |-> IF everyone THEN Server ELSE all \union Range(SubSeq(serverlist, 1, t)),
           extra |-> IF everyone THEN <<>> ELSE SubSeq(serverlist, t + 1, L),
           must_query |-> IF everyone THEN Server ELSE all,
           empty |-> {}, bad |-> {}, with_shares |-> {}, completed |-> 0,
           need_privkey |-> mode \in {"MODE_WRITE", "MODE_REPAIR"} /\ ~ pk, running |-> TRUE]
  BY Zenon, ZenonT(60) DEF update, AskedFirst, t, all, L
<1> HIDE DEF everyone
<1>7. /\ x.mode = mode /\ x.running /\ x.empty = {} /\ x.bad = {} /\ x.with_shares = {}
      /\ x.outstanding = IF everyone THEN Server ELSE all \union Places(1, t)
      /\ x.extra = IF everyone THEN From(L + 1) ELSE From(t + 1)
      /\ x.must_query = IF everyone THEN Server ELSE all
  <2>1. /\ x.mode = mode /\ x.running /\ x.empty = {} /\ x.bad = {} /\ x.with_shares = {}
        /\ x.outstanding = IF everyone THEN Server ELSE all \union Range(SubSeq(serverlist, 1, t))
        /\ x.extra = IF everyone THEN <<>> ELSE SubSeq(serverlist, t + 1, L)
        /\ x.must_query = IF everyone THEN Server ELSE all
    BY <1>6
  <2>2. QED
    BY Zenon, ZenonT(60), <1>3, <1>5, <2>1
<1>8. \E n \in 1 .. L + 1 : x.extra = SubSeq(serverlist, n, L)
  <2>1. L + 1 \in 1 .. L + 1 /\ t + 1 \in 1 .. L + 1
    BY <1>1, ListOK
  <2>2. QED
    BY Zenon, ZenonT(60), <1>7, <2>1 DEF From
<1>9. x.outstanding \subseteq Server /\ x.must_query \subseteq Server
  BY <1>2, <1>4, <1>7
<1>10. x \in UpdaterType
  <2>1. x.extra \in {SubSeq(serverlist, n, Len(serverlist)) : n \in 1 .. Len(serverlist) + 1}
    BY Zenon, ZenonT(60), <1>8 DEF L
  <2> DEFINE need == mode \in {"MODE_WRITE", "MODE_REPAIR"} /\ ~ pk
  <2>2. need \in BOOLEAN
    BY Zenon, ZenonT(60)
  <2>3. x = [mode |-> x.mode, outstanding |-> x.outstanding, extra |-> x.extra,
             must_query |-> x.must_query, empty |-> x.empty, bad |-> x.bad,
             with_shares |-> x.with_shares, completed |-> x.completed,
             need_privkey |-> x.need_privkey, running |-> x.running]
    BY <1>6
  <2>6. x.need_privkey = need /\ x.running = TRUE /\ x.completed = 0
    <3> HIDE DEF need
    <3>1. QED
      BY <1>6 DEF need
  <2>7. x.need_privkey \in BOOLEAN /\ x.running \in BOOLEAN /\ x.completed \in Nat
    <3> HIDE DEF need
    <3>1. x.need_privkey \in BOOLEAN /\ x.running \in BOOLEAN
      BY Zenon, ZenonT(60), <2>2, <2>6
    <3>2. QED
      BY <2>6, <3>1
  <2> HIDE DEF need
  <2>4. /\ x.mode \in Mode /\ x.outstanding \in SUBSET Server /\ x.must_query \in SUBSET Server
        /\ x.empty \in SUBSET Server /\ x.bad \in SUBSET Server /\ x.with_shares \in SUBSET Server
    BY <1>7, <1>9
  <2>5. QED
    BY <2>1, <2>3, <2>4, <2>7 DEF UpdaterType
<1>11. x.outstanding \union Range(x.extra) = Server
  BY <1>2, <1>3, <1>4, <1>5, <1>7
<1>12. QED
  BY <1>7, <1>10, <1>11 DEF everyone

-----------------------------------------------------------------------------
(***************************************************************************)
(* The inductive invariant.  While the update runs, every server is still  *)
(* to be asked, awaited, or heard from; those that must answer have or are *)
(* awaited; and what the tables say of a server is what it answered.  The  *)
(* tables are exact as long as no answer is validated share by share.      *)
(***************************************************************************)
HeardIn(q, s) == \E n \in {1, 2} : q[<<s, n>>].state \in {"over", "failed"}
HasIn(q, s) == \E n \in {1, 2} : q[<<s, n>>].answer # NoAnswer
EmptyIn(q, s) == \E n \in {1, 2} : q[<<s, n>>].state = "over" /\ q[<<s, n>>].answer = NoAnswer
AwaitedIn(q, s) == \E n \in {1, 2} : q[<<s, n>>].state \in {"flight", "working"}
NoneAlone(q) == \A p \in Query : ~ q[p].alone

RequestOK(r) ==
  /\ DOMAIN r = DOMAIN Unsent
  /\ \A sh \in r.todo : sh \in Share /\ r.answer[sh] # NoShare
  /\ r.todo # {} => r.state = "working"
  /\ r.state \in {"unsent", "flight"} => r.answer = NoAnswer /\ ~ r.alone

Tables(v, q) ==
  /\ \A s \in Server : s \in Range(v.extra) \/ s \in v.outstanding \/ HeardIn(q, s)
  /\ v.mode \in {"MODE_CHECK", "MODE_REPAIR"} => \A s \in Server : s \in v.must_query \/ HeardIn(q, s)
  /\ \A s \in v.bad \union v.empty \union v.with_shares : HeardIn(q, s)
  /\ \A s \in v.empty : EmptyIn(q, s)
  /\ \A s \in v.with_shares : HasIn(q, s)

(* The shares of an answer that were validated are in the map or bad. *)
AnswerKept(r, s, m, b) ==
  \A sh \in Share : r.answer[sh] # NoShare /\ sh \notin r.todo
                      => m[<<s, sh>>] # NoShare \/ b[<<s, sh>>] # NoShare

Silent(q) == {i \in 1 .. L : ~ HeardIn(q, serverlist[i])}

Promise(mode, q, m) ==
  \/ Silent(q) = {}
  \/ /\ mode = "MODE_WRITE" /\ recoverable_versions(m) # {}
     /\ \E f \in 1 .. Min(Silent(q)) - 1 :
           /\ HasIn(q, serverlist[f])
           /\ Cardinality({i \in f + 1 .. Min(Silent(q)) - 1 : EmptyIn(q, serverlist[i])}) >= EPSILON
  \/ mode \in {"MODE_READ", "MODE_ANYTHING"} /\ recoverable_versions(m) # {}

MapOK(m, b) ==
  /\ DOMAIN m = Slot /\ DOMAIN b = Slot
  /\ \A p \in Slot : m[p] = NoShare \/ b[p] = NoShare

UInv(v, q, m, b) ==
  /\ v \in UpdaterType /\ MapOK(m, b)
  /\ DOMAIN q = Query /\ \A p \in Query : RequestOK(q[p])
  /\ \A s \in Range(v.extra) : q[<<s, 2>>].state = "unsent"
  /\ v.running => \A s \in v.outstanding \union v.must_query : AwaitedIn(q, s)
  /\ \A p \in Query : q[p].state = "over" \/ (v.running /\ q[p].state = "working")
                         => AnswerKept(q[p], p[1], m, b)
  /\ v.running /\ NoneAlone(q) => Tables(v, q)
  /\ ~ v.running /\ NoneAlone(q) => Promise(v.mode, q, m)

SInv == UInv(u, query, map, bad_shares)

(* An update that ends knows what its mode promises. *)
LEMMA EndsKnowing ==
  ASSUME NEW v \in UpdaterType, NEW q, NEW m,
         Tables(v, q), v.must_query = {}, finished(v, m)
  PROVE  Promise(v.mode, q, m)
<1>1. CASE Silent(q) = {}
  BY <1>1 DEF Promise
<1>2. CASE v.outstanding = {} /\ v.extra = <<>>
  <2>1. Range(v.extra) = {}
    BY <1>2 DEF Range
  <2>2. \A i \in 1 .. L : HeardIn(q, serverlist[i])
    BY Zenon, ZenonT(60), <1>2, <2>1, ListOK DEF Tables
  <2>3. QED
    BY Zenon, ZenonT(60), <1>1, <2>2 DEF Silent
<1>3. CASE v.mode \in {"MODE_READ", "MODE_ANYTHING"} /\ recoverable_versions(m) # {}
  BY <1>3 DEF Promise
<1>4. CASE v.mode \in {"MODE_CHECK", "MODE_REPAIR"}
  <2>2. \A i \in 1 .. L : HeardIn(q, serverlist[i])
    BY Zenon, ZenonT(60), <1>4, ListOK DEF Tables
  <2>3. QED
    BY Zenon, ZenonT(60), <1>1, <2>2 DEF Silent
<1>5. CASE Silent(q) # {} /\ found_boundary(v, m) /\ not_responded(v) = {}
  <2> DEFINE b == Min(boundaries(v))
             found == Standing(v, 1, b, "1")
             f == Max(found)
             t == Min(Silent(q))
             before == Standing(v, f, b, "0")
             after == {i \in f + 1 .. t - 1 : EmptyIn(q, serverlist[i])}
  <2>1. b \in boundaries(v) /\ b \in 1 .. L /\ Standing(v, 1, b, "?") = {}
    BY <1>5, BoundaryOK DEF found_boundary
  <2>2. found # {} /\ Cardinality(before) >= EPSILON
    BY Zenon, ZenonT(60), <2>1 DEF boundaries
  <2> HIDE DEF b
  <2>3. t \in 1 .. L /\ ~ HeardIn(q, serverlist[t])
    <3>1. Silent(q) \in SUBSET Nat
      BY DEF Silent
    <3>2. t \in Silent(q)
      BY <1>5, <3>1, LeastOne
    <3> HIDE DEF t
    <3>3. QED
      BY Zenon, ZenonT(60), <3>2 DEF Silent
  <2>4. \A i \in 1 .. b : HeardIn(q, serverlist[i])
    <3>1. \A i \in 1 .. b : standing(v, serverlist[i]) # "?"
      BY Zenon, ZenonT(60), <2>1 DEF Standing
    <3>2. \A i \in 1 .. b : serverlist[i] \in v.bad \union v.empty \union v.with_shares
      BY Zenon, ZenonT(60), <3>1 DEF standing
    <3>3. QED
      BY Zenon, ZenonT(60), <3>2 DEF Tables
  <2> HIDE DEF t
  <2>5. b < t
    BY <2>1, <2>3, <2>4, ListOK
  <2>6. f \in found
    <3>1. found \in SUBSET (0 .. b) /\ b \in Nat
      BY <2>1, ListOK DEF Standing
    <3> HIDE DEF found
    <3>2. QED
      BY Zenon, ZenonT(60), <2>2, <3>1, GreatestOne
  <2>7. f \in 1 .. b /\ standing(v, serverlist[f]) = "1"
    <3> HIDE DEF f
    <3>1. QED
      BY <2>6 DEF Standing
  <2> HIDE DEF found, f
  <2>8. before \subseteq after
    <3>1. ASSUME NEW i \in before PROVE i \in f + 1 .. t - 1 /\ EmptyIn(q, serverlist[i])
      <4>1. i \in f .. b /\ standing(v, serverlist[i]) = "0"
        BY DEF Standing
      <4>2. i # f
        BY <2>7, <4>1
      <4>3. i \in f + 1 .. t - 1
        BY <2>1, <2>3, <2>5, <2>7, <4>1, <4>2
      <4>4. serverlist[i] \in v.empty
        BY <4>1 DEF standing
      <4>5. QED
        BY Zenon, ZenonT(60), <4>3, <4>4 DEF Tables
    <3>2. QED
      BY Zenon, ZenonT(60), <3>1
  <2>9. Cardinality(after) >= EPSILON
    <3>1. IsFiniteSet(f + 1 .. t - 1)
      BY <2>3, <2>7, FS_Interval
    <3>2. IsFiniteSet(after)
      BY Zenon, ZenonT(60), <3>1, FS_Subset
    <3> HIDE DEF before, after
    <3>3. IsFiniteSet(before) /\ Cardinality(before) <= Cardinality(after)
      BY <2>8, <3>2, FS_Subset
    <3>4. Cardinality(before) \in Nat /\ Cardinality(after) \in Nat
      BY <3>2, <3>3, FS_CardinalityType
    <3>5. EPSILON \in Nat
      BY ServerMapAssumption DEF EPSILON
    <3>6. QED
      BY <2>2, <3>3, <3>4, <3>5
  <2>10. HasIn(q, serverlist[f]) /\ f \in 1 .. t - 1
    <3>1. serverlist[f] \in v.with_shares
      BY <2>7 DEF standing
    <3>2. HasIn(q, serverlist[f])
      BY Zenon, ZenonT(60), <3>1 DEF Tables
    <3>3. QED
      BY <2>1, <2>3, <2>5, <2>7, <3>2
  <2>11. v.mode = "MODE_WRITE" /\ recoverable_versions(m) # {}
    BY <1>5 DEF found_boundary
  <2>12. QED
    BY Zenon, ZenonT(60), <2>9, <2>10, <2>11 DEF Promise, t
<1>6. QED
  BY Zenon, ZenonT(60), <1>1, <1>2, <1>3, <1>4, <1>5 DEF finished, read_satisfied

(* Answers that come in after the end take nothing from that knowledge. *)
LEMMA StaysKnown ==
  ASSUME NEW mode, NEW q, NEW r, NEW m, Promise(mode, q, m),
         \A s \in Server : /\ HeardIn(q, s) => HeardIn(r, s)
                           /\ HasIn(q, s) => HasIn(r, s)
                           /\ EmptyIn(q, s) => EmptyIn(r, s)
  PROVE  Promise(mode, r, m)
<1>1. Silent(r) \subseteq Silent(q)
  BY Zenon, ZenonT(60), ListOK DEF Silent
<1>2. CASE Silent(r) = {}
  BY <1>2 DEF Promise
<1>3. CASE mode \in {"MODE_READ", "MODE_ANYTHING"} /\ recoverable_versions(m) # {}
  BY <1>3 DEF Promise
<1>4. CASE Silent(r) # {} /\ ~ (mode \in {"MODE_READ", "MODE_ANYTHING"} /\ recoverable_versions(m) # {})
  <2> DEFINE t == Min(Silent(q))
             w == Min(Silent(r))
             was(f) == {i \in f + 1 .. t - 1 : EmptyIn(q, serverlist[i])}
             is(f) == {i \in f + 1 .. w - 1 : EmptyIn(r, serverlist[i])}
  <2>1. Silent(q) # {}
    BY <1>1, <1>4
  <2>2. /\ mode = "MODE_WRITE" /\ recoverable_versions(m) # {}
        /\ \E f \in 1 .. t - 1 : HasIn(q, serverlist[f]) /\ Cardinality(was(f)) >= EPSILON
    BY Zenon, ZenonT(60), <1>4, <2>1 DEF Promise
  <2>3. t \in 1 .. L /\ w \in 1 .. L /\ t <= w
    <3>1. Silent(q) \in SUBSET Nat /\ Silent(r) \in SUBSET Nat
      BY DEF Silent
    <3>2. w \in Silent(r)
      BY <1>4, <3>1, LeastOne
    <3>3. t \in Silent(q) /\ \A i \in Silent(q) : t <= i
      BY <2>1, <3>1, LeastOne
    <3> HIDE DEF t, w
    <3>4. t <= w
      BY Zenon, ZenonT(60), <1>1, <3>2, <3>3
    <3>5. QED
      BY Zenon, ZenonT(60), <3>2, <3>3, <3>4 DEF Silent
  <2>4. PICK f \in 1 .. t - 1 : HasIn(q, serverlist[f]) /\ Cardinality(was(f)) >= EPSILON
    BY Zenon, ZenonT(60), <2>2
  <2> HIDE DEF t, w
  <2>5. f \in 1 .. w - 1 /\ f \in 1 .. L
    BY <2>3, <2>4, ListOK
  <2>6. was(f) \subseteq is(f)
    <3>1. \A i \in f + 1 .. t - 1 : i \in f + 1 .. w - 1 /\ i \in 1 .. L
      BY <2>3, <2>5, ListOK
    <3>2. QED
      BY Zenon, ZenonT(60), <3>1, ListOK
  <2>7. Cardinality(is(f)) >= EPSILON
    <3>1. IsFiniteSet(f + 1 .. w - 1)
      BY <2>3, <2>5, FS_Interval
    <3>2. IsFiniteSet(is(f))
      BY Zenon, ZenonT(60), <3>1, FS_Subset
    <3> DEFINE before == was(f)
               after == is(f)
    <3>7. before \subseteq after /\ IsFiniteSet(after) /\ Cardinality(before) >= EPSILON
      BY <2>4, <2>6, <3>2
    <3> HIDE DEF before, after
    <3>3. IsFiniteSet(before) /\ Cardinality(before) <= Cardinality(after)
      BY <3>7, FS_Subset
    <3>4. Cardinality(before) \in Nat /\ Cardinality(after) \in Nat
      BY <3>3, <3>7, FS_CardinalityType
    <3>5. EPSILON \in Nat
      BY ServerMapAssumption DEF EPSILON
    <3>6. Cardinality(after) >= EPSILON
      BY <3>3, <3>4, <3>5, <3>7
    <3>8. QED
      BY <3>6 DEF after
  <2>8. HasIn(r, serverlist[f])
    BY Zenon, ZenonT(60), <2>4, <2>5, ListOK
  <2>9. QED
    BY Zenon, ZenonT(60), <2>2, <2>5, <2>7, <2>8 DEF Promise, w
<1>5. QED
  BY Zenon, ZenonT(60), <1>2, <1>3, <1>4

(* The queries that one decision sends. *)
LEMMA AskedMore ==
  ASSUME NEW q, DOMAIN q = Query, NEW x, NEW r, r = WithMore(q, x),
         Range(x.extra) \subseteq Range(u.extra), Range(u.extra) \subseteq Server,
         \A s \in Range(u.extra) : q[<<s, 2>>].state = "unsent"
  PROVE  /\ DOMAIN r = Query
         /\ \A p \in Query : \/ r[p] = q[p]
                             \/ /\ q[p].state = "unsent" /\ r[p] = InFlight
                                /\ p[1] \in Range(u.extra) \ Range(x.extra)
         /\ \A s \in Range(u.extra) \ Range(x.extra) : \E n \in {1, 2} : r[<<s, n>>] = InFlight
<1> DEFINE more == Range(u.extra) \ Range(x.extra)
           first == {s \in more : q[<<s, 1>>].state = "unsent"}
           q1 == [p \in Query |-> IF p[1] \in first /\ p[2] = 1 THEN InFlight ELSE q[p]]
<1>1. r = [p \in Query |-> IF p[1] \in more \ first /\ p[2] = 2 THEN InFlight ELSE q1[p]]
  BY Zenon, ZenonT(60) DEF WithMore, Sent
<1>2. more \subseteq Server
  BY Zenon, ZenonT(60)
<1>3. \A p \in Query : p[1] \in Server /\ p[2] \in {1, 2} /\ p = <<p[1], p[2]>>
  BY DEF Query
<1>4. \A p \in Query : q1[p] = IF p[1] \in first /\ p[2] = 1 THEN InFlight ELSE q[p]
  BY Zenon, ZenonT(60)
<1> HIDE DEF q1
<1>5. \A p \in Query : r[p] = IF p[1] \in more \ first /\ p[2] = 2 THEN InFlight ELSE q1[p]
  BY Zenon, ZenonT(60), <1>1
<1>6. DOMAIN r = Query
  BY Zenon, ZenonT(60), <1>1
<1>7. ASSUME NEW p \in Query
      PROVE  r[p] = q[p] \/ (q[p].state = "unsent" /\ r[p] = InFlight /\ p[1] \in more)
  <2>1. CASE p[1] \in more \ first /\ p[2] = 2
    <3>1. p = <<p[1], 2>> /\ p[1] \in Range(u.extra)
      BY <2>1, <1>3
    <3>2. q[p].state = "unsent"
      BY Zenon, ZenonT(60), <3>1
    <3>3. QED
      BY Zenon, ZenonT(60), <1>5, <2>1, <3>2
  <2>2. CASE ~ (p[1] \in more \ first /\ p[2] = 2) /\ p[1] \in first /\ p[2] = 1
    <3>1. p = <<p[1], 1>>
      BY <2>2, <1>3
    <3>2. q[p].state = "unsent"
      BY Zenon, ZenonT(60), <2>2, <3>1
    <3>3. QED
      BY Zenon, ZenonT(60), <1>4, <1>5, <2>2, <3>2
  <2>3. CASE ~ (p[1] \in more \ first /\ p[2] = 2) /\ ~ (p[1] \in first /\ p[2] = 1)
    BY Zenon, ZenonT(60), <1>4, <1>5, <2>3
  <2>4. QED
    BY Zenon, ZenonT(60), <2>1, <2>2, <2>3
<1>8. ASSUME NEW s \in more PROVE \E n \in {1, 2} : r[<<s, n>>] = InFlight
  <2>1. <<s, 1>> \in Query /\ <<s, 2>> \in Query
    BY <1>2 DEF Query
  <2>2. <<s, 1>>[1] = s /\ <<s, 1>>[2] = 1 /\ <<s, 2>>[1] = s /\ <<s, 2>>[2] = 2 /\ 1 # 2
    OBVIOUS
  <2> HIDE DEF more, first
  <2>3. CASE s \in first
    BY Zenon, ZenonT(60), <1>4, <1>5, <2>1, <2>2, <2>3
  <2>4. CASE ~ (s \in first)
    BY Zenon, ZenonT(60), <1>4, <1>5, <2>1, <2>2, <2>4
  <2>5. QED
    BY <2>3, <2>4
<1>9. QED
  BY Zenon, ZenonT(60), <1>6, <1>7, <1>8

(* Asking more servers loses nothing that was heard. *)
LEMMA NothingLost ==
  ASSUME NEW q, NEW r, \A p \in Query : RequestOK(q[p]),
         \A p \in Query : r[p] = q[p] \/ (q[p].state = "unsent" /\ r[p] = InFlight)
  PROVE  /\ \A p \in Query : RequestOK(r[p])
         /\ NoneAlone(r) => NoneAlone(q)
         /\ \A s \in Server : /\ HeardIn(q, s) => HeardIn(r, s)
                              /\ HasIn(q, s) => HasIn(r, s)
                              /\ EmptyIn(q, s) => EmptyIn(r, s)
                              /\ AwaitedIn(q, s) => AwaitedIn(r, s)
<1>1. /\ InFlight.state = "flight" /\ InFlight.answer = NoAnswer /\ InFlight.todo = {}
      /\ InFlight.alone = FALSE /\ DOMAIN InFlight = DOMAIN Unsent
  BY DEF InFlight, Unsent
<1>2. RequestOK(InFlight)
  BY <1>1 DEF RequestOK
<1>3. \A p \in Query : RequestOK(r[p])
  BY Zenon, ZenonT(60), <1>2
<1>4. \A p \in Query : q[p].state = "unsent" => q[p].answer = NoAnswer /\ ~ q[p].alone
  BY Zenon, ZenonT(60) DEF RequestOK
<1>5. NoneAlone(r) => NoneAlone(q)
  BY Zenon, ZenonT(60), <1>4 DEF NoneAlone
<1>6. \A s \in Server, n \in {1, 2} : <<s, n>> \in Query
  BY DEF Query
<1>7. ASSUME NEW p \in Query, q[p].state # "unsent" PROVE r[p] = q[p]
  BY Zenon, ZenonT(60), <1>7
<1>8. "over" # "unsent" /\ "failed" # "unsent" /\ "flight" # "unsent" /\ "working" # "unsent"
  OBVIOUS
<1>9. ASSUME NEW s \in Server, HeardIn(q, s) PROVE HeardIn(r, s)
  <2>1. PICK n \in {1, 2} : q[<<s, n>>].state \in {"over", "failed"}
    BY Zenon, ZenonT(60), <1>9 DEF HeardIn
  <2>2. r[<<s, n>>] = q[<<s, n>>]
    BY Zenon, ZenonT(60), <1>6, <1>7, <1>8, <2>1
  <2>3. QED
    BY Zenon, ZenonT(60), <2>1, <2>2 DEF HeardIn
<1>10. ASSUME NEW s \in Server, EmptyIn(q, s) PROVE EmptyIn(r, s)
  <2>1. PICK n \in {1, 2} : q[<<s, n>>].state = "over" /\ q[<<s, n>>].answer = NoAnswer
    BY Zenon, ZenonT(60), <1>10 DEF EmptyIn
  <2>2. r[<<s, n>>] = q[<<s, n>>]
    BY Zenon, ZenonT(60), <1>6, <1>7, <1>8, <2>1
  <2>3. QED
    BY Zenon, ZenonT(60), <2>1, <2>2 DEF EmptyIn
<1>11. ASSUME NEW s \in Server, AwaitedIn(q, s) PROVE AwaitedIn(r, s)
  <2>1. PICK n \in {1, 2} : q[<<s, n>>].state \in {"flight", "working"}
    BY Zenon, ZenonT(60), <1>11 DEF AwaitedIn
  <2>2. r[<<s, n>>] = q[<<s, n>>]
    BY Zenon, ZenonT(60), <1>6, <1>7, <1>8, <2>1
  <2>3. QED
    BY Zenon, ZenonT(60), <2>1, <2>2 DEF AwaitedIn
<1>12. ASSUME NEW s \in Server, HasIn(q, s) PROVE HasIn(r, s)
  <2>1. PICK n \in {1, 2} : q[<<s, n>>].answer # NoAnswer
    BY Zenon, ZenonT(60), <1>12 DEF HasIn
  <2>2. r[<<s, n>>] = q[<<s, n>>]
    BY Zenon, ZenonT(60), <1>4, <1>6, <1>7, <2>1
  <2>3. QED
    BY Zenon, ZenonT(60), <2>1, <2>2 DEF HasIn
<1>13. QED
  BY Zenon, ZenonT(60), <1>3, <1>5, <1>9, <1>10, <1>11, <1>12

(* _check_for_done and the queries it sends keep the invariant. *)
LEMMA Settled ==
  ASSUME NEW v, NEW q, NEW m, NEW b, UInv(v, q, m, b), v.extra = u.extra,
         NEW x, x = check_for_done(v, m), NEW r, r = WithMore(q, x)
  PROVE  UInv(x, r, m, b)
<1>1. v \in UpdaterType /\ MapOK(m, b) /\ DOMAIN q = Query /\ \A p \in Query : RequestOK(q[p])
  BY DEF UInv
<1>2. \A s \in Range(v.extra) : q[<<s, 2>>].state = "unsent"
  BY DEF UInv
<1>3. /\ x \in UpdaterType /\ SameTables(v, x) /\ Asks(v, x)
      /\ x.running => v.running
      /\ ~ v.running => x = v
      /\ v.running /\ ~ x.running => v.must_query = {} /\ finished(v, m)
  BY Zenon, ZenonT(60), <1>1, CheckOK
<1>4. Range(u.extra) \subseteq Server
  <2>1. PICK n \in 1 .. L + 1 : v.extra = From(n)
    BY Zenon, ZenonT(60), <1>1, UpdaterFields
  <2>2. Range(v.extra) = Places(n, L)
    BY Zenon, ZenonT(60), <2>1, FromOK
  <2>3. QED
    BY <2>2, ListOK DEF Places
<1>5. /\ DOMAIN r = Query
      /\ \A p \in Query : \/ r[p] = q[p]
                          \/ /\ q[p].state = "unsent" /\ r[p] = InFlight
                             /\ p[1] \in Range(u.extra) \ Range(x.extra)
      /\ \A s \in Range(u.extra) \ Range(x.extra) : \E n \in {1, 2} : r[<<s, n>>] = InFlight
  <2>1. Range(x.extra) \subseteq Range(u.extra)
    BY Zenon, ZenonT(60), <1>3 DEF Asks
  <2>2. \A s \in Range(u.extra) : q[<<s, 2>>].state = "unsent"
    BY Zenon, ZenonT(60), <1>2
  <2>3. QED
    BY <1>1, <1>4, <2>1, <2>2, AskedMore
<1>6. /\ \A p \in Query : RequestOK(r[p])
      /\ NoneAlone(r) => NoneAlone(q)
      /\ \A s \in Server : /\ HeardIn(q, s) => HeardIn(r, s)
                           /\ HasIn(q, s) => HasIn(r, s)
                           /\ EmptyIn(q, s) => EmptyIn(r, s)
                           /\ AwaitedIn(q, s) => AwaitedIn(r, s)
  <2>1. \A p \in Query : r[p] = q[p] \/ (q[p].state = "unsent" /\ r[p] = InFlight)
    BY Zenon, ZenonT(60), <1>5
  <2>2. \A p \in Query : RequestOK(q[p])
    BY Zenon, ZenonT(60), <1>1
  <2>3. QED
    BY SMTT(30), <2>1, <2>2, NothingLost
<1>7. InFlight.state = "flight"
  BY DEF InFlight, Unsent
<1>8. ASSUME NEW s \in Range(x.extra) PROVE r[<<s, 2>>].state = "unsent"
  <2>1. s \in Range(u.extra) /\ s \in Server
    BY Zenon, ZenonT(60), <1>3, <1>4 DEF Asks
  <2>2. <<s, 2>> \in Query /\ <<s, 2>>[1] = s
    BY <2>1 DEF Query
  <2>3. QED
    BY Zenon, ZenonT(60), <1>2, <1>5, <2>1, <2>2
<1>9. ASSUME x.running, NEW s \in x.outstanding \union x.must_query PROVE AwaitedIn(r, s)
  <2>1. \/ s \in v.outstanding \union v.must_query
        \/ s \in Range(u.extra) \ Range(x.extra)
    BY Zenon, ZenonT(60), <1>3 DEF SameTables, Asks
  <2>2. CASE s \in v.outstanding \union v.must_query
    <3>1. AwaitedIn(q, s)
      BY Zenon, ZenonT(60), <1>3, <1>9, <2>2 DEF UInv
    <3>2. s \in Server
      BY Zenon, ZenonT(60), <1>1, <2>2, UpdaterFields
    <3>3. QED
      BY Zenon, ZenonT(60), <1>6, <3>1, <3>2
  <2>3. CASE s \in Range(u.extra) \ Range(x.extra)
    BY Zenon, ZenonT(60), <1>5, <1>7, <2>3 DEF AwaitedIn
  <2>4. QED
    BY <2>1, <2>2, <2>3
<1>10. ASSUME NEW p \in Query, r[p].state = "over" \/ (x.running /\ r[p].state = "working")
       PROVE  AnswerKept(r[p], p[1], m, b)
  <2>1. "over" # "flight" /\ "working" # "flight"
    OBVIOUS
  <2>2. r[p] = q[p]
    BY Zenon, ZenonT(60), <1>5, <1>7, <1>10, <2>1
  <2>3. QED
    BY Zenon, ZenonT(60), <1>3, <1>10, <2>2 DEF UInv
<1>11. ASSUME x.running, NoneAlone(r) PROVE Tables(x, r)
  <2>1. Tables(v, q)
    BY Zenon, ZenonT(60), <1>3, <1>6, <1>11 DEF UInv
  <2>2. /\ x.mode = v.mode /\ x.must_query = v.must_query /\ x.empty = v.empty
        /\ x.bad = v.bad /\ x.with_shares = v.with_shares
    BY Zenon, ZenonT(60), <1>3 DEF SameTables
  <2>3. x.empty \subseteq Server /\ x.bad \subseteq Server /\ x.with_shares \subseteq Server
    BY Zenon, ZenonT(60), <1>3, UpdaterFields
  <2>4. ASSUME NEW s \in Server
        PROVE  s \in Range(x.extra) \/ s \in x.outstanding \/ HeardIn(r, s)
    BY Zenon, ZenonT(60), <1>3, <1>6, <2>1 DEF Asks, Tables
  <2>5. x.mode \in {"MODE_CHECK", "MODE_REPAIR"} => \A s \in Server : s \in x.must_query \/ HeardIn(r, s)
    BY Zenon, ZenonT(60), <1>6, <2>1, <2>2 DEF Tables
  <2>6. \A s \in x.bad \union x.empty \union x.with_shares : HeardIn(r, s)
    BY Zenon, ZenonT(60), <1>6, <2>1, <2>2, <2>3 DEF Tables
  <2>7. \A s \in x.empty : EmptyIn(r, s)
    BY Zenon, ZenonT(60), <1>6, <2>1, <2>2, <2>3 DEF Tables
  <2>8. \A s \in x.with_shares : HasIn(r, s)
    BY Zenon, ZenonT(60), <1>6, <2>1, <2>2, <2>3 DEF Tables
  <2>9. QED
    BY Zenon, ZenonT(60), <2>4, <2>5, <2>6, <2>7, <2>8 DEF Tables
<1>12. ASSUME ~ x.running, NoneAlone(r) PROVE Promise(x.mode, r, m)
  <2>1. CASE v.running
    <3>1. Tables(v, q)
      BY Zenon, ZenonT(60), <1>6, <1>12, <2>1 DEF UInv
    <3>2. Promise(v.mode, q, m)
      BY Zenon, ZenonT(60), <1>1, <1>3, <1>12, <2>1, <3>1, EndsKnowing
    <3>3. Promise(v.mode, r, m)
      BY Zenon, ZenonT(60), <1>6, <3>2, StaysKnown
    <3>4. QED
      BY Zenon, ZenonT(60), <1>3, <3>3 DEF SameTables
  <2>2. CASE ~ v.running
    <3>1. Promise(v.mode, q, m)
      BY Zenon, ZenonT(60), <1>6, <1>12, <2>2 DEF UInv
    <3>2. Promise(v.mode, r, m)
      BY Zenon, ZenonT(60), <1>6, <3>1, StaysKnown
    <3>3. QED
      BY Zenon, ZenonT(60), <1>3, <2>2, <3>2
  <2>3. QED
    BY Zenon, ZenonT(60), <2>1, <2>2
<1>13. QED
  BY Zenon, ZenonT(60), <1>1, <1>3, <1>5, <1>6, <1>8, <1>9, <1>10, <1>11, <1>12 DEF UInv

(* What one answer, or a part of one, leaves in the tables. *)
Counted(s, a, v) ==
  /\ a.state \in {"over", "failed"}
  /\ v.outstanding = u.outstanding \ {s} /\ v.must_query = u.must_query \ {s}
  /\ v.bad \subseteq u.bad \union {s} /\ v.empty \subseteq u.empty \union {s}
  /\ v.with_shares \subseteq u.with_shares \union {s}
  /\ s \in v.empty /\ ~ (s \in u.empty) => a.state = "over" /\ a.answer = NoAnswer
  /\ s \in v.with_shares /\ ~ (s \in u.with_shares) => a.answer # NoAnswer

LEMMA Noted ==
  ASSUME SInv, NEW p0 \in Query, NEW a, NEW q, q = [query EXCEPT ![p0] = a], RequestOK(a),
         query[p0].state \in {"flight", "working"}, query[p0].alone => a.alone,
         query[p0].answer # NoAnswer => a.answer # NoAnswer,
         NEW v \in UpdaterType, v.extra = u.extra, v.mode = u.mode, v.running = u.running,
         v.outstanding \subseteq u.outstanding, v.must_query \subseteq u.must_query,
         u.running => a.state = "working" \/ ~ (p0[1] \in v.outstanding \union v.must_query),
         NEW m, NEW b, MapOK(m, b), ~ u.running => m = map,
         \A p \in Slot : map[p] # NoShare \/ bad_shares[p] # NoShare => m[p] # NoShare \/ b[p] # NoShare,
         a.state = "over" \/ (u.running /\ a.state = "working") => AnswerKept(a, p0[1], m, b),
         u.running /\ NoneAlone(q) => (v = u /\ a.state = "working") \/ Counted(p0[1], a, v)
  PROVE  UInv(v, q, m, b)
<1> DEFINE s0 == p0[1]
<1>1. /\ u \in UpdaterType /\ DOMAIN query = Query /\ \A p \in Query : RequestOK(query[p])
      /\ \A s \in Range(u.extra) : query[<<s, 2>>].state = "unsent"
      /\ u.running => \A s \in u.outstanding \union u.must_query : AwaitedIn(query, s)
      /\ \A p \in Query : query[p].state = "over" \/ (u.running /\ query[p].state = "working")
                             => AnswerKept(query[p], p[1], map, bad_shares)
  BY DEF SInv, UInv
<1>2. DOMAIN q = Query /\ q[p0] = a /\ \A p \in Query : p # p0 => q[p] = query[p]
  BY Zenon, ZenonT(60), <1>1
<1>3. /\ p0 = <<s0, 1>> \/ p0 = <<s0, 2>>
      /\ s0 \in Server /\ \A s \in Server, n \in {1, 2} : <<s, n>> \in Query /\ <<s, n>>[1] = s
  BY DEF Query
<1>4. "over" # "flight" /\ "over" # "working" /\ "failed" # "flight" /\ "failed" # "working"
        /\ "unsent" # "flight" /\ "unsent" # "working"
  OBVIOUS
<1>5. \A p \in Query : query[p].state \in {"over", "failed", "unsent"} => q[p] = query[p]
  BY Zenon, ZenonT(60), <1>2, <1>4
<1>6. ASSUME NEW s \in Server, HeardIn(query, s) PROVE HeardIn(q, s)
  BY Zenon, ZenonT(60), <1>3, <1>5, <1>6 DEF HeardIn
<1>7. ASSUME NEW s \in Server, EmptyIn(query, s) PROVE EmptyIn(q, s)
  <2>1. PICK n \in {1, 2} : query[<<s, n>>].state = "over" /\ query[<<s, n>>].answer = NoAnswer
    BY Zenon, ZenonT(60), <1>7 DEF EmptyIn
  <2>2. q[<<s, n>>] = query[<<s, n>>]
    BY Zenon, ZenonT(60), <1>3, <1>5, <2>1
  <2>3. QED
    BY Zenon, ZenonT(60), <2>1, <2>2 DEF EmptyIn
<1>8. ASSUME NEW s \in Server, HasIn(query, s) PROVE HasIn(q, s)
  <2>1. PICK n \in {1, 2} : query[<<s, n>>].answer # NoAnswer
    BY Zenon, ZenonT(60), <1>8 DEF HasIn
  <2>2. q[<<s, n>>].answer # NoAnswer
    <3> DEFINE p == <<s, n>>
    <3>1. p \in Query /\ query[p].answer # NoAnswer
      BY Zenon, ZenonT(60), <1>3, <2>1
    <3> HIDE DEF p
    <3>2. q[p].answer # NoAnswer
      BY Zenon, ZenonT(60), <1>2, <3>1
    <3>3. QED
      BY <3>2 DEF p
  <2>3. QED
    BY Zenon, ZenonT(60), <2>2 DEF HasIn
<1>9. NoneAlone(q) => NoneAlone(query)
  BY Zenon, ZenonT(60), <1>2 DEF NoneAlone
<1>10. \A p \in Query : RequestOK(q[p])
  BY Zenon, ZenonT(60), <1>1, <1>2
<1>11. v.outstanding \subseteq Server /\ v.must_query \subseteq Server /\ v.bad \subseteq Server
         /\ v.empty \subseteq Server /\ v.with_shares \subseteq Server
  BY Zenon, ZenonT(60), UpdaterFields
<1>12. ASSUME NEW s \in Range(v.extra) PROVE q[<<s, 2>>].state = "unsent"
  <2>1. query[<<s, 2>>].state = "unsent" /\ s \in Server
    <3>1. PICK n \in 1 .. L + 1 : u.extra = From(n)
      BY Zenon, ZenonT(60), <1>1, UpdaterFields
    <3>2. Range(u.extra) = Places(n, L)
      BY Zenon, ZenonT(60), <3>1, FromOK
    <3>3. Range(u.extra) \subseteq Server
      BY <3>2, ListOK DEF Places
    <3>4. QED
      BY Zenon, ZenonT(60), <1>1, <3>3
  <2>2. QED
    BY Zenon, ZenonT(60), <1>3, <1>5, <2>1
<1>13. ASSUME v.running, NEW s \in v.outstanding \union v.must_query PROVE AwaitedIn(q, s)
  <2>1. AwaitedIn(query, s) /\ s \in Server
    BY Zenon, ZenonT(60), <1>1, <1>11, <1>13
  <2>2. CASE s = s0
    <3>1. q[p0].state = "working"
      BY Zenon, ZenonT(60), <1>2, <1>13, <2>2
    <3>2. QED
      BY Zenon, ZenonT(60), <1>3, <2>2, <3>1 DEF AwaitedIn
  <2>3. CASE s # s0
    <3>1. ASSUME NEW n \in {1, 2} PROVE q[<<s, n>>] = query[<<s, n>>]
      <4>1. <<s, n>> \in Query /\ <<s, n>>[1] # p0[1]
        BY Zenon, ZenonT(60), <1>3, <2>1, <2>3
      <4> DEFINE p == <<s, n>>
      <4>2. p \in Query /\ p # p0
        BY Zenon, ZenonT(60), <4>1
      <4> HIDE DEF p
      <4>3. q[p] = query[p]
        BY Zenon, ZenonT(60), <1>2, <4>2
      <4>4. QED
        BY <4>3 DEF p
    <3>2. QED
      BY Zenon, ZenonT(60), <2>1, <3>1 DEF AwaitedIn
  <2>4. QED
    BY <2>2, <2>3
<1>14. ASSUME NEW p \in Query, q[p].state = "over" \/ (v.running /\ q[p].state = "working")
       PROVE  AnswerKept(q[p], p[1], m, b)
  <2>1. CASE p = p0
    BY Zenon, ZenonT(60), <1>2, <1>14, <2>1
  <2>2. CASE p # p0
    <3>1. AnswerKept(query[p], p[1], map, bad_shares) /\ q[p] = query[p]
      BY Zenon, ZenonT(60), <1>1, <1>2, <1>14, <2>2
    <3>2. \A sh \in Share : <<p[1], sh>> \in Slot
      BY DEF Query, Slot
    <3>3. QED
      BY Zenon, ZenonT(60), <3>1, <3>2 DEF AnswerKept
  <2>3. QED
    BY <2>1, <2>2
<1>15. ASSUME v.running, NoneAlone(q) PROVE Tables(v, q)
  <2>1. Tables(u, query)
    BY Zenon, ZenonT(60), <1>9, <1>15 DEF SInv, UInv
  <2>2. (v = u /\ a.state = "working") \/ Counted(s0, a, v)
    BY Zenon, ZenonT(60), <1>15
  <2>3. CASE v = u
    BY Zenon, ZenonT(60), <1>6, <1>7, <1>8, <1>11, <2>1, <2>3 DEF Tables
  <2>4. CASE Counted(s0, a, v)
    <3>1. HeardIn(q, s0)
      BY Zenon, ZenonT(60), <1>2, <1>3, <2>4 DEF Counted, HeardIn
    <3>2. \A s \in Server : s \in Range(v.extra) \/ s \in v.outstanding \/ HeardIn(q, s)
      BY Zenon, ZenonT(60), <1>6, <2>1, <2>4, <3>1 DEF Tables, Counted
    <3>3. v.mode \in {"MODE_CHECK", "MODE_REPAIR"} => \A s \in Server : s \in v.must_query \/ HeardIn(q, s)
      BY Zenon, ZenonT(60), <1>6, <2>1, <2>4, <3>1 DEF Tables, Counted
    <3>4. \A s \in v.bad \union v.empty \union v.with_shares : HeardIn(q, s)
      BY Zenon, ZenonT(60), <1>6, <1>11, <2>1, <2>4, <3>1 DEF Tables, Counted
    <3>5. ASSUME NEW s \in v.empty PROVE EmptyIn(q, s)
      <4>1. CASE s \in u.empty
        BY Zenon, ZenonT(60), <1>7, <1>11, <2>1, <4>1 DEF Tables
      <4>2. CASE ~ (s \in u.empty)
        <5>1. s = s0 /\ a.state = "over" /\ a.answer = NoAnswer
          BY Zenon, ZenonT(60), <2>4, <4>2 DEF Counted
        <5>2. QED
          BY Zenon, ZenonT(60), <1>2, <1>3, <5>1 DEF EmptyIn
      <4>3. QED
        BY <4>1, <4>2
    <3>6. ASSUME NEW s \in v.with_shares PROVE HasIn(q, s)
      <4>1. CASE s \in u.with_shares
        BY Zenon, ZenonT(60), <1>8, <1>11, <2>1, <4>1 DEF Tables
      <4>2. CASE ~ (s \in u.with_shares)
        <5>1. s = s0 /\ a.answer # NoAnswer
          BY Zenon, ZenonT(60), <2>4, <4>2 DEF Counted
        <5>2. QED
          BY Zenon, ZenonT(60), <1>2, <1>3, <5>1 DEF HasIn
      <4>3. QED
        BY <4>1, <4>2
    <3>7. QED
      BY Zenon, ZenonT(60), <3>2, <3>3, <3>4, <3>5, <3>6 DEF Tables
  <2>5. QED
    BY Zenon, ZenonT(60), <2>2, <2>3, <2>4
<1>16. ASSUME ~ v.running, NoneAlone(q) PROVE Promise(v.mode, q, m)
  <2>1. Promise(u.mode, query, map)
    BY Zenon, ZenonT(60), <1>9, <1>16 DEF SInv, UInv
  <2>2. Promise(u.mode, q, map)
    BY Zenon, ZenonT(60), <1>6, <1>7, <1>8, <2>1, StaysKnown
  <2>3. QED
    BY Zenon, ZenonT(60), <1>16, <2>2
<1>17. QED
  BY Zenon, ZenonT(60), <1>2, <1>10, <1>12, <1>13, <1>14, <1>15, <1>16 DEF UInv

-----------------------------------------------------------------------------
(* The steps. *)
LEMMA RetiredOK ==
  ASSUME NEW w \in UpdaterType, NEW s
  PROVE  /\ retired(w, s) \in UpdaterType /\ retired(w, s).extra = w.extra
         /\ retired(w, s).mode = w.mode /\ retired(w, s).running = w.running
         /\ retired(w, s).outstanding = w.outstanding \ {s}
         /\ retired(w, s).must_query = w.must_query \ {s}
         /\ retired(w, s).bad = w.bad /\ retired(w, s).empty = w.empty
         /\ retired(w, s).with_shares = w.with_shares
<1> DEFINE c == w.completed + 1
           o == w.outstanding \ {s}
           t == w.must_query \ {s}
           v == [w EXCEPT !.outstanding = o, !.must_query = t, !.completed = c]
<1>1. v = retired(w, s)
  BY Zenon, ZenonT(60) DEF retired
<1>2. c \in Nat /\ o \subseteq Server /\ t \subseteq Server
  BY UpdaterFields
<1> HIDE DEF c, o, t
<1>3. v \in UpdaterType
  BY Zenon, ZenonT(60), <1>2 DEF UpdaterType
<1>4. /\ v.extra = w.extra /\ v.mode = w.mode /\ v.running = w.running
      /\ v.outstanding = o /\ v.must_query = t
      /\ v.bad = w.bad /\ v.empty = w.empty /\ v.with_shares = w.with_shares
  BY Zenon, ZenonT(60) DEF UpdaterType
<1> HIDE DEF v
<1>5. QED
  BY <1>1, <1>3, <1>4 DEF o, t

LEMMA SeenOK ==
  ASSUME NEW w \in UpdaterType, NEW s \in Server, NEW S, NEW v, v = seen(w, s, S)
  PROVE  /\ v \in UpdaterType /\ v.extra = w.extra /\ v.mode = w.mode /\ v.running = w.running
         /\ v.outstanding = w.outstanding /\ v.must_query = w.must_query /\ v.empty = w.empty
         /\ v.bad \subseteq w.bad \union {s} /\ v.with_shares \subseteq w.with_shares \union {s}
         /\ s \in v.with_shares /\ ~ (s \in w.with_shares) => \E sh \in S : TRUE
<1> DEFINE bad == IF \E sh \in S : <<s, sh>> \in Corrupt THEN w.bad \union {s} ELSE w.bad
           with == IF \E sh \in S : <<s, sh>> \notin Corrupt /\ bad_shares[<<s, sh>>] = NoShare
                   THEN w.with_shares \union {s} ELSE w.with_shares
<1>1. v = w \/ v = [w EXCEPT !.bad = bad, !.with_shares = with]
  BY Zenon, ZenonT(60) DEF seen
<1>2. /\ bad \subseteq w.bad \union {s} /\ with \subseteq w.with_shares \union {s}
      /\ s \in with /\ ~ (s \in w.with_shares) => \E sh \in S : TRUE
  BY Zenon, ZenonT(60)
<1> HIDE DEF bad, with
<1>3. CASE v = w
  BY Zenon, ZenonT(60), <1>3
<1>4. CASE v = [w EXCEPT !.bad = bad, !.with_shares = with]
  <2>1. bad \subseteq Server /\ with \subseteq Server
    BY <1>2, UpdaterFields
  <2>2. /\ v \in UpdaterType /\ v.extra = w.extra /\ v.mode = w.mode /\ v.running = w.running
        /\ v.outstanding = w.outstanding /\ v.must_query = w.must_query /\ v.empty = w.empty
        /\ v.bad = bad /\ v.with_shares = with
    BY Zenon, ZenonT(60), <1>4, <2>1 DEF UpdaterType
  <2>3. QED
    BY Zenon, ZenonT(60), <1>2, <2>2
<1>5. QED
  BY <1>1, <1>3, <1>4

(* An answer with no share, or one that comes in when the update is over. *)
LEMMA GotNothingOK ==
  ASSUME SInv, NEW p0 \in Query, query[p0].state = "flight", NEW d, u.running => d = NoAnswer,
         NEW w, w = IF u.running THEN [u EXCEPT !.empty = u.empty \union {p0[1]}] ELSE u,
         NEW q, q = [query EXCEPT ![p0] = [query[p0] EXCEPT !.state = Over, !.answer = d]],
         done_processing(w, p0[1], map, q), map' = map, bad_shares' = bad_shares
  PROVE  SInv'
<1> DEFINE s == p0[1]
           o == query[p0]
           a == [o EXCEPT !.state = Over, !.answer = d]
           v == retired(w, s)
<1>1. s \in Server /\ u \in UpdaterType /\ RequestOK(o) /\ MapOK(map, bad_shares)
  BY DEF Query, SInv, UInv
<1>2. o.state = "flight" /\ o.answer = NoAnswer /\ ~ o.alone /\ o.todo = {} /\ DOMAIN o = DOMAIN Unsent
  BY <1>1 DEF RequestOK
<1>3. DOMAIN a = DOMAIN Unsent /\ a.state = Over /\ a.answer = d /\ a.todo = {}
  <2> HIDE DEF o
  <2>1. QED
    BY <1>2 DEF Unsent
<1>4. Over \in {"over", "late"} /\ (u.running => Over = "over") /\ (~ u.running => Over = "late")
  BY DEF Over
<1> HIDE DEF o, a
<1>5. RequestOK(a)
  BY <1>3, <1>4 DEF RequestOK
<1>6. /\ w \in UpdaterType /\ w.extra = u.extra /\ w.mode = u.mode /\ w.running = u.running
      /\ w.outstanding = u.outstanding /\ w.must_query = u.must_query
      /\ w.bad = u.bad /\ w.with_shares = u.with_shares
      /\ u.running => w.empty = u.empty \union {s}
  <2>1. CASE u.running
    <3> DEFINE e == u.empty \union {s}
    <3>1. w = [u EXCEPT !.empty = e] /\ e \subseteq Server
      BY <1>1, <2>1, UpdaterFields
    <3> HIDE DEF e
    <3>2. /\ w \in UpdaterType /\ w.extra = u.extra /\ w.mode = u.mode /\ w.running = u.running
          /\ w.outstanding = u.outstanding /\ w.must_query = u.must_query
          /\ w.bad = u.bad /\ w.with_shares = u.with_shares /\ w.empty = e
      BY Zenon, ZenonT(60), <1>1, <3>1 DEF UpdaterType
    <3>3. QED
      BY <3>2 DEF e
  <2>2. CASE ~ u.running
    BY Zenon, ZenonT(60), <1>1, <2>2
  <2>3. QED
    BY <2>1, <2>2
<1>7. /\ v \in UpdaterType /\ v.extra = w.extra /\ v.mode = w.mode /\ v.running = w.running
      /\ v.outstanding = w.outstanding \ {s} /\ v.must_query = w.must_query \ {s}
      /\ v.bad = w.bad /\ v.empty = w.empty /\ v.with_shares = w.with_shares
  BY Zenon, ZenonT(60), <1>6, RetiredOK
<1> HIDE DEF v
<1>8. AnswerKept(a, s, map, bad_shares) \/ ~ u.running
  <2>1. u.running => \A sh \in Share : a.answer[sh] = NoShare
    BY <1>3 DEF NoAnswer
  <2>2. QED
    BY Zenon, ZenonT(60), <2>1 DEF AnswerKept
<1>9. u.running => Counted(s, a, v)
  BY <1>3, <1>4, <1>6, <1>7 DEF Counted
<1>10. UInv(v, q, map, bad_shares)
  <2>1. q = [query EXCEPT ![p0] = a]
    BY Zenon, ZenonT(60) DEF o, a
  <2>2. query[p0].state \in {"flight", "working"} /\ ~ query[p0].alone /\ query[p0].answer = NoAnswer
    BY <1>2 DEF o
  <2>3. a.state = "over" \/ (u.running /\ a.state = "working") => AnswerKept(a, s, map, bad_shares)
    BY <1>3, <1>4, <1>8
  <2>4. /\ v.extra = u.extra /\ v.mode = u.mode /\ v.running = u.running
        /\ v.outstanding \subseteq u.outstanding /\ v.must_query \subseteq u.must_query
        /\ ~ (p0[1] \in v.outstanding \union v.must_query)
    BY <1>6, <1>7
  <2> HIDE DEF s
  <2>5. QED
    BY Zenon, ZenonT(60), <1>1, <1>5, <1>7, <1>9, <2>1, <2>2, <2>3, <2>4, Noted DEF s
<1>11. u' = check_for_done(v, map) /\ query' = WithMore(q, u')
  BY Zenon, ZenonT(60) DEF done_processing, v
<1>12. UInv(u', query', map, bad_shares)
  BY Zenon, ZenonT(60), <1>6, <1>7, <1>10, <1>11, Settled
<1>13. QED
  BY Zenon, ZenonT(60), <1>12 DEF SInv

LEMMA GotResultsOK ==
  ASSUME SInv, NEW p0 \in Query, _got_results(p0)
  PROVE  SInv'
<1> DEFINE s == p0[1]
           d == [sh \in Share |-> grid[<<s, sh>>]]
           found == {sh \in Share : d[sh] # NoShare}
           o == query[p0]
           half == [o EXCEPT !.state = Over, !.answer = d]
           asked == [query EXCEPT ![p0] = half]
<1>1. o.state = "flight" /\ map' = map /\ bad_shares' = bad_shares
  BY Zenon, ZenonT(60) DEF _got_results
<1>2. u \in UpdaterType /\ RequestOK(o) /\ MapOK(map, bad_shares) /\ DOMAIN query = Query
  BY DEF SInv, UInv
<1>3. o.answer = NoAnswer /\ ~ o.alone /\ o.todo = {} /\ DOMAIN o = DOMAIN Unsent
  BY <1>1, <1>2 DEF RequestOK
<1>4. CASE ~ u.running \/ found = {}
  <2> DEFINE w == IF u.running THEN [u EXCEPT !.empty = u.empty \union {s}] ELSE u
  <2>1. done_processing(w, s, map, asked)
    BY Zenon, ZenonT(60), <1>4 DEF _got_results
  <2>2. u.running => d = NoAnswer
    <3>1. u.running => \A sh \in Share : d[sh] = NoShare
      BY Zenon, ZenonT(60), <1>4
    <3> HIDE DEF d
    <3>2. QED
      BY <1>4, <3>1 DEF NoAnswer, d
  <2> HIDE DEF w, d
  <2>3. w = IF u.running THEN [u EXCEPT !.empty = u.empty \union {p0[1]}] ELSE u
    BY DEF w
  <2>4. QED
    BY Zenon, ZenonT(60), <1>1, <2>1, <2>2, <2>3, GotNothingOK
<1>5. CASE ~ (~ u.running \/ found = {})
  <2>1. PICK last \in found :
          query' = [asked EXCEPT ![p0] = [asked[p0] EXCEPT !.state = "working", !.todo = found,
                                                           !.last = {last}, !.alone = ReadsMore]]
    BY Zenon, ZenonT(60), <1>5 DEF _got_results
  <2>2. u' = u
    BY Zenon, ZenonT(60), <1>5 DEF _got_results
  <2> DEFINE a == [half EXCEPT !.state = "working", !.todo = found, !.last = {last}, !.alone = ReadsMore]
  <2>3. query' = [query EXCEPT ![p0] = a]
    <3> HIDE DEF half, found
    <3>1. asked[p0] = half
      BY Zenon, ZenonT(60), <1>2
    <3>2. QED
      BY Zenon, ZenonT(60), <1>2, <2>1, <3>1
  <2>4. DOMAIN a = DOMAIN Unsent /\ a.state = "working" /\ a.answer = d /\ a.todo = found
    <3> HIDE DEF d, found, o
    <3>1. QED
      BY <1>3 DEF Unsent
  <2> HIDE DEF a, o
  <2>5. RequestOK(a)
    BY <2>4 DEF RequestOK
  <2>6. AnswerKept(a, s, map, bad_shares)
    BY Zenon, ZenonT(60), <2>4 DEF AnswerKept
  <2>7. query[p0].state \in {"flight", "working"} /\ ~ query[p0].alone /\ query[p0].answer = NoAnswer
    BY <1>1, <1>3 DEF o
  <2>8. UInv(u, query', map, bad_shares)
    <3> HIDE DEF d, found
    <3>1. QED
      BY Zenon, ZenonT(60), <1>2, <2>3, <2>4, <2>5, <2>6, <2>7, Noted
  <2>9. QED
    BY Zenon, ZenonT(60), <1>1, <2>2, <2>8 DEF SInv
<1> HIDE DEF found
<1>6. QED
  BY <1>4, <1>5

LEMMA QueryFailedOK ==
  ASSUME SInv, NEW p0 \in Query, _query_failed(p0)
  PROVE  SInv'
<1> DEFINE s == p0[1]
           o == query[p0]
           a == [o EXCEPT !.state = "failed"]
           q == [query EXCEPT ![p0] = a]
<1>1. o.state = "flight" /\ map' = map /\ bad_shares' = bad_shares
  BY DEF _query_failed
<1>2. u \in UpdaterType /\ RequestOK(o) /\ MapOK(map, bad_shares) /\ s \in Server
  BY DEF SInv, UInv, Query
<1>3. o.answer = NoAnswer /\ ~ o.alone /\ o.todo = {} /\ DOMAIN o = DOMAIN Unsent
  BY <1>1, <1>2 DEF RequestOK
<1>4. DOMAIN a = DOMAIN Unsent /\ a.state = "failed" /\ a.answer = NoAnswer /\ a.todo = {}
  <2> HIDE DEF o
  <2>1. QED
    BY <1>3 DEF Unsent
<1>5. query[p0].state \in {"flight", "working"} /\ ~ query[p0].alone /\ query[p0].answer = NoAnswer
  BY <1>1, <1>3
<1>6. "failed" # "over" /\ "failed" # "working"
  OBVIOUS
<1>7. CASE u.running
  <2> DEFINE w == retired(u, s)
             bad == w.bad \union {s}
             v == [w EXCEPT !.bad = bad]
  <2>1. u' = check_for_done(v, map) /\ query' = WithMore(q, u')
    BY Zenon, ZenonT(60), <1>7 DEF _query_failed
  <2>2. /\ w \in UpdaterType /\ w.extra = u.extra /\ w.mode = u.mode /\ w.running = u.running
        /\ w.outstanding = u.outstanding \ {s} /\ w.must_query = u.must_query \ {s}
        /\ w.bad = u.bad /\ w.empty = u.empty /\ w.with_shares = u.with_shares
    BY Zenon, ZenonT(60), <1>2, RetiredOK
  <2> HIDE DEF w
  <2>3. /\ v \in UpdaterType /\ v.extra = w.extra /\ v.mode = w.mode /\ v.running = w.running
        /\ v.outstanding = w.outstanding /\ v.must_query = w.must_query
        /\ v.bad = bad /\ v.empty = w.empty /\ v.with_shares = w.with_shares
    <3>1. bad \subseteq Server
      BY <1>2, <2>2, UpdaterFields
    <3> HIDE DEF bad
    <3>2. QED
      BY Zenon, ZenonT(60), <2>2, <3>1 DEF UpdaterType
  <2> HIDE DEF v, a
  <2>4. Counted(s, a, v)
    BY <1>4, <2>2, <2>3 DEF Counted
  <2>5. RequestOK(a)
    BY <1>4 DEF RequestOK
  <2>6. /\ v.extra = u.extra /\ v.mode = u.mode /\ v.running = u.running
        /\ v.outstanding \subseteq u.outstanding /\ v.must_query \subseteq u.must_query
        /\ ~ (p0[1] \in v.outstanding \union v.must_query)
    BY <2>2, <2>3
  <2>7. UInv(v, q, map, bad_shares)
    BY Zenon, ZenonT(60), <1>2, <1>4, <1>5, <1>6, <2>3, <2>4, <2>5, <2>6, Noted
  <2> HIDE DEF q
  <2>8. UInv(u', query', map, bad_shares)
    BY Zenon, ZenonT(60), <2>1, <2>6, <2>7, Settled
  <2>9. QED
    BY Zenon, ZenonT(60), <1>1, <2>8 DEF SInv
<1>8. CASE ~ u.running
  <2>1. u' = u /\ query' = q
    BY Zenon, ZenonT(60), <1>8 DEF _query_failed
  <2> HIDE DEF a
  <2>2. RequestOK(a)
    BY <1>4 DEF RequestOK
  <2>3. UInv(u, q, map, bad_shares)
    BY Zenon, ZenonT(60), <1>2, <1>4, <1>5, <1>6, <1>8, <2>2, Noted
  <2>4. QED
    BY Zenon, ZenonT(60), <1>1, <2>1, <2>3 DEF SInv
<1>9. QED
  BY <1>7, <1>8

(* A validated share is in the map or bad, and none is forgotten. *)
LEMMA RecordedOK ==
  ASSUME MapOK(map, bad_shares), NEW s \in Server, NEW S \in SUBSET Share, NEW d,
         \A sh \in S : d[sh] # NoShare, recorded(s, S, d)
  PROVE  /\ MapOK(map', bad_shares')
         /\ \A p \in Slot : map[p] # NoShare \/ bad_shares[p] # NoShare
                              => map'[p] # NoShare \/ bad_shares'[p] # NoShare
         /\ \A sh \in S : map'[<<s, sh>>] # NoShare \/ bad_shares'[<<s, sh>>] # NoShare
<1> DEFINE valid == {sh \in S : <<s, sh>> \notin Corrupt /\ bad_shares[<<s, sh>>] = NoShare}
           corrupt == {sh \in S : <<s, sh>> \in Corrupt}
<1>1. /\ map' = [p \in Slot |-> IF p[1] = s /\ p[2] \in valid THEN d[p[2]]
                                ELSE IF p[1] = s /\ p[2] \in corrupt THEN NoShare ELSE map[p]]
      /\ bad_shares' = [p \in Slot |-> IF p[1] = s /\ p[2] \in corrupt THEN d[p[2]] ELSE bad_shares[p]]
  BY Zenon, ZenonT(60) DEF recorded
<1>2. \A p \in Slot : p = <<p[1], p[2]>>
  BY DEF Slot
<1>3. /\ DOMAIN map' = Slot /\ DOMAIN bad_shares' = Slot
      /\ \A p \in Slot : /\ map'[p] = IF p[1] = s /\ p[2] \in valid THEN d[p[2]]
                                      ELSE IF p[1] = s /\ p[2] \in corrupt THEN NoShare ELSE map[p]
                         /\ bad_shares'[p] = IF p[1] = s /\ p[2] \in corrupt THEN d[p[2]] ELSE bad_shares[p]
  <2> HIDE DEF valid, corrupt
  <2>1. QED
    BY Zenon, ZenonT(60), <1>1
<1>4. ASSUME NEW p \in Slot
      PROVE  /\ map'[p] = NoShare \/ bad_shares'[p] = NoShare
             /\ map[p] # NoShare \/ bad_shares[p] # NoShare
                  => map'[p] # NoShare \/ bad_shares'[p] # NoShare
             /\ p[1] = s /\ p[2] \in S => map'[p] # NoShare \/ bad_shares'[p] # NoShare
  <2>1. CASE p[1] = s /\ p[2] \in valid
    <3>1. ~ (p[2] \in corrupt) /\ bad_shares[p] = NoShare /\ d[p[2]] # NoShare
      BY <1>2, <2>1
    <3> HIDE DEF valid, corrupt
    <3>2. map'[p] = d[p[2]] /\ bad_shares'[p] = bad_shares[p]
      BY Zenon, ZenonT(60), <1>3, <2>1, <3>1
    <3>3. QED
      BY Zenon, ZenonT(60), <3>1, <3>2
  <2>2. CASE p[1] = s /\ p[2] \in corrupt
    <3>1. ~ (p[2] \in valid) /\ d[p[2]] # NoShare
      BY <1>2, <2>2
    <3> HIDE DEF valid, corrupt
    <3>2. map'[p] = NoShare /\ bad_shares'[p] = d[p[2]]
      BY Zenon, ZenonT(60), <1>3, <2>2, <3>1
    <3>3. QED
      BY Zenon, ZenonT(60), <3>1, <3>2
  <2>3. CASE ~ (p[1] = s /\ p[2] \in valid) /\ ~ (p[1] = s /\ p[2] \in corrupt)
    <3>1. p[1] = s /\ p[2] \in S => bad_shares[p] # NoShare
      BY <1>2, <2>3
    <3> HIDE DEF valid, corrupt
    <3>2. map'[p] = map[p] /\ bad_shares'[p] = bad_shares[p]
      BY Zenon, ZenonT(60), <1>3, <2>3
    <3>3. QED
      BY Zenon, ZenonT(60), <3>1, <3>2 DEF MapOK
  <2> HIDE DEF valid, corrupt
  <2>4. QED
    BY Zenon, ZenonT(60), <2>1, <2>2, <2>3
<1>5. \A sh \in S : <<s, sh>> \in Slot /\ <<s, sh>>[1] = s /\ <<s, sh>>[2] = sh
  BY DEF Slot
<1> HIDE DEF valid, corrupt
<1>6. QED
  BY Zenon, ZenonT(60), <1>3, <1>4, <1>5 DEF MapOK

LEMMA GotSignatureOK ==
  ASSUME fetch_update_data = FALSE, SInv, NEW p0 \in Query, NEW S, _got_signature_one_share(p0, S)
  PROVE  SInv'
<1> DEFINE s == p0[1]
           o == query[p0]
           left == o.todo \ S
           complete == o.state = "working" /\ left \intersect waited_for(p0) = {}
           a == [o EXCEPT !.todo = left, !.state = IF complete THEN Over ELSE o.state]
           q == [query EXCEPT ![p0] = a]
           keys == IF o.alone /\ u.need_privkey THEN {PrivkeyFound, _privkey_query_failed(s)} ELSE {u}
<1>1. /\ S \subseteq o.todo /\ validated(s, S, o.answer)
      /\ IF o.alone THEN Cardinality(S) = 1 ELSE S = o.todo /\ S # {}
  BY Zenon, ZenonT(60) DEF _got_signature_one_share
<1> DEFINE settle(u1) == IF complete THEN done_processing(seen(u1, s, S), s, map', q)
                         ELSE u' = seen(u1, s, S) /\ query' = q /\ UNCHANGED reachable
<1>0. \E u1 \in keys : settle(u1)
  BY Zenon, ZenonT(60) DEF _got_signature_one_share
<1>2. PICK u1 \in keys : settle(u1)
  <2> HIDE DEF keys, settle
  <2>1. QED
    BY <1>0
<1>3. u \in UpdaterType /\ RequestOK(o) /\ MapOK(map, bad_shares) /\ s \in Server
  BY DEF SInv, UInv, Query
<1>4. S # {} /\ S \in SUBSET Share /\ \A sh \in S : o.answer[sh] # NoShare
  <2>1. S # {}
    BY <1>1, FS_EmptySet
  <2> HIDE DEF o
  <2>2. QED
    BY Zenon, ZenonT(60), <1>1, <1>3, <2>1 DEF RequestOK
<1>5. o.state = "working" /\ DOMAIN o = DOMAIN Unsent /\ \A sh \in o.todo : sh \in Share /\ o.answer[sh] # NoShare
  <2> HIDE DEF o
  <2>1. o.todo # {}
    BY <1>1, <1>4
  <2>2. QED
    BY Zenon, ZenonT(60), <1>3, <2>1 DEF RequestOK
<1>6. (complete <=> left = {}) /\ (left # {} => o.alone)
  <2>1. waited_for(p0) = o.todo
    BY DEF waited_for
  <2> HIDE DEF o
  <2>2. QED
    BY Zenon, ZenonT(60), <1>1, <1>5, <2>1
<1> DEFINE st == IF left = {} THEN Over ELSE "working"
<1>7. /\ DOMAIN a = DOMAIN Unsent /\ a.answer = o.answer /\ a.todo = left
      /\ a.state = st /\ (o.alone <=> a.alone)
  <2> HIDE DEF o, left, complete
  <2>1. a = [o EXCEPT !.todo = left, !.state = st]
    BY Zenon, ZenonT(60), <1>5, <1>6
  <2> HIDE DEF st, a
  <2>2. QED
    BY <1>5, <2>1 DEF Unsent
<1>8. (u.running => Over = "over") /\ (~ u.running => Over = "late")
  BY DEF Over
<1>9. RequestOK(a)
  <2>1. st \in {"over", "late", "working"} /\ (left # {} => st = "working")
    BY <1>8
  <2>2. \A sh \in left : sh \in Share /\ o.answer[sh] # NoShare
    BY Zenon, ZenonT(60), <1>5
  <2> HIDE DEF a, o, st, left
  <2>3. QED
    BY <1>7, <2>1, <2>2 DEF RequestOK
<1>10. /\ MapOK(map', bad_shares') /\ (~ u.running => map' = map)
       /\ \A p \in Slot : map[p] # NoShare \/ bad_shares[p] # NoShare
                            => map'[p] # NoShare \/ bad_shares'[p] # NoShare
       /\ u.running => \A sh \in S : map'[<<s, sh>>] # NoShare \/ bad_shares'[<<s, sh>>] # NoShare
  <2> HIDE DEF o, s
  <2>1. CASE u.running
    <3>1. recorded(s, S, o.answer)
      BY <1>1, <2>1 DEF validated
    <3>2. QED
      BY Zenon, ZenonT(60), <1>3, <1>4, <2>1, <3>1, RecordedOK
  <2>2. CASE ~ u.running
    <3>1. map' = map /\ bad_shares' = bad_shares
      BY <1>1, <2>2 DEF validated
    <3>2. QED
      BY Zenon, ZenonT(60), <1>3, <2>2, <3>1
  <2>3. QED
    BY <2>1, <2>2
<1>11. u.running => AnswerKept(a, s, map', bad_shares')
  <2>1. SUFFICES ASSUME u.running, NEW sh \in Share, o.answer[sh] # NoShare, ~ (sh \in left)
                 PROVE  map'[<<s, sh>>] # NoShare \/ bad_shares'[<<s, sh>>] # NoShare
    <3> HIDE DEF a, o, left
    <3>1. QED
      BY Zenon, ZenonT(60), <1>7 DEF AnswerKept
  <2>2. AnswerKept(o, s, map, bad_shares)
    BY Zenon, ZenonT(60), <1>5, <2>1 DEF SInv, UInv
  <2>3. <<s, sh>> \in Slot
    BY <1>3 DEF Slot
  <2> HIDE DEF o, s
  <2>4. CASE sh \in S
    BY Zenon, ZenonT(60), <1>10, <2>1, <2>4
  <2>5. CASE ~ (sh \in o.todo)
    BY Zenon, ZenonT(60), <1>10, <2>1, <2>2, <2>3, <2>5 DEF AnswerKept
  <2>6. QED
    BY <2>1, <2>4, <2>5
<1>12. /\ u1 \in UpdaterType /\ u1.extra = u.extra /\ u1.mode = u.mode /\ u1.running = u.running
       /\ u1.outstanding \subseteq u.outstanding /\ u1.must_query = u.must_query
       /\ ~ o.alone => u1 = u
  <2>1. u1 = u \/ (o.alone /\ (u1 = PrivkeyFound \/ u1 = _privkey_query_failed(s)))
    BY Zenon, ZenonT(60)
  <2> HIDE DEF o, keys
  <2>2. CASE u1 = u
    BY Zenon, ZenonT(60), <1>3, <2>2
  <2>3. CASE o.alone /\ u1 = PrivkeyFound
    BY Zenon, ZenonT(60), <1>3, <2>3 DEF PrivkeyFound, UpdaterType
  <2>4. CASE o.alone /\ u1 = _privkey_query_failed(s)
    BY Zenon, ZenonT(60), <1>3, <2>4 DEF _privkey_query_failed, UpdaterType
  <2>5. QED
    BY Zenon, ZenonT(60), <2>1, <2>2, <2>3, <2>4
<1> DEFINE w == seen(u1, s, S)
<1>13. /\ w \in UpdaterType /\ w.extra = u1.extra /\ w.mode = u1.mode /\ w.running = u1.running
       /\ w.outstanding = u1.outstanding /\ w.must_query = u1.must_query /\ w.empty = u1.empty
       /\ w.bad \subseteq u1.bad \union {s} /\ w.with_shares \subseteq u1.with_shares \union {s}
  <2>1. w = seen(u1, s, S)
    OBVIOUS
  <2> HIDE DEF s, w
  <2>2. QED
    BY <1>3, <1>12, <2>1, SeenOK
<1>14. /\ query[p0].state \in {"flight", "working"} /\ (query[p0].alone => a.alone)
       /\ (query[p0].answer # NoAnswer => a.answer # NoAnswer)
  <2> HIDE DEF a
  <2>1. QED
    BY Zenon, ZenonT(60), <1>5, <1>7
<1>15. o.answer # NoAnswer
  BY <1>4 DEF NoAnswer
<1>16. NoneAlone(q) => ~ o.alone
  <2>1. DOMAIN query = Query
    BY DEF SInv, UInv
  <2> HIDE DEF a
  <2>2. q[p0] = a
    BY Zenon, ZenonT(60), <2>1
  <2> HIDE DEF q, o
  <2>3. QED
    BY Zenon, ZenonT(60), <1>7, <2>2 DEF NoneAlone
<1>17. CASE left # {}
  <2>1. u' = w /\ query' = q
    <3> HIDE DEF w, q, left
    <3>1. QED
      BY Zenon, ZenonT(60), <1>2, <1>6, <1>17 DEF w
  <2>2. a.state = "working" /\ ~ NoneAlone(q)
    <3> HIDE DEF a, q, left, o
    <3>1. QED
      BY Zenon, ZenonT(60), <1>6, <1>7, <1>16, <1>17
  <2>3. /\ w.extra = u.extra /\ w.mode = u.mode /\ w.running = u.running
        /\ w.outstanding \subseteq u.outstanding /\ w.must_query \subseteq u.must_query
    <3> HIDE DEF w
    <3>1. QED
      BY Zenon, ZenonT(60), <1>12, <1>13
  <2>4. a.state = "over" \/ (u.running /\ a.state = "working") => AnswerKept(a, s, map', bad_shares')
    <3> HIDE DEF a
    <3>1. QED
      BY <1>11, <2>2
  <2> HIDE DEF a, w, o, left, complete
  <2>5. UInv(w, q, map', bad_shares')
    BY Zenon, ZenonT(60), <1>9, <1>10, <1>13, <1>14, <2>2, <2>3, <2>4, Noted
  <2>6. QED
    BY Zenon, ZenonT(60), <2>1, <2>5 DEF SInv
<1>18. CASE left = {}
  <2> DEFINE v == retired(w, s)
  <2>1. u' = check_for_done(v, map') /\ query' = WithMore(q, u')
    <3>1. done_processing(w, s, map', q)
      <4> HIDE DEF w, q, left
      <4>1. QED
        BY Zenon, ZenonT(60), <1>2, <1>6, <1>18 DEF w
    <3> HIDE DEF w, q
    <3>2. QED
      BY Zenon, ZenonT(60), <3>1 DEF done_processing
  <2> HIDE DEF w
  <2>2. /\ v \in UpdaterType /\ v.extra = w.extra /\ v.mode = w.mode /\ v.running = w.running
        /\ v.outstanding = w.outstanding \ {s} /\ v.must_query = w.must_query \ {s}
        /\ v.bad = w.bad /\ v.empty = w.empty /\ v.with_shares = w.with_shares
    BY Zenon, ZenonT(60), <1>13, RetiredOK
  <2>3. /\ v.extra = u.extra /\ v.mode = u.mode /\ v.running = u.running
        /\ v.outstanding \subseteq u.outstanding /\ v.must_query \subseteq u.must_query
        /\ ~ (p0[1] \in v.outstanding \union v.must_query)
    <3> HIDE DEF v
    <3>1. QED
      BY <1>12, <1>13, <2>2
  <2>4. a.state = Over
    <3> HIDE DEF a, left
    <3>1. QED
      BY Zenon, ZenonT(60), <1>7, <1>18
  <2>5. a.state = "over" \/ (u.running /\ a.state = "working") => AnswerKept(a, s, map', bad_shares')
    <3> HIDE DEF a
    <3>1. QED
      BY <1>8, <1>11, <2>4
  <2> HIDE DEF a, v, left, complete
  <2>6. u.running /\ NoneAlone(q) => Counted(s, a, v)
    <3>1. SUFFICES ASSUME u.running, NoneAlone(q) PROVE Counted(s, a, v)
      OBVIOUS
    <3>2. u1 = u /\ a.state = "over" /\ a.answer # NoAnswer
      <4> HIDE DEF q, o
      <4>1. QED
        BY Zenon, ZenonT(60), <1>7, <1>8, <1>12, <1>15, <1>16, <2>4, <3>1
    <3> HIDE DEF s
    <3>3. QED
      BY <1>13, <2>2, <3>2 DEF Counted
  <2>7. UInv(v, q, map', bad_shares')
    <3> HIDE DEF o
    <3>1. QED
      BY Zenon, ZenonT(60), <1>9, <1>10, <1>14, <2>2, <2>3, <2>5, <2>6, Noted
  <2> HIDE DEF q
  <2>8. UInv(u', query', map', bad_shares')
    BY Zenon, ZenonT(60), <2>1, <2>3, <2>7, Settled
  <2>9. QED
    BY Zenon, ZenonT(60), <2>8 DEF SInv
<1> HIDE DEF left
<1>19. QED
  BY <1>17, <1>18

-----------------------------------------------------------------------------
LEMMA InitOK ==
  ASSUME Init
  PROVE  SInv
<1>1. PICK start \in Starts : /\ map = start.map /\ bad_shares = start.bad_shares
                              /\ u = update(start.mode, start.map, start.has_privkey)
  BY DEF Init
<1>2. /\ start.mode \in Mode /\ start.has_privkey \in BOOLEAN /\ MapOK(map, bad_shares)
  BY <1>1, StartsAssumption DEF MapOK
<1>3. /\ u \in UpdaterType /\ u.running /\ u.mode = start.mode
      /\ u.outstanding \union Range(u.extra) = Server /\ u.must_query \subseteq u.outstanding
      /\ u.empty = {} /\ u.bad = {} /\ u.with_shares = {}
      /\ start.mode \in {"MODE_CHECK", "MODE_REPAIR"} => u.must_query = Server
  BY <1>1, <1>2, UpdateOK
<1>4. DOMAIN query = Query /\ \A p \in Query : query[p] = IF p[1] \in u.outstanding /\ p[2] = 1
                                                          THEN InFlight ELSE Unsent
  BY DEF Init, Sent
<1>5. /\ InFlight.state = "flight" /\ Unsent.state = "unsent" /\ ~ InFlight.alone /\ ~ Unsent.alone
      /\ RequestOK(InFlight) /\ RequestOK(Unsent)
  BY DEF InFlight, Unsent, RequestOK
<1>6. \A p \in Query : query[p] = InFlight \/ query[p] = Unsent
  BY Zenon, ZenonT(60), <1>4
<1>7. (\A p \in Query : RequestOK(query[p])) /\ NoneAlone(query)
  BY Zenon, ZenonT(60), <1>5, <1>6 DEF NoneAlone
<1>8. \A s \in Server : /\ <<s, 1>> \in Query /\ <<s, 1>>[1] = s /\ <<s, 1>>[2] = 1
                        /\ <<s, 2>> \in Query /\ <<s, 2>>[2] # 1
  BY DEF Query
<1>9. \A s \in Range(u.extra) : query[<<s, 2>>].state = "unsent"
  BY Zenon, ZenonT(60), <1>3, <1>4, <1>5, <1>8
<1>10. ASSUME NEW s \in u.outstanding \union u.must_query PROVE AwaitedIn(query, s)
  <2>1. s \in u.outstanding /\ s \in Server
    BY Zenon, ZenonT(60), <1>3
  <2>2. query[<<s, 1>>].state = "flight"
    BY Zenon, ZenonT(60), <1>4, <1>5, <1>8, <2>1
  <2>3. QED
    BY Zenon, ZenonT(60), <2>2 DEF AwaitedIn
<1>11. \A p \in Query : query[p].state # "over" /\ query[p].state # "working"
  <2>1. "flight" # "over" /\ "flight" # "working" /\ "unsent" # "over" /\ "unsent" # "working"
    OBVIOUS
  <2>2. QED
    BY Zenon, ZenonT(60), <1>5, <1>6, <2>1
<1>12. Tables(u, query)
  BY Zenon, ZenonT(60), <1>3 DEF Tables
<1>13. QED
  BY Zenon, ZenonT(60), <1>2, <1>3, <1>4, <1>7, <1>9, <1>10, <1>11, <1>12 DEF SInv, UInv

LEMMA StepOK ==
  ASSUME fetch_update_data = FALSE, SInv, [Next]_vars
  PROVE  SInv'
<1>1. ASSUME NEW p \in Query, _got_results(p) PROVE SInv'
  BY Zenon, ZenonT(60), <1>1, GotResultsOK
<1>2. ASSUME NEW p \in Query, _query_failed(p) PROVE SInv'
  BY Zenon, ZenonT(60), <1>2, QueryFailedOK
<1>3. ASSUME NEW p \in Query, NEW S, _got_signature_one_share(p, S) PROVE SInv'
  BY Zenon, ZenonT(60), <1>3, GotSignatureOK
<1>4. ASSUME UNCHANGED <<map, bad_shares, u, query>> PROVE SInv'
  <2>1. u' = u /\ query' = query /\ map' = map /\ bad_shares' = bad_shares
    BY <1>4
  <2>2. QED
    BY Zenon, ZenonT(60), <2>1 DEF SInv
<1>5. ASSUME NEW p \in Slot, Overwritten(p) PROVE SInv'
  BY <1>4, <1>5 DEF Overwritten
<1>6. CASE UNCHANGED vars
  BY <1>4, <1>6 DEF vars
<1>7. QED
  BY Zenon, ZenonT(60), <1>1, <1>2, <1>3, <1>5, <1>6 DEF Next, Answer

LEMMA InvEnough ==
  ASSUME SInv
  PROVE  EnoughKnown
<1>1. TypeOK
  BY Zenon, ZenonT(60) DEF SInv, UInv, MapOK, TypeOK, AwaitedIn
<1>2. Enough
  <2>1. Silent(query) = {i \in 1 .. Len(serverlist) : ~ Heard(serverlist[i])}
    BY Zenon, ZenonT(60) DEF Silent, HeardIn, Heard, L
  <2>2. \A s : (HasIn(query, s) <=> HasShares(s)) /\ (EmptyIn(query, s) <=> Empty(s))
    BY Zenon, ZenonT(60) DEF HasIn, HasShares, EmptyIn, Empty
  <2>3. ~ u.running /\ NoneAlone(query) => Promise(u.mode, query, map)
    BY Zenon, ZenonT(60) DEF SInv, UInv
  <2>4. SUFFICES ASSUME ~ u.running, \A q \in Query : ~ query[q].alone
                 PROVE  \/ Silent(query) = {}
                        \/ /\ u.mode = "MODE_WRITE"
                           /\ recoverable_versions(map) # {}
                           /\ \E f \in 1 .. Min(Silent(query)) - 1 :
                                /\ HasShares(serverlist[f])
                                /\ Cardinality({i \in f + 1 .. Min(Silent(query)) - 1 : Empty(serverlist[i])})
                                     >= EPSILON
                        \/ /\ u.mode \in {"MODE_READ", "MODE_ANYTHING"}
                           /\ recoverable_versions(map) # {}
    BY Zenon, ZenonT(60), <2>1 DEF Enough
  <2>5. Promise(u.mode, query, map)
    BY Zenon, ZenonT(60), <2>3, <2>4 DEF NoneAlone
  <2>6. \A lo, hi : {i \in lo .. hi : EmptyIn(query, serverlist[i])} = {i \in lo .. hi : Empty(serverlist[i])}
    BY Zenon, ZenonT(60), <2>2
  <2>7. QED
    BY Zenon, ZenonT(60), <2>2, <2>5, <2>6 DEF Promise
<1>3. NothingMissed
  <2>1. SUFFICES ASSUME NEW p \in Query, NEW sh \in Share, query[p].state = "over", query[p].answer[sh] # NoShare
                 PROVE  map[<<p[1], sh>>] # NoShare \/ bad_shares[<<p[1], sh>>] # NoShare
    BY Zenon, ZenonT(60) DEF NothingMissed
  <2>2. RequestOK(query[p]) /\ AnswerKept(query[p], p[1], map, bad_shares)
    BY Zenon, ZenonT(60), <2>1 DEF SInv, UInv
  <2>3. "over" # "working"
    OBVIOUS
  <2>4. query[p].todo = {}
    BY Zenon, ZenonT(60), <2>1, <2>2, <2>3 DEF RequestOK
  <2>5. QED
    BY Zenon, ZenonT(60), <2>1, <2>2, <2>4 DEF AnswerKept
<1>4. QED
  BY <1>1, <1>2, <1>3 DEF EnoughKnown

(* When an update that prepares no in-place write ends (_done), it holds   *)
(* what its mode promises, for any servers, k, N, shares and order of the  *)
(* answers, and each share of a counted answer is in the map or bad.       *)
THEOREM MapCorrect == fetch_update_data = FALSE => (Spec => []EnoughKnown)
<1> SUFFICES ASSUME fetch_update_data = FALSE
             PROVE  Spec => []EnoughKnown
  OBVIOUS
<1>1. Init => SInv
  BY InitOK
<1>2. SInv /\ [Next]_vars => SInv'
  BY StepOK
<1>3. SInv => EnoughKnown
  BY InvEnough
<1>4. QED
  BY <1>1, <1>2, <1>3, PTL DEF Spec

(* "the servermap will not be touched after this" (_done): whatever comes  *)
(* in once the update is over changes neither the map nor the bad shares.  *)
THEOREM FrozenCorrect == Spec => MapFrozen
<1>1. [Next]_vars => [~ u.running => UNCHANGED <<map, bad_shares>>]_vars
  <2>1. ASSUME NEW p \in Query, NEW S, _got_signature_one_share(p, S), ~ u.running
        PROVE  UNCHANGED <<map, bad_shares>>
    BY Zenon, ZenonT(60), <2>1 DEF _got_signature_one_share, validated
  <2>2. ASSUME NEW p \in Query, _got_results(p) \/ _query_failed(p) PROVE UNCHANGED <<map, bad_shares>>
    BY Zenon, ZenonT(60), <2>2 DEF _got_results, _query_failed
  <2>3. ASSUME NEW p \in Slot, Overwritten(p) PROVE UNCHANGED <<map, bad_shares>>
    BY <2>3 DEF Overwritten
  <2>4. QED
    BY Zenon, ZenonT(60), <2>1, <2>2, <2>3 DEF Next, Answer
<1>2. QED
  BY <1>1, PTL DEF Spec, MapFrozen
=============================================================================
