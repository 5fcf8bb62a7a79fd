----------------------------- MODULE Introducer -----------------------------
(***************************************************************************)
(* The introducer (introducer/client.py, introducer/server.py): storage    *)
(* servers publish signed, numbered announcements to one introducer, which *)
(* repeats them to the subscribed client.  An announcement is told apart   *)
(* by its sequence number; its contents, signature and nickname are left   *)
(* out, and there is the one service "storage".                            *)
(*                                                                         *)
(* Every node reaches the introducer over its own connection.  The two     *)
(* ends of a connection notice its loss independently: after the node has  *)
(* noticed and connected again, messages it sent on the earlier connection *)
(* may still be read by the introducer (the "late" ones).                  *)
(***************************************************************************)
EXTENDS Integers, Sequences

CONSTANTS Publishers,     \* the storage servers
          Subscriber,     \* the client node
          MaxSeqnum,      \* bound on how often one server publishes
          MaxLosses,      \* bound on connections lost
          MaxRestarts     \* bound on processes restarted

VARIABLES pub,    \* server -> [seqnum: the file, ann: in memory, 0 if none]
          cli,    \* the client's IntroducerClient and its cache file
          intro,  \* the introducer's memory
          link,   \* node -> "down", "versions" (asking for it), "up"
          alive,  \* node -> the introducer still has its end of the connection
          wire,   \* node -> messages to the introducer on this connection
          late,   \* node -> messages to it on the connection before
          back,   \* announcements on their way to the client
          left    \* what is left of the bounds

introVars == <<pub, cli, intro, link, alive, wire, late, back, left>>

Nodes == Publishers \cup {Subscriber}
None == [p \in Publishers |-> 0]
Fresh == [up |-> TRUE, anns |-> None, subscribers |-> {}]

(* __init__ of IntroducerClient: a process that has heard nothing; the     *)
(* cache file outlives it.  `wants`: a local subscriber exists.            *)
NewClient(cache, wants) ==
  [wants |-> wants, subscriptions |-> FALSE, inbound |-> None, got |-> None,
   cache |-> cache, tried |-> FALSE]

IntroInit ==
  /\ pub = [p \in Publishers |-> [seqnum |-> 0, ann |-> 0]]
  /\ \E wants \in BOOLEAN : cli = NewClient(None, wants)
  /\ intro = Fresh
  /\ link = [n \in Nodes |-> "down"]
  /\ alive = [n \in Nodes |-> FALSE]
  /\ wire = [n \in Nodes |-> << >>] /\ late = [n \in Nodes |-> << >>]
  /\ back = << >>
  /\ left = [losses |-> MaxLosses, restarts |-> MaxRestarts]

Publication(p, seqnum) == [op |-> "publish_v2", from |-> p, seqnum |-> seqnum]
Subscription == [op |-> "subscribe_v2"]

\* A remote call: nothing arrives when the far end is gone.
Sent(n, msgs) == IF alive[n] THEN [wire EXCEPT ![n] = @ \o msgs] ELSE wire

(* _sequencer: the number in the announcement-seqnum file, incremented.    *)
_sequencer(p) == pub[p].seqnum + 1

(* _maybe_publish, _maybe_subscribe: what a connected node sends.          *)
_maybe_publish(p, ann) == IF ann = 0 THEN << >> ELSE <<Publication(p, ann)>>
_maybe_subscribe(wants, subscriptions) ==
  IF wants /\ ~subscriptions THEN <<Subscription>> ELSE << >>

(* publish: the node announces something new.                              *)
publish(p) ==
  /\ pub[p].seqnum < MaxSeqnum
  /\ LET n == _sequencer(p) IN
     /\ pub' = [pub EXCEPT ![p] = [seqnum |-> n, ann |-> n]]
     /\ wire' = IF link[p] = "up" THEN Sent(p, _maybe_publish(p, n)) ELSE wire
  /\ UNCHANGED <<cli, intro, link, alive, late, back, left>>

(* startService/the Reconnector: a connection is made; _got_introducer     *)
(* asks for the version before using it.                                   *)
_got_introducer(n) ==
  /\ intro.up /\ link[n] = "down"
  /\ link' = [link EXCEPT ![n] = "versions"]
  /\ alive' = [alive EXCEPT ![n] = TRUE]
  /\ cli' = IF n = Subscriber THEN [cli EXCEPT !.tried = TRUE] ELSE cli
  /\ UNCHANGED <<pub, intro, wire, late, back, left>>

(* connect_failed: the first attempt of this process failed, so the cached *)
(* announcements are delivered; they are not put among the inbound ones.   *)
_load_announcements ==
  /\ link[Subscriber] = "down" /\ ~cli.tried
  /\ cli' = [cli EXCEPT !.tried = TRUE,
       !.got = IF cli.wants
               THEN [p \in Publishers |-> IF cli.cache[p] = 0 THEN @[p]
                                          ELSE cli.cache[p]]
               ELSE @]
  /\ UNCHANGED <<pub, intro, link, alive, wire, late, back, left>>

(* _got_versioned_introducer: everything is published again, and the       *)
(* subscription is sent if it was not.                                     *)
_got_versioned_introducer(n) ==
  /\ link[n] = "versions" /\ alive[n]
  /\ link' = [link EXCEPT ![n] = "up"]
  /\ wire' = Sent(n, IF n = Subscriber
                     THEN _maybe_subscribe(cli.wants, cli.subscriptions)
                     ELSE _maybe_publish(n, pub[n].ann))
  /\ cli' = IF n = Subscriber THEN [cli EXCEPT !.subscriptions = @ \/ cli.wants]
            ELSE cli
  /\ UNCHANGED <<pub, intro, alive, late, back, left>>

(* subscribe_to: a local subscriber appears after startup and is told what *)
(* is already known.                                                       *)
subscribe_to ==
  /\ ~cli.wants
  /\ cli' = [cli EXCEPT !.wants = TRUE, !.got = cli.inbound,
                        !.subscriptions = @ \/ link[Subscriber] = "up"]
  /\ wire' = IF link[Subscriber] = "up"
             THEN Sent(Subscriber, _maybe_subscribe(TRUE, cli.subscriptions))
             ELSE wire
  /\ UNCHANGED <<pub, intro, link, alive, late, back, left>>

\* The rest of losing a connection: the introducer may yet read what it was
\* sent, and its reference to the node has become a reference to nobody.
Cut(n) ==
  /\ link' = [link EXCEPT ![n] = "down"]
  /\ alive' = [alive EXCEPT ![n] = FALSE]
  /\ late' = [late EXCEPT ![n] = IF alive[n] THEN wire[n] ELSE << >>]
  /\ wire' = [wire EXCEPT ![n] = << >>]
  /\ back' = IF n = Subscriber THEN << >> ELSE back
  /\ intro' = IF n = Subscriber /\ "now" \in intro.subscribers
              THEN [intro EXCEPT !.subscribers = {"late"}] ELSE intro

_disconnected_subscribed(n) == cli

(* _disconnected: the node notices; the subscription must be sent again.   *)
_disconnected(n) ==
  IF n = Subscriber THEN [cli EXCEPT !.subscriptions = FALSE] ELSE cli

Disconnected(n) ==
  /\ link[n] # "down"
  /\ alive[n] => left.losses > 0
  /\ left' = IF alive[n] THEN [left EXCEPT !.losses = @ - 1] ELSE left
  /\ Cut(n)
  /\ cli' = _disconnected(n)
  /\ UNCHANGED pub

(* _remove, called when the introducer notices that the connection before  *)
(* is gone: only that connection's reference is forgotten.                 *)
_remove(subscribers) == subscribers \ {"late"}

RemoveLate(n) ==
  /\ late[n] # << >> \/ (n = Subscriber /\ "late" \in intro.subscribers)
  /\ late' = [late EXCEPT ![n] = << >>]
  /\ intro' = IF n = Subscriber
              THEN [intro EXCEPT !.subscribers = _remove(@)] ELSE intro
  /\ UNCHANGED <<pub, cli, link, alive, wire, back, left>>

\* The introducer notices first: what it was still to read is lost, and what
\* it had sent may be read until the node notices too.
NoticedFirst(n) ==
  /\ alive[n] /\ left.losses > 0
  /\ left' = [left EXCEPT !.losses = @ - 1]
  /\ alive' = [alive EXCEPT ![n] = FALSE]
  /\ wire' = [wire EXCEPT ![n] = << >>]
  /\ intro' = IF n = Subscriber
              THEN [intro EXCEPT !.subscribers = @ \ {"now"}] ELSE intro
  /\ UNCHANGED <<pub, cli, link, late, back>>

(* _publish's checks: a known announcement is ignored, and one that does   *)
(* not beat the number of the one we have is not used.                     *)
_publish(anns, m) == m.seqnum # anns[m.from] /\ m.seqnum > anns[m.from]

(* add_subscriber: a new subscriber is told all we know, in one message.   *)
add_subscriber(i, conn) ==
  IF conn \in i.subscribers THEN <<i, << >> >>
  ELSE <<[i EXCEPT !.subscribers = @ \cup {conn}],
         IF i.anns = None THEN << >> ELSE << i.anns >> >>

\* What the introducer does with the message m read from connection conn,
\* and the announcements it sends to the client's current connection.
Handle(i, m, conn) ==
  IF m.op = "subscribe_v2"
  THEN LET r == add_subscriber(i, conn) IN
       <<r[1], IF conn = "now" THEN r[2] ELSE << >> >>
  ELSE IF _publish(i.anns, m)
       THEN <<[i EXCEPT !.anns[m.from] = m.seqnum],
              IF "now" \in i.subscribers
              THEN << [None EXCEPT ![m.from] = m.seqnum] >> ELSE << >> >>
       ELSE <<i, << >> >>

(* remote_publish_v2, remote_subscribe_v2.                                 *)
Remote(n) ==
  /\ intro.up /\ wire[n] # << >>
  /\ \E r \in {Handle(intro, Head(wire[n]), "now")} :
       intro' = r[1] /\ back' = back \o r[2]
  /\ wire' = [wire EXCEPT ![n] = Tail(@)]
  /\ UNCHANGED <<pub, cli, link, alive, late, left>>

RemoteLate(n) ==
  /\ intro.up /\ late[n] # << >>
  /\ \E r \in {Handle(intro, Head(late[n]), "late")} :
       intro' = r[1] /\ back' = back \o r[2]
  /\ late' = [late EXCEPT ![n] = Tail(@)]
  /\ UNCHANGED <<pub, cli, link, alive, wire, left>>

(* _process_announcement's checks: one we care about, not a duplicate, and *)
(* newer than what we have.                                                *)
_process_announcement(c, p, seqnum) ==
  /\ c.wants
  /\ seqnum # c.inbound[p] /\ seqnum > c.inbound[p]

(* _save_announcements: the cache file holds what this process heard.      *)
_save_announcements(inbound) == inbound

(* remote_announce_v2, got_announcements: each announcement of the message *)
(* is taken or not, the cache is saved, and the local subscriber told.     *)
got_announcements ==
  /\ back # << >> /\ link[Subscriber] = "up"
  /\ LET taken == {p \in Publishers : /\ Head(back)[p] # 0
                                      /\ _process_announcement(cli, p, Head(back)[p])}
         New(f) == [p \in Publishers |-> IF p \in taken THEN Head(back)[p] ELSE f[p]]
     IN cli' = IF taken = {} THEN cli
               ELSE [cli EXCEPT !.inbound = New(@), !.got = New(@),
                                !.cache = _save_announcements(New(cli.inbound))]
  /\ back' = Tail(back)
  /\ UNCHANGED <<pub, intro, link, alive, wire, late, left>>

(* The introducer's process ends: it keeps nothing on disk.                *)
IntroducerStops ==
  /\ intro.up /\ left.restarts > 0
  /\ left' = [left EXCEPT !.restarts = @ - 1]
  /\ intro' = [Fresh EXCEPT !.up = FALSE]
  /\ alive' = [n \in Nodes |-> FALSE]
  /\ wire' = [n \in Nodes |-> << >>] /\ late' = [n \in Nodes |-> << >>]
  /\ UNCHANGED <<pub, cli, link, back>>

IntroducerStarts ==
  /\ ~intro.up
  /\ intro' = Fresh
  /\ UNCHANGED <<pub, cli, link, alive, wire, late, back, left>>

(* A server's process is restarted: the seqnum file is all it keeps.       *)
PublisherRestarts(p) ==
  /\ left.restarts > 0 /\ pub[p].ann # 0
  /\ left' = [left EXCEPT !.restarts = @ - 1]
  /\ pub' = [pub EXCEPT ![p].ann = 0]
  /\ Cut(p)
  /\ UNCHANGED cli

(* The client's process is restarted: the cache file is all it keeps.      *)
ClientRestarts ==
  /\ left.restarts > 0
  /\ left' = [left EXCEPT !.restarts = @ - 1]
  /\ \E wants \in BOOLEAN : cli' = NewClient(cli.cache, wants)
  /\ Cut(Subscriber)
  /\ UNCHANGED pub

IntroNext ==
  \/ \E p \in Publishers : publish(p) \/ PublisherRestarts(p)
  \/ \E n \in Nodes : \/ _got_introducer(n) \/ _got_versioned_introducer(n)
                      \/ Disconnected(n) \/ RemoveLate(n) \/ NoticedFirst(n)
                      \/ Remote(n) \/ RemoteLate(n)
  \/ _load_announcements \/ subscribe_to \/ got_announcements
  \/ IntroducerStops \/ IntroducerStarts \/ ClientRestarts

IntroSpec == IntroInit /\ [][IntroNext]_introVars

-----------------------------------------------------------------------------
Settled ==
  /\ intro.up /\ cli.wants
  /\ \A n \in Nodes : link[n] = "up" /\ alive[n] /\ wire[n] = << >>
  /\ back = << >>

(* Once every node is connected and nothing it sent on its connection is   *)
(* still on the way, the client uses each server's newest announcement,    *)
(* whatever was lost, read late or restarted before (_maybe_publish's "the *)
(* Introducer ignores duplicates", _subscriptions.clear, _remove).         *)
Converged ==
  Settled => \A p \in Publishers : pub[p].ann # 0 => cli.got[p] = pub[p].ann

(* A client never goes back to an older announcement of a server: not      *)
(* while it runs, and not after a restart to one older than it had saved   *)
(* (the seqnum checks of _process_announcement and _publish).              *)
NoRollback ==
  \A p \in Publishers :
    cli'.got[p] # cli.got[p] /\ cli'.got[p] # 0
      => cli'.got[p] > cli.got[p] /\ cli'.got[p] >= cli.cache[p]
=============================================================================
