---------------------------- MODULE StorageFarm -----------------------------
(***************************************************************************)
(* The client's view of the storage servers (storage_client.py): the       *)
(* StorageFarmBroker, which keeps one descriptor per announced server and  *)
(* replaces it when the announcement changes, and the two kinds of         *)
(* descriptor, NativeStorageServer (a Foolscap Reconnector) and            *)
(* HTTPNativeStorageServer (a LoopingCall that polls one of the NURLs).    *)
(*                                                                         *)
(* An announcement is its server, a number telling its contents apart and  *)
(* the protocol it leads to.  Descriptors are numbered as they are made;   *)
(* the replaced ones are kept, since their callbacks may still come.       *)
(* Foolscap's Reconnector and the HTTP connection are external: what they  *)
(* report is chosen freely.                                                *)
(***************************************************************************)
EXTENDS Integers, Sequences, FiniteSets

CONSTANTS Servers,       \* server ids
          Static,        \* the ones configured statically
          Announcements, \* records [server, contents, protocol]
          NURLs,         \* the NURLs of an HTTP announcement
          Thresholds,    \* what when_connected_enough may be asked for
          MaxDescs,      \* bound on descriptors made
          MaxBreaks      \* bound on connections lost and polls failed

VARIABLES servers,   \* server -> its descriptor, 0 if none
          descs,     \* the descriptors, in the order they were made
          high,      \* _connected_high_water_mark
          listeners, \* thresholds whose Deferred has not been fired
          fired,     \* thresholds whose Deferred has been fired
          trigger,   \* a _trigger_connections is queued
          breaks     \* losses and failures so far

farmVars == <<servers, descs, high, listeners, fired, trigger, breaks>>

IsConnected(d) == IF d.ann.protocol = "http" THEN d.status = "connected"
                  ELSE d.is_connected

(* _make_storage_server, _should_we_use_http, _make_storage_system, and    *)
(* the __init__ of the descriptors: a server whose announcement matches no *)
(* protocol we speak gets a _NullStorage, which never connects.            *)
_make_storage_server(ann) ==
  IF ann.protocol = "http"
  THEN [ann |-> ann, loop |-> FALSE, connecting |-> "no", asked |-> {},
        istorage_server |-> FALSE, status |-> "unstarted"]
  ELSE [ann |-> ann, reconnector |-> FALSE, conn |-> "no", rref |-> "None",
        is_connected |-> FALSE]

get_connected_servers(ss, ds) == {s \in Servers : ss[s] # 0 /\ IsConnected(ds[ss[s]])}

(* _check_connected_high_water_mark.                                       *)
_check_connected_high_water_mark(ss, ds, h, ls) ==
  LET current == Cardinality(get_connected_servers(ss, ds))
      mark == IF current > h THEN current ELSE h
  IN [high |-> mark, due |-> {t \in ls : mark >= t}]

\* The state becomes ss, ds, and the listeners ls are looked at if `notify`.
Become(ss, ds, ls, notify) ==
  \E r \in {IF notify THEN _check_connected_high_water_mark(ss, ds, high, ls)
            ELSE [high |-> high, due |-> {}]} :
    /\ servers' = ss /\ descs' = ds
    /\ high' = r.high /\ listeners' = ls \ r.due /\ fired' = fired \cup r.due

(* HTTP _connect: an attempt already running is not doubled.               *)
_connect(d) ==
  IF d.connecting # "no" THEN d
  ELSE IF d.istorage_server THEN [d EXCEPT !.connecting = "version"]
  ELSE [d EXCEPT !.connecting = "picking", !.asked = NURLs]

(* _make_storage_system: the storage of an announcement we know the        *)
(* protocol of; any other is a _NullStorage, without a Reconnector.        *)
_make_storage_system(ann) == ann.protocol = "foolscap"

(* start_connecting: the Reconnector, or the loop, whose first poll is     *)
(* made at once.                                                           *)
start_connecting(d) ==
  IF d.ann.protocol = "http" THEN _connect([d EXCEPT !.loop = TRUE])
  ELSE [d EXCEPT !.reconnector = _make_storage_system(d.ann)]

(* _failed_to_connect, with done: the poll is over.                        *)
_failed_to_connect(d) == [d EXCEPT !.status = "failed", !.connecting = "no", !.asked = {}]

(* stopService: the loop ends.                                             *)
stopService(d) == IF d.ann.protocol = "http" THEN [d EXCEPT !.loop = FALSE] ELSE d

(* stop_connecting and disownServiceParent (stopService) of a descriptor   *)
(* that is replaced: the poll is cancelled; Foolscap's Tub closes the      *)
(* connection later.                                                       *)
stop_connecting(d) ==
  IF d.ann.protocol = "http" THEN _failed_to_connect(stopService(d))
  ELSE [d EXCEPT !.reconnector = FALSE]

(* set_static_servers: the configured servers, in order.                   *)
StaticAnnouncement(s) == [server |-> s, contents |-> 0, protocol |-> "foolscap"]

FarmInit ==
  /\ \E order \in {f \in [1..Cardinality(Static) -> Static] :
                     \A i, j \in DOMAIN f : f[i] = f[j] => i = j} :
       /\ descs = [i \in DOMAIN order |->
                     start_connecting(_make_storage_server(StaticAnnouncement(order[i])))]
       /\ servers = [s \in Servers |-> IF s \in Static
                       THEN CHOOSE i \in DOMAIN order : order[i] = s ELSE 0]
  /\ high = 0 /\ listeners = {} /\ fired = {} /\ trigger = FALSE /\ breaks = 0

(* _should_ignore_announcement.                                            *)
_should_ignore_announcement(ann) ==
  \/ ann.server \in Static
  \/ servers[ann.server] # 0 /\ descs[servers[ann.server]].ann = ann

_got_announcement(ann) ==
  /\ Len(descs) < MaxDescs
  /\ ~_should_ignore_announcement(ann)
  /\ LET old == servers[ann.server]
         ds == Append(IF old = 0 THEN descs
                      ELSE [descs EXCEPT ![old] = stop_connecting(@)],
                      start_connecting(_make_storage_server(ann)))
     IN \* the old HTTP descriptor reports its end before it is replaced
        Become([servers EXCEPT ![ann.server] = Len(ds)], ds, listeners,
               old # 0 /\ descs[old].ann.protocol = "http")
  /\ UNCHANGED <<trigger, breaks>>

when_connected_enough(t) ==
  /\ t \notin listeners \cup fired
  /\ Become(servers, descs, listeners \cup {t}, TRUE)
  /\ UNCHANGED <<trigger, breaks>>

(* _trigger_connections: every server now known is told to hurry; a        *)
(* Reconnector is always about to try.                                     *)
_trigger_connections ==
  /\ trigger
  /\ trigger' = FALSE
  /\ descs' = [i \in DOMAIN descs |->
       IF descs[i].ann.protocol = "http" /\ servers[descs[i].ann.server] = i
       THEN _connect(descs[i]) ELSE descs[i]]
  /\ UNCHANGED <<servers, high, listeners, fired, breaks>>

Native(i) == descs[i].ann.protocol # "http"
Update(i, d, notify) == Become(servers, [descs EXCEPT ![i] = d], listeners, notify)

(* NativeStorageServer._got_connection: the version is asked for, and the  *)
(* other servers are tried.                                                *)
_got_connection(i) ==
  /\ Native(i) /\ descs[i].reconnector /\ descs[i].conn = "no"
  /\ Update(i, [descs[i] EXCEPT !.conn = "version"], FALSE)
  /\ trigger' = TRUE /\ UNCHANGED breaks

(* _got_versioned_service; the broker is notified.                         *)
_got_versioned_service(i) ==
  /\ Native(i) /\ descs[i].conn = "version"
  /\ Update(i, [descs[i] EXCEPT !.conn = "up", !.rref = "live", !.is_connected = TRUE],
            TRUE)
  /\ UNCHANGED <<trigger, breaks>>

(* _lost: the stale reference is left in place.                            *)
_lost(d) == [d EXCEPT !.conn = "no", !.is_connected = FALSE, !.rref = "stale"]

\* A connection is lost: by the network, or since its Tub was stopped.
Lost(i) ==
  /\ Native(i) /\ descs[i].conn # "no"
  /\ descs[i].reconnector => breaks < MaxBreaks
  /\ breaks' = IF descs[i].reconnector THEN breaks + 1 ELSE breaks
  /\ Update(i, IF descs[i].conn = "up" THEN _lost(descs[i])
               ELSE [descs[i] EXCEPT !.conn = "no"], FALSE)
  /\ UNCHANGED trigger

(* The LoopingCall's next round, once the last poll is over.               *)
Poll(i) ==
  /\ ~Native(i) /\ descs[i].loop /\ descs[i].connecting = "no"
  /\ Update(i, _connect(descs[i]), FALSE)
  /\ UNCHANGED <<trigger, breaks>>

(* _pick_a_http_server, race: the first NURL to answer is used, and the    *)
(* other requests are cancelled; when all have failed, so has the poll.    *)
Picked(i) ==
  /\ ~Native(i) /\ descs[i].connecting = "picking"
  /\ Update(i, [descs[i] EXCEPT !.istorage_server = TRUE, !.connecting = "version",
                                !.asked = {}], FALSE)
  /\ UNCHANGED <<trigger, breaks>>

NotPicked(i, u) ==
  /\ ~Native(i) /\ u \in descs[i].asked /\ breaks < MaxBreaks
  /\ breaks' = breaks + 1
  /\ LET d == [descs[i] EXCEPT !.asked = @ \ {u}] IN
     IF d.asked = {} THEN Update(i, _failed_to_connect(d), TRUE) ELSE Update(i, d, FALSE)
  /\ UNCHANGED trigger

(* HTTP _got_version, with done; the broker is notified.                   *)
_got_version(i) ==
  /\ ~Native(i) /\ descs[i].connecting = "version"
  /\ Update(i, [descs[i] EXCEPT !.status = "connected", !.connecting = "no"], TRUE)
  /\ UNCHANGED <<trigger, breaks>>

\* The version request fails, or the poll's five seconds are over.
PollFails(i) ==
  /\ ~Native(i) /\ descs[i].connecting # "no" /\ breaks < MaxBreaks
  /\ breaks' = breaks + 1
  /\ Update(i, _failed_to_connect(descs[i]), TRUE)
  /\ UNCHANGED trigger

FarmNext ==
  \/ \E ann \in Announcements : _got_announcement(ann)
  \/ \E t \in Thresholds : when_connected_enough(t)
  \/ _trigger_connections
  \/ \E i \in DOMAIN descs : \/ _got_connection(i) \/ _got_versioned_service(i)
                             \/ Lost(i) \/ Poll(i) \/ Picked(i) \/ _got_version(i)
                             \/ PollFails(i) \/ \E u \in NURLs : NotPicked(i, u)

FarmSpec == FarmInit /\ [][FarmNext]_farmVars

-----------------------------------------------------------------------------
(* get_storage_server: what an upload or download holding the descriptor   *)
(* gets.                                                                   *)
get_storage_server(d) ==
  IF d.ann.protocol = "http" THEN d.istorage_server /\ d.status # "unstarted"
  ELSE d.rref # "None"

(* Nobody waits for fewer servers than are connected now, or ever were     *)
(* (when_connected_enough: "fires if/when our high water mark ... becomes  *)
(* (or ever was) above threshold"): every change that connects a server is *)
(* noticed, also by the descriptor that replaced another.                  *)
ThresholdsFire ==
  /\ high >= Cardinality(get_connected_servers(servers, descs))
  /\ \A t \in listeners : t > high

(* Only the descriptors in use try to connect: one that was replaced by a  *)
(* newer announcement polls no more (stop_connecting, "used when this      *)
(* descriptor has been superceded by another").                            *)
OnlyCurrentTry ==
  \A i \in DOMAIN descs :
    servers[descs[i].ann.server] # i =>
      IF Native(i) THEN ~descs[i].reconnector
      ELSE ~descs[i].loop /\ descs[i].connecting = "no" /\ ~IsConnected(descs[i])

(* A server once seen connected can be used by whoever holds its           *)
(* descriptor, whatever happens to the connection afterwards: _lost leaves *)
(* the stale reference so that uploads and downloads need "not worry about *)
(* it being None", and a poll that fails keeps the HTTP client.            *)
NeverTakenAway ==
  \A i \in DOMAIN descs :
    /\ IsConnected(descs'[i]) => get_storage_server(descs'[i])
    /\ get_storage_server(descs[i]) => get_storage_server(descs'[i])

-----------------------------------------------------------------------------
(***************************************************************************)
(* Grid Manager certificates from issue to use: the grid-manager commands  *)
(* and their directory (grid_manager.py, cli/grid_manager.py), the storage *)
(* server that is given certificates and announces them (scripts/admin.py, *)
(* node.py, client.py), and the client that asks before each upload        *)
(* whether the server is permitted (create_grid_manager_verifier).         *)
(*                                                                         *)
(* A certificate is who signed it, whose key it is for and when it         *)
(* expires; signatures and encodings are left out.  Time is in days.       *)
(***************************************************************************)
CONSTANTS Names,       \* labels of storage servers
          Keys,        \* public keys of storage servers
          Managers,    \* the grid managers that sign
          Trusted,     \* the ones whose key the client is configured with
          Days,        \* validities asked of sign
          MaxCerts,    \* bound on the certificates that are signed
          MaxDay       \* bound on the clock

VARIABLES config,    \* manager -> its config.json: name -> key, or NoKey
          files,     \* manager -> the .cert files: [name, index, cert]
          disk,      \* key -> certificates in the server's configuration
          announced, \* key -> certificates in its announcement
          now,       \* the clock
          issued     \* ghost: [cert, name, day] ever signed

gmVars == <<config, files, disk, announced, now, issued>>

NoKey == "NoKey"

GMInit ==
  /\ config = [m \in Managers |-> [n \in Names |-> NoKey]]
  /\ files = [m \in Managers |-> {}]
  /\ disk = [k \in Keys |-> {}] /\ announced = [k \in Keys |-> {}]
  /\ now = 0 /\ issued = {}

File(m, n, i) == {f \in files[m] : f.name = n /\ f.index = i}

(* save_grid_manager, load_grid_manager: every command reads config.json   *)
(* and writes it again.                                                    *)
save_grid_manager(m, entries) == config' = [config EXCEPT ![m] = entries]
load_grid_manager(m) == config[m]

(* add_storage_server, remove_storage_server, for a name that is free, or  *)
(* taken.                                                                  *)
add_storage_server(entries, n, k) == [entries EXCEPT ![n] = k]
remove_storage_server(entries, n) == [entries EXCEPT ![n] = NoKey]

(* add: a name is used once.                                               *)
add(m, n, k) ==
  /\ config[m][n] = NoKey
  /\ save_grid_manager(m, add_storage_server(load_grid_manager(m), n, k))
  /\ UNCHANGED <<files, disk, announced, now, issued>>

(* remove's loop: the files of a name, from index 0 while there is one.    *)
CertsOf(m, n) ==
  {f \in files[m] : f.name = n /\ \A i \in 0..f.index : File(m, n, i) # {}}

(* remove: the certificates of the name go first,                          *)
(* then the server.                                                        *)
Removed(m, n) == CertsOf(m, n)

remove(m, n) ==
  /\ config[m][n] # NoKey
  /\ files' = [files EXCEPT ![m] = @ \ Removed(m, n)]
  /\ save_grid_manager(m, remove_storage_server(load_grid_manager(m), n))
  /\ UNCHANGED <<disk, announced, now, issued>>

(* sign's next_serial: the first name that can be created.                 *)
NextSerial(m, n) ==
  CHOOSE i \in 0..MaxCerts : File(m, n, i) = {} /\ \A j \in 0..(i - 1) : File(m, n, j) # {}

(* _GridManager.sign and the sign command.                                 *)
sign(m, n, days) ==
  /\ config[m][n] # NoKey /\ Cardinality(files[m]) < MaxCerts /\ Cardinality(issued) < MaxCerts
  /\ LET cert == [by |-> m, public_key |-> config[m][n], expires |-> now + days]
         i == NextSerial(m, n)
     IN /\ files' = [files EXCEPT ![m] = (@ \ File(m, n, i))
                       \cup {[name |-> n, index |-> i, cert |-> cert]}]
        /\ issued' = issued \cup {[cert |-> cert, name |-> n, day |-> now]}
  /\ UNCHANGED <<config, disk, announced, now>>

(* add_grid_manager_cert: the operator gives any certificate that was      *)
(* issued to a server, which does not look whose it is.                    *)
add_grid_manager_cert(k, cert) ==
  /\ cert \notin disk[k]
  /\ disk' = [disk EXCEPT ![k] = @ \cup {cert}]
  /\ UNCHANGED <<config, files, announced, now, issued>>

(* get_grid_manager_certificates, init_storage: the server starts and      *)
(* announces what is in its configuration.                                 *)
Announce(k) ==
  /\ announced[k] # disk[k]
  /\ announced' = [announced EXCEPT ![k] = disk[k]]
  /\ UNCHANGED <<config, files, disk, now, issued>>

Tomorrow ==
  /\ now < MaxDay
  /\ now' = now + 1
  /\ UNCHANGED <<config, files, disk, announced, issued>>

GMNext ==
  \/ \E m \in Managers, n \in Names :
       \/ \E k \in Keys : add(m, n, k)
       \/ remove(m, n)
       \/ \E d \in Days : sign(m, n, d)
  \/ \E k \in Keys : Announce(k) \/ \E i \in issued : add_grid_manager_cert(k, i.cert)
  \/ Tomorrow

GMSpec == GMInit /\ [][GMNext]_gmVars

-----------------------------------------------------------------------------
(* validate_grid_manager_certificate against each configured key, once,    *)
(* when the descriptor of the server is made.                              *)
valid_certs(k) == {c \in announced[k] : c.by \in Trusted}

(* validate, called for each upload: with no configured key everything is  *)
(* permitted.                                                              *)
upload_permitted(k) ==
  Trusted = {} \/ \E c \in valid_certs(k) : c.public_key = k /\ c.expires > now

(* _load_certificates_for: what load_grid_manager finds for a name.        *)
Loaded(m, n) == {f.cert : f \in CertsOf(m, n)}

(* A client uploads only to a server which a manager it trusts registered  *)
(* under this very key and signed for, not longer ago than the validity it *)
(* was given; another server's certificate, or an untrusted manager's,     *)
(* does not help it.                                                       *)
PermittedOnlyWhileSigned ==
  Trusted # {} =>
    \A k \in Keys : upload_permitted(k) =>
      \E i \in issued : /\ i.cert.by \in Trusted /\ i.cert.public_key = k
                        /\ now - i.day < i.cert.expires - i.day
                        /\ \E d \in Days : i.cert.expires = i.day + d

(* The directory of a manager is whole: loading it finds every certificate *)
(* file, all of them issued for the key the name has now, also after the   *)
(* name was removed and used again for another server.                     *)
CertificatesFound ==
  \A m \in Managers : \A f \in files[m] :
    /\ f.cert \in Loaded(m, f.name)
    /\ f.cert.public_key = config[m][f.name]

(* No certificate is written over: sign takes a free serial number, and    *)
(* only remove deletes.                                                    *)
NoneOverwritten ==
  \A m \in Managers : \A f \in files[m] \ files'[m] : config'[m][f.name] = NoKey
=============================================================================
