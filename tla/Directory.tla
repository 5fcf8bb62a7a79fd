------------------------------ MODULE Directory ------------------------------
(***************************************************************************)
(* Directories that several clients change at once (dirnode.py): adding,   *)
(* deleting and moving children and setting their metadata.  A directory   *)
(* is the contents of a mutable file; each change is a modifier that       *)
(* MutableFileVersion.modify applies to the contents it downloaded, and    *)
(* applies again to fresh contents after an UncoordinatedWriteError.       *)
(*                                                                         *)
(* The mutable file is modelled by what MutableFile.tla shows of it: a     *)
(* publish over a version that is no longer the current one is refused,    *)
(* and one that got through may still be reported as uncoordinated.  Time  *)
(* is counted in versions of the directory.                                *)
(***************************************************************************)
EXTENDS Naturals, FiniteSets

CONSTANTS Dirs,        \* the directories
          Names,       \* normalized names of children
          Folders,     \* the children that are directories; others are files
          Contents0,   \* their initial contents
          Clients,
          Requests,    \* what a client may ask for
          MaxRetries,  \* BackoffAgent: tries after the first
          MaxSurprises \* bound on publishes wrongly reported uncoordinated

VARIABLES contents,  \* directory -> name -> entry
          version,   \* directory -> its version
          op,        \* client -> its operation
          left,      \* surprises that may still happen
          touched    \* ghost: client -> links others changed since it began

dirVars == <<contents, version, op, left, touched>>

NoEntry == [child |-> "", rw |-> FALSE, nowrite |-> FALSE, ctime |-> 0, crtime |-> 0, motime |-> 0]
NoRequest == [kind |-> ""]

(* A client's operation: the request, the step of it, the contents and     *)
(* version it works from, the tries so far, the child a move carries.      *)
Idle == [req |-> NoRequest, step |-> "idle", dir |-> "", old |-> <<>>, base |-> 0,
         tries |-> 0, carried |-> NoEntry, result |-> ""]

DirInit ==
  /\ contents = Contents0
  /\ version = [d \in Dirs |-> 1]
  /\ op = [c \in Clients |-> Idle]
  /\ left = MaxSurprises
  /\ touched = [c \in Clients |-> {}]

-----------------------------------------------------------------------------
(* What a modifier makes of one name: [error], or the new entry.           *)
Error(e) == [error |-> e, entry |-> NoEntry]
Entry(x) == [error |-> "", entry |-> x]

(* update_metadata: everything is overwritten but the creation time of the *)
(* link, which older versions kept in ctime.                               *)
update_metadata(old, nowrite, now) ==
  [old EXCEPT !.nowrite = nowrite, !.ctime = 0,
              !.crtime = CASE old.crtime # 0 -> old.crtime
                           [] old.crtime = 0 /\ old.ctime # 0 -> old.ctime
                           [] OTHER -> now,
              !.motime = now]

(* With no metadata given, what is there stays, ctime included.            *)
refresh_metadata(old, now) ==
  [update_metadata(old, old.nowrite, now) EXCEPT !.ctime = old.ctime]

(* _create_readonly_node for a link that is not to be written through.     *)
Diminished(entry) == [entry EXCEPT !.rw = entry.rw /\ ~entry.nowrite]

Adder_checked_once(old, req, child, now, first_time) ==
  IF old # NoEntry /\ first_time /\ (req.overwrite = "no" \/ (req.overwrite = "only files" /\ old.child \in Folders))
  THEN Error("ExistingChildError")
  ELSE Entry(Diminished([refresh_metadata(old, now) EXCEPT !.child = child.child, !.rw = child.rw]))

(* Adder.modify for one entry; req.meta is "none", or what no-write is set *)
(* to.                                                                     *)
Adder(old, req, child, now, first_time) ==
  IF old # NoEntry /\ (req.overwrite = "no" \/ (req.overwrite = "only files" /\ old.child \in Folders))
  THEN Error("ExistingChildError")
  ELSE LET meta == IF child.meta = "none" THEN refresh_metadata(old, now)
                   ELSE [update_metadata(old, child.meta = "no-write", now) EXCEPT !.ctime = child.ctime]
       IN Entry(Diminished([meta EXCEPT !.child = child.child, !.rw = child.rw]))

(* Deleter.modify.                                                         *)
Deleter(old, req, first_time) ==
  CASE old = NoEntry -> IF first_time /\ req.must_exist THEN Error("NoSuchChildError") ELSE Entry(NoEntry)
    [] old # NoEntry /\ req.must_be = "directory" /\ old.child \notin Folders -> Error("ChildOfWrongTypeError")
    [] old # NoEntry /\ req.must_be = "file" /\ old.child \in Folders -> Error("ChildOfWrongTypeError")
    [] OTHER -> Entry(NoEntry)

(* MetadataSetter.modify.                                                  *)
MetadataSetter(old, req, now) ==
  IF old = NoEntry THEN Error("NoSuchChildError")
  ELSE Entry(Diminished(update_metadata(old, req.meta = "no-write", now)))

-----------------------------------------------------------------------------
(* The modifications a request consists of: a move adds to the new parent  *)
(* what it read, then deletes from the old one.                            *)
Work(r, step) ==
  CASE r.kind = "move" /\ step = "add" -> [kind |-> "add", dir |-> r.to_dir, name |-> r.to_name]
    [] r.kind = "move" /\ step = "delete" -> [kind |-> "delete", dir |-> r.dir, name |-> r.name]
    [] OTHER -> [kind |-> r.kind, dir |-> r.dir, name |-> r.name]

(* The modifier of client c's current step, applied to the contents it has.*)
Modify(c) ==
  LET o == op[c]
      r == o.req
      w == Work(r, o.step)
      old == o.old[w.name]
      first_time == o.tries = 0
      carried == [child |-> o.carried.child, rw |-> o.carried.rw, ctime |-> o.carried.ctime,
                  meta |-> IF o.carried.nowrite THEN "no-write" ELSE "write"]
  IN CASE w.kind = "add" -> Adder(old, r, IF r.kind = "move" THEN carried ELSE r, o.base, first_time)
       [] w.kind = "delete" -> Deleter(old, IF r.kind = "move" THEN [must_exist |-> TRUE, must_be |-> "any"]
                                            ELSE r, first_time)
       [] w.kind = "set_metadata_for" -> MetadataSetter(old, r, o.base)

-----------------------------------------------------------------------------
Set(c, o) == op' = [op EXCEPT ![c] = o]

(* Finish a step of c's request: a move goes on to the delete.             *)
Stepped(o) ==
  IF o.req.kind = "move" /\ o.step = "add"
  THEN [o EXCEPT !.step = "delete", !.dir = o.req.dir, !.base = 0, !.old = <<>>, !.tries = 0]
  ELSE [o EXCEPT !.step = "done", !.result = "ok", !.base = 0, !.old = <<>>]

Failed(o, e) == [o EXCEPT !.step = "done", !.result = e, !.base = 0, !.old = <<>>]

(* set_node, set_uri, set_nodes, add_file, create_subdirectory, delete,    *)
(* set_metadata_for.                                                       *)
Begin(c, r) ==
  /\ op[c] = Idle /\ r.kind # "move"
  /\ Set(c, [Idle EXCEPT !.req = r, !.step = r.kind, !.dir = r.dir])
  /\ touched' = [touched EXCEPT ![c] = {}]
  /\ UNCHANGED <<contents, version, left>>

(* A link moved onto itself would be deleted.                              *)
Redundant(c, r) == r.dir = r.to_dir /\ r.name = r.to_name

(* move_child_to: the child is read first.                                 *)
move_child_to(c, r) ==
  /\ op[c] = Idle /\ r.kind = "move"
  /\ LET o == [Idle EXCEPT !.req = r, !.step = "add", !.dir = r.to_dir, !.carried = contents[r.dir][r.name]]
     IN Set(c, CASE Redundant(c, r) -> [o EXCEPT !.step = "done", !.result = "redundant"]
                 [] ~Redundant(c, r) /\ contents[r.dir][r.name] = NoEntry -> Failed(o, "NoSuchChildError")
                 [] OTHER -> o)
  /\ touched' = [touched EXCEPT ![c] = {}]
  /\ UNCHANGED <<contents, version, left>>

Working == {"add", "delete", "set_metadata_for"}

(* _update_servermap and the download of _modify_once.                     *)
Download(c) ==
  /\ op[c].step \in Working /\ op[c].base = 0
  /\ Set(c, [op[c] EXCEPT !.old = contents[op[c].dir], !.base = version[op[c].dir]])
  /\ UNCHANGED <<contents, version, left, touched>>

(* _apply when the modifier raises, or has nothing to change at first.     *)
NoPublish(c) ==
  /\ op[c].base # 0
  /\ LET m == Modify(c)
         o == op[c]
     IN /\ \/ m.error # ""
           \/ o.tries = 0 /\ m.entry = o.old[Work(o.req, o.step).name]
        /\ Set(c, IF m.error # "" THEN Failed(o, m.error) ELSE Stepped(o))
  /\ UNCHANGED <<contents, version, left, touched>>

(* BackoffAgent.delay: another try is allowed.                             *)
delay(c) == op[c].tries < MaxRetries

(* _retry: the contents are downloaded again.                              *)
_retry(c) ==
  IF delay(c) THEN [op[c] EXCEPT !.tries = @ + 1, !.base = 0, !.old = <<>>]
  ELSE Failed(op[c], "UncoordinatedWriteError")

(* _pack_contents of the children the modifier unpacked and changed.       *)
_pack_contents(old, n, entry) == [old EXCEPT ![n] = entry]

(* _apply: publish what the modifier made of the downloaded contents.      *)
Publish(c) ==
  /\ op[c].base # 0
  /\ LET m == Modify(c)
         o == op[c]
         d == o.dir
         n == Work(o.req, o.step).name
     IN /\ m.error = "" /\ (o.tries = 0 => m.entry # o.old[n])
        /\ \/ version[d] = o.base
              /\ contents' = [contents EXCEPT ![d] = _pack_contents(o.old, n, m.entry)]
              /\ version' = [version EXCEPT ![d] = @ + 1]
              /\ touched' = [x \in Clients |-> IF x = c \/ m.entry = o.old[n] THEN touched[x]
                                               ELSE touched[x] \cup {<<d, n>>}]
              /\ \/ Set(c, Stepped(o)) /\ UNCHANGED left
                 \/ left > 0 /\ left' = left - 1 /\ Set(c, _retry(c))
           \/ version[d] # o.base
              /\ Set(c, _retry(c)) /\ UNCHANGED <<contents, version, left, touched>>

DirNext ==
  \E c \in Clients :
    \/ \E r \in Requests : Begin(c, r) \/ move_child_to(c, r)
    \/ Download(c) \/ NoPublish(c) \/ Publish(c)

DirSpec == DirInit /\ [][DirNext]_dirVars

-----------------------------------------------------------------------------
(* Whose request changes link d/n.                                         *)
About(c, d, n) == LET w == Work(op[c].req, op[c].step) IN w.dir = d /\ w.name = n

(* A client that changes one link of a directory leaves every other link   *)
(* as the others made it: the modifier is applied to the contents that the *)
(* publish replaces, however often it had to try.                          *)
OthersKept ==
  \A d \in Dirs : contents'[d] # contents[d] =>
    \E c \in Clients : /\ op'[c] # op[c]
                       /\ \A n \in Names : contents'[d][n] # contents[d][n] => About(c, d, n)

(* A child that was added under a name not to be overwritten replaces      *)
(* nothing, and one that may only replace files replaces no directory,     *)
(* also when the other child appears between two tries.                    *)
NotReplaced ==
  \A c \in Clients, d \in Dirs, n \in Names :
    (/\ op'[c] # op[c] /\ contents'[d][n] # contents[d][n] /\ contents[d][n] # NoEntry
     /\ About(c, d, n) /\ Work(op[c].req, op[c].step).kind = "add")
      => /\ op[c].req.overwrite # "no"
         /\ op[c].req.overwrite = "only files" => contents[d][n].child \notin Folders

(* A moved child is never lost: until the move is over, and whatever       *)
(* becomes of it, the child is linked under the old or under the new name, *)
(* unless another client changed one of these links meanwhile.             *)
MovedNotLost ==
  \A c \in Clients :
    LET o == op[c]
        r == o.req
    IN r.kind = "move" /\ o.carried # NoEntry
         => \/ contents[r.dir][r.name].child = o.carried.child
            \/ contents[r.to_dir][r.to_name].child = o.carried.child
            \/ {<<r.dir, r.name>>, <<r.to_dir, r.to_name>>} \cap touched[c] # {}

(* A link marked no-write never holds a write cap, and keeps the time it   *)
(* was first made for as long as the name is in the directory, even if the *)
(* child is replaced.                                                      *)
LinkKept ==
  \A d \in Dirs, n \in Names :
    LET old == contents[d][n]
        new == contents'[d][n]
    IN /\ new.nowrite => ~new.rw
       /\ old # NoEntry /\ new # NoEntry /\ new # old
            => new.crtime = IF old.crtime # 0 THEN old.crtime
                            ELSE IF old.ctime # 0 THEN old.ctime ELSE new.motime
=============================================================================
