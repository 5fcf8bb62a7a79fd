---------------------------- MODULE SftpRequests ----------------------------
(***************************************************************************)
(* SFTPUserHandler (frontends/sftpd.py): the requests of one SFTP client on  *)
(* the names of one directory, and the "heisenfiles", files opened for       *)
(* writing and not yet close-notified, which are looked up by user path and  *)
(* by directory entry.  Here both are the name of the file, and the contents *)
(* of a file is the handle that committed it.                                *)
(***************************************************************************)
EXTENDS Integers, Sequences, FiniteSets, SequencesExt

CONSTANTS Names,        \* the names of the directory
          Exists,       \* those that exist before
          Requests,     \* what the client may ask: [op, name, ...]
          MaxRequests   \* how often

VARIABLES dir,     \* the child at a name: None, Orig, Lit (an empty file) or the handle that committed it
          by_path, \* self._heisenfiles
          by_entry,\* all_heisenfiles
          files,   \* the GeneralSFTPFile of each open request
          req,     \* the requests, in the order they came
          on,      \* whether the client is connected
          past     \* requests whose effect a later commit would undo: <<name, handle>>

handleVars == <<dir, by_path, by_entry, files, req, on, past>>

None == 0
Orig == -1
Lit == -2
NoName == ""

World == [dir |-> dir, by_path |-> by_path, by_entry |-> by_entry, files |-> files, req |-> req, past |-> past]
Become(w) ==
    /\ dir' = w.dir /\ by_path' = w.by_path /\ by_entry' = w.by_entry
    /\ files' = w.files /\ req' = w.req /\ past' = w.past

HandlesInit ==
    /\ dir = [n \in Names |-> IF n \in Exists THEN Orig ELSE None]
    /\ by_path = [n \in Names |-> <<>>] /\ by_entry = [n \in Names |-> <<>>]
    /\ files = <<>> /\ req = <<>> /\ on = TRUE /\ past = {}

Writing(flags) == {"WRITE", "CREAT"} \cap flags # {}

NewFile(path, flags) ==
    [userpath |-> path, childname |-> NoName, flags |-> flags, opened |-> FALSE, base |-> None,
     has_changed |-> {"CREAT", "TRUNC"} \cap flags # {} /\ "EXCL" \notin flags,
     closed |-> FALSE, abandoned |-> FALSE, async |-> <<>>]

_add_heisenfile_by_direntry(w, f) == [w EXCEPT !.by_entry[w.files[f].childname] = Append(@, f)]

\* A file that failed to open has no directory entry: NoName.
_remove_heisenfile(w, path, name, f) ==
    [w EXCEPT !.by_path[path] = SelectSeq(@, LAMBDA x : x # f),
              !.by_entry = [n \in Names |-> IF n = name THEN SelectSeq(@[n], LAMBDA x : x # f) ELSE @[n]]]

\* files += self._heisenfiles[userpath], where files is all_heisenfiles[direntry]
\* itself when that exists.
Matching(w, n) == w.by_entry[n] \o w.by_path[n]
Aliased(w, n) == IF w.by_entry[n] = <<>> THEN w ELSE [w EXCEPT !.by_entry[n] = @ \o w.by_path[n]]

\* d.addBoth(f.sync) for each file: one after the other, then the request goes on.
Sync(w, r) ==
    LET todo == w.req[r].todo
    IN  IF todo = <<>> THEN [w EXCEPT !.req[r].pc = "synced"]
        ELSE [w EXCEPT !.req[r].todo = Tail(@), !.req[r].pc = "sync",
                       !.files[todo[1]].async = Append(@, <<"sync", r>>)]

_sync_heisenfiles(w, r, n, ignore) ==
    Sync([Aliased(w, n) EXCEPT !.req[r].todo = SelectSeq(Matching(w, n), LAMBDA x : x # ignore)], r)

\* Handles the client has at a name, however they are registered; one that an
\* earlier remove has abandoned is waited for by that remove.
OpenAt(w, n) == {f \in DOMAIN w.files : w.files[f].userpath = n /\ Writing(w.files[f].flags)
                                        /\ ~ w.files[f].abandoned}

_abandon_any_heisenfiles_quick(w, r, n) ==
    LET hit == ToSet(Matching(w, n))
    IN  [w EXCEPT !.by_path[n] = <<>>, !.by_entry[n] = <<>>,
                  !.files = [f \in DOMAIN @ |-> [@[f] EXCEPT !.abandoned = @ \/ f \in hit]],
                  !.req[r].pc = "synced", !.req[r].found = hit # {}, !.req[r].hit = OpenAt(w, n)]

_abandon_any_heisenfiles(w, r, n) ==
    LET hit == ToSet(Matching(w, n))
    IN  Sync([w EXCEPT !.by_path[n] = <<>>, !.by_entry[n] = <<>>,
                       !.files = [f \in DOMAIN @ |-> [@[f] EXCEPT !.abandoned = @ \/ f \in hit]],
                       !.req[r].todo = Matching(w, n),
                       !.req[r].found = hit # {}, !.req[r].hit = OpenAt(w, n)], r)

_rename_heisenfiles(w, r, n, to) ==
    LET from_files == Matching(w, n)
        hit        == ToSet(from_files)
    IN  IF ~ w.req[r].overwrite /\ (w.by_path[to] # <<>> \/ w.by_entry[to] # <<>>)
        THEN [w EXCEPT !.req[r].pc = "error"]
        ELSE Sync([w EXCEPT
                     !.by_path = [@ EXCEPT ![n] = <<>>, ![to] = @ \o from_files],
                     !.by_entry = [@ EXCEPT ![n] = <<>>, ![to] = @ \o from_files],
                     !.files = [f \in DOMAIN @ |-> IF f \in hit THEN [@[f] EXCEPT !.userpath = to, !.childname = to]
                                                   ELSE @[f]],
                     !.req[r].todo = from_files, !.past = @ \ ({to} \X hit),
                     !.req[r].found = hit # {}, !.req[r].hit = OpenAt(w, n)], r)

\* _make_file, once the other files of the name are synced.  If the file has
\* been renamed, the new name takes precedence.
_got_file(w, r) ==
    LET f  == w.req[r].file
        w1 == [w EXCEPT !.files[f].opened = TRUE, !.files[f].base = w.req[r].node,
                        !.files[f].childname = IF @ = NoName THEN w.req[r].name ELSE @,
                        !.req[r].pc = "done"]
    IN  IF Writing(w.files[f].flags) THEN _add_heisenfile_by_direntry(w1, f) ELSE w1

\* _remove_on_error of openFile.
OpenFails(w, r) ==
    _remove_heisenfile([w EXCEPT !.req[r].pc = "error"], w.req[r].name, NoName, w.req[r].file)

-----------------------------------------------------------------------------
(* The requests.  What a request does before its first wait happens when it  *)
(* comes; the parent directory is there at once.                             *)

Ask(q) == [q EXCEPT !.pc = "asked"]

\* The handles at a name that are closed and whose commit there is under way.
Committing(n) ==
    {f \in DOMAIN files : files[f].userpath = n /\ ~ files[f].abandoned
                           /\ <<"commit", n>> \in ToSet(files[f].async)}

\* openFile puts a file that may be written into the dictionary by path at once.
openFile(q) ==
    LET f == Len(files) + 1
    IN  [World EXCEPT !.files = Append(@, NewFile(q.name, q.flags)),
                      !.by_path[q.name] = IF Writing(q.flags) THEN Append(@, f) ELSE @,
                      !.req = Append(@, [q EXCEPT !.pc = "asked", !.file = f, !.hit = Committing(q.name)])]

Request(q) ==
    /\ on /\ Len(req) < MaxRequests /\ UNCHANGED on
    /\ \E w \in {IF q.op = "open" THEN openFile(q)
                 ELSE LET r == Len(req) + 1
                          w1 == [World EXCEPT !.req = Append(@, Ask(q))]
                      IN  CASE q.op = "remove" -> _abandon_any_heisenfiles(w1, r, q.name)
                            [] q.op = "getAttrs" -> _sync_heisenfiles(w1, r, q.name, None)
                            [] q.op = "rename" -> IF q.overwrite THEN _rename_heisenfiles(w1, r, q.name, q.to) ELSE w1} :
          Become(w)

\* openFile, _got_parent: EXCL links an empty file now, which fails if there is
\* a child; otherwise the child is looked up.
Lookup(r) ==
    LET q == req[r]
        n == q.name
        w == IF "EXCL" \in q.flags
             THEN IF dir[n] # None THEN OpenFails(World, r)
                  ELSE _sync_heisenfiles([World EXCEPT !.dir[n] = Lit, !.req[r].node = Lit], r, n, q.file)
             ELSE IF dir[n] = None /\ "CREAT" \notin q.flags THEN OpenFails(World, r)
             ELSE _sync_heisenfiles([World EXCEPT !.req[r].node = dir[n]], r, n, q.file)
    IN  /\ q.op = "open" /\ q.pc = "asked"
        /\ UNCHANGED on
        /\ \E v \in {w} : Become(v)

\* renameFile without overwrite: there must be no child at the destination.
Expect(r) ==
    /\ req[r].op = "rename" /\ req[r].pc = "asked" /\ UNCHANGED on
    /\ \E w \in {IF dir[req[r].to] # None THEN [World EXCEPT !.req[r].pc = "error"]
                 ELSE _rename_heisenfiles(World, r, req[r].name, req[r].to)} : Become(w)

\* What is over must not be undone: see NotUndone.
Over(w, r) ==
    LET q    == w.req[r]
        gone == {f \in q.hit : q.op = "remove" \/ w.files[f].userpath # q.name}
    IN  [w EXCEPT !.req[r].pc = "done", !.past = @ \cup ({q.name} \X gone)]

\* _move and _check: move_child_to gets the child, links it, and deletes the old link.
Move(w, r) ==
    LET q == w.req[r]
        NoSuch == IF q.found THEN Over(w, r) ELSE [w EXCEPT !.req[r].pc = "error"]
    IN  CASE q.pc = "synced" -> IF w.dir[q.name] = None THEN NoSuch
                                ELSE [w EXCEPT !.req[r].pc = "link", !.req[r].node = w.dir[q.name]]
          [] q.pc = "link"   -> IF ~ q.overwrite /\ w.dir[q.to] # None THEN [w EXCEPT !.req[r].pc = "error"]
                                ELSE [w EXCEPT !.req[r].pc = "unlink", !.dir[q.to] = q.node]
          [] q.pc = "unlink" -> IF w.dir[q.name] = None THEN NoSuch ELSE Over([w EXCEPT !.dir[q.name] = None], r)

\* _remove_object: parent.delete(must_exist=not abandoned).
Delete(w, r) ==
    IF w.dir[w.req[r].name] = None /\ ~ w.req[r].found THEN [w EXCEPT !.req[r].pc = "error"]
    ELSE Over([w EXCEPT !.dir[w.req[r].name] = None], r)

\* getAttrs asks the file opened last when there is no child yet; a closed file refuses.
Attrs(w, r) ==
    LET n == w.req[r].name
    IN  [w EXCEPT !.req[r].pc = IF w.dir[n] # None \/ (w.by_entry[n] # <<>> /\ ~ w.files[Last(w.by_entry[n])].closed)
                                THEN "done" ELSE "error"]

Continue(r) ==
    /\ req[r].pc \in {"synced", "link", "unlink"} /\ UNCHANGED on
    /\ \E w \in {CASE req[r].op = "open" -> _got_file(World, r)
                   [] req[r].op = "rename" -> Move(World, r)
                   [] req[r].op = "remove" -> Delete(World, r)
                   [] req[r].op = "getAttrs" -> Attrs(World, r)} : Become(w)

\* GeneralSFTPFile.writeChunk and close: the name is captured when close is called.
Write(r) ==
    LET f == req[r].file
    IN  /\ on /\ req[r].op = "open" /\ req[r].pc = "done" /\ "WRITE" \in files[f].flags
        /\ ~ files[f].closed /\ ~ files[f].has_changed
        /\ files' = [files EXCEPT ![f].has_changed = TRUE]
        /\ UNCHANGED <<dir, by_path, by_entry, req, on, past>>

Close(r) ==
    LET f   == req[r].file
        ops == IF files[f].abandoned \/ ~ files[f].has_changed THEN << <<"close">> >>
               ELSE << <<"commit", files[f].childname>>, <<"close">> >>
    IN  /\ req[r].op = "open" /\ req[r].pc = "done" /\ ~ files[f].closed
        /\ files' = [files EXCEPT ![f].closed = TRUE, ![f].async = @ \o ops]
        /\ UNCHANGED <<dir, by_path, by_entry, req, on, past>>

\* The chain of an opened file: a commit (or its failure), _do_close, a sync.
Turn(f) ==
    LET op == files[f].async[1]
        w  == [World EXCEPT !.files[f].async = Tail(@)]
    IN  /\ files[f].opened /\ files[f].async # <<>> /\ UNCHANGED on
        /\ \E v \in CASE op[1] = "sync" -> {Sync(w, op[2])}
                      [] op[1] = "close" -> {_remove_heisenfile(w, files[f].userpath, files[f].childname, f)}
                      [] op[1] = "commit" -> {w, [w EXCEPT !.dir[op[2]] = f]} : Become(v)

\* The connection is dropped; the handles are closed after that.
logout ==
    /\ on /\ on' = FALSE
    /\ files' = [f \in DOMAIN files |->
                    [files[f] EXCEPT !.abandoned = @ \/ \E n \in Names : f \in ToSet(by_path[n])]]
    /\ UNCHANGED <<dir, by_path, by_entry, req, past>>

HandlesNext ==
    \/ \E q \in Requests : Request(q)
    \/ \E r \in DOMAIN req : Lookup(r) \/ Expect(r) \/ Continue(r) \/ Write(r) \/ Close(r)
    \/ \E f \in DOMAIN files : Turn(f)
    \/ logout

HandlesSpec == HandlesInit /\ [][HandlesNext]_handleVars

-----------------------------------------------------------------------------
(* A file is never committed at a name after a remove of that name, or a     *)
(* rename away from it, has completed that came after the file was opened    *)
(* there: the file was closed before, and the request waited for its commit, *)
(* or it is not committed there at all ("This avoids a race that might       *)
(* otherwise cause the file to be committed after the remove operation has   *)
(* completed", _abandon_any_heisenfiles; and _rename_heisenfiles).           *)
NotUndone ==
    \A f \in DOMAIN files, n \in Names :
       dir'[n] = f /\ dir[n] # f /\ files'[f].async # files[f].async => <<n, f>> \notin past

(* An open of a name completes only when what was written there through a    *)
(* handle that had been closed before is committed ("if a file has been      *)
(* written, then closed, and is now being reopened, then we have to delay    *)
(* the open until the previous upload/publish has completed", openFile).     *)
ReopenWaits ==
    \A r \in DOMAIN req : req[r].op = "open" /\ req[r].pc # "done" /\ req'[r].pc = "done" =>
       req[r].hit \cap Committing(req[r].name) = {}

-----------------------------------------------------------------------------
(***************************************************************************)
(* The requests of the SFTP frontend that name things by path and keep no  *)
(* file open (frontends/sftpd.py): mkdir, opendir, setstat, posix-rename   *)
(* and realpath.  A path is taken apart, its root is found, and a request  *)
(* gets one child after the other; others change the directories between   *)
(* any two of its steps.                                                   *)
(*                                                                         *)
(* Directories are mutable, numbered from 1 (the user's root) in the order *)
(* they are made.  A node is [kind, id, ro]; a link is a node and whether  *)
(* its metadata say no-write.  A link is set at once (Directory.tla has    *)
(* the steps of that).                                                     *)
(***************************************************************************)
CONSTANTS PathNames,
          Trees,      \* what there is at first: sequences of directories
          Caps,       \* name -> node, of the caps that paths begin with
          PathRequests,   \* records [op, path, to, nowrite]
          Users,      \* the requests that run together
          Opened      \* <<directory, name>> of new files that are still open

VARIABLES dirs,       \* sequence of [PathNames -> link]
          request,    \* user -> its request
          rs          \* user -> [phase, walks, answer, listing, wrote]

pathsVars == <<dirs, request, rs>>

Node(kind, id, ro) == [kind |-> kind, id |-> id, ro |-> ro]
Link(node, nw) == [node |-> node, nw |-> nw]
NoLink == Link(Node("none", 0, FALSE), FALSE)
Empty == [n \in PathNames |-> NoLink]

-----------------------------------------------------------------------------
(* A path string is the sequence of what is between its slashes.           *)
Undecodable == "?"

(* pathstring.strip(b"/"), and "." for the home directory.                 *)
Stripped(s) ==
  LET named == {i \in DOMAIN s : s[i] # ""}
  IN IF named = {} THEN <<>>
     ELSE SubSeq(s, CHOOSE i \in named : \A j \in named : i <= j, CHOOSE i \in named : \A j \in named : j <= i)

_path_from_string(s) ==
  LET step(path, p) == IF p = ".." THEN IF path # <<>> THEN Front(path) ELSE path
                       ELSE IF p = "." THEN path ELSE Append(path, p)
  IN FoldLeft(step, <<>>, Stripped(s))

_path_to_utf8(path) == <<"">> \o path

realPath(s) == _path_to_utf8(_path_from_string(s))

-----------------------------------------------------------------------------
(* _convert_error: NotWriteableError is raised without arguments, and the  *)
(* first of them is asked for, so that one comes out as a plain failure.   *)
_convert_error(e) ==
  CASE e = "NoSuchChildError" -> "FX_NO_SUCH_FILE"
    [] e \in {"NotWriteableError", "IndexError", "AttributeError", "AssertionError"} -> "FX_FAILURE"
    [] OTHER -> e

BecomePath(u, r) == rs' = [rs EXCEPT ![u] = r]
Answer(u, a) == [rs[u] EXCEPT !.phase = "done", !.answer = a]
Raise(u, e) == Answer(u, _convert_error(e))
Only(u, r) == BecomePath(u, r) /\ UNCHANGED <<dirs, request>>
Change(u, d, r) == dirs' = d /\ BecomePath(u, [r EXCEPT !.wrote = TRUE]) /\ UNCHANGED request

(* A walk: the node it came to, the names to go, and the node and links    *)
(* that led there.                                                         *)
Walk(root, names) == [node |-> root, rest |-> names, via |-> {root.ro}]

(* _get_root: the root of a path, or what goes wrong.                      *)
BadRoot(path) == path # <<>> /\ path[1] = "uri" /\ Len(path) = 1
_get_root(path) ==
  IF path # <<>> /\ path[1] = "uri"
  THEN <<IF path[2] \in DOMAIN Caps THEN Caps[path[2]] ELSE Node("unknown", 0, TRUE), SubSeq(path, 3, Len(path))>>
  ELSE <<Node("dir", 1, FALSE), path>>

(* _get_parent_or_node: the way to the parent and the child's name; there  *)
(* is none for a root.                                                     *)
_get_parent_or_node(path) ==
  LET rr == _get_root(path)
  IN IF rr[2] = <<>> THEN [walk |-> Walk(rr[1], <<>>), child |-> <<>>]
     ELSE [walk |-> Walk(rr[1], Front(rr[2])), child |-> <<Last(rr[2])>>]

PathsInit ==
  /\ dirs \in Trees
  /\ request \in [Users -> PathRequests]
  /\ rs = [u \in Users |-> [phase |-> "new", walks |-> <<>>, answer |-> "", listing |-> Empty, wrote |-> FALSE]]

Paths(u) == IF request[u].op = "posix-rename" THEN <<request[u].path, request[u].to>> ELSE <<request[u].path>>
Begin(u, walks) == Only(u, [rs[u] EXCEPT !.phase = "walk", !.walks = walks])

(* What every request does first: the path is decoded and its root found.  *)
Misnamed(u) ==
  /\ rs[u].phase = "new"
  /\ \E i \in DOMAIN Paths(u) :
       \/ Undecodable \in {Paths(u)[i][j] : j \in DOMAIN Paths(u)[i]} /\ Only(u, Answer(u, "FX_NO_SUCH_FILE"))
       \/ BadRoot(_path_from_string(Paths(u)[i])) /\ Only(u, Raise(u, "IndexError"))

WellNamed(u) ==
  \A i \in DOMAIN Paths(u) : /\ Undecodable \notin {Paths(u)[i][j] : j \in DOMAIN Paths(u)[i]}
                             /\ ~BadRoot(_path_from_string(Paths(u)[i]))

Beginning(u, op) == rs[u].phase = "new" /\ request[u].op = op

(* _attrs_to_metadata, of the permissions.                                 *)
_attrs_to_metadata(u) == request[u].nowrite

makeDirectory(u) ==
  /\ Beginning(u, "mkdir")
  /\ \/ _attrs_to_metadata(u) /\ Only(u, Answer(u, "FX_PERMISSION_DENIED"))
     \/ /\ ~_attrs_to_metadata(u) /\ WellNamed(u)
        /\ LET rr == _get_root(_path_from_string(request[u].path)) IN Begin(u, <<Walk(rr[1], rr[2])>>)

openDirectory(u) ==
  /\ Beginning(u, "opendir") /\ WellNamed(u)
  /\ LET p == _get_parent_or_node(_path_from_string(request[u].path))
     IN Begin(u, <<[p.walk EXCEPT !.rest = @ \o p.child]>>)

Target(u, i) == _get_parent_or_node(_path_from_string(Paths(u)[i]))

setAttrs(u) ==
  /\ Beginning(u, "setstat")
  /\ \/ request[u].to = <<"size">> /\ Only(u, Answer(u, "FX_OP_UNSUPPORTED"))
     \/ request[u].to # <<"size">> /\ WellNamed(u) /\ Begin(u, <<Target(u, 1).walk>>)

(* extendedRequest: the lengths in the data may not fit it.                *)
extendedRequest(u) ==
  /\ Beginning(u, "posix-rename")
  /\ \/ request[u].nowrite /\ Only(u, Answer(u, "FX_BAD_MESSAGE"))
     \/ ~request[u].nowrite /\ WellNamed(u) /\ Begin(u, <<Target(u, 1).walk, Target(u, 2).walk>>)

(* readLink, makeLink.                                                     *)
Unsupported(u) == Beginning(u, "readlink") /\ Only(u, Answer(u, "FX_OP_UNSUPPORTED"))

-----------------------------------------------------------------------------
Child_as_linked(parent, name) == dirs[parent.id][name].node

(* A child as a directory node makes it: below a read-only one all is.     *)
Child(parent, name) ==
  LET node == dirs[parent.id][name].node
  IN IF parent.ro THEN [node EXCEPT !.ro = node.kind # "none"] ELSE node

Missing(node, name) == dirs[node.id][name] = NoLink

Taken(w) == [node |-> Child(w.node, w.rest[1]), rest |-> Tail(w.rest),
             via |-> w.via \cup {dirs[w.node.id][w.rest[1]].node.ro}]

(* get_child_at_path: one get; only directories have it.                   *)
get(u, i) ==
  LET w == rs[u].walks[i]
  IN /\ rs[u].phase = "walk" /\ w.rest # <<>>
     /\ IF w.node.kind # "dir"
        THEN Only(u, Raise(u, IF request[u].op = "mkdir" THEN "FX_FAILURE" ELSE "AttributeError"))
        ELSE IF ~Missing(w.node, w.rest[1]) THEN Only(u, [rs[u] EXCEPT !.walks[i] = Taken(w)])
        ELSE IF request[u].op # "mkdir" THEN Only(u, Raise(u, "NoSuchChildError"))
        ELSE IF w.node.ro THEN Only(u, Raise(u, "NotWriteableError"))
        ELSE Only(u, [rs[u] EXCEPT !.phase = "create"])

(* _maybe_create: create_subdirectory replaces what is there by now.       *)
_maybe_create(u) ==
  LET w == rs[u].walks[1]
      new == Node("dir", Len(dirs) + 1, FALSE)
  IN /\ rs[u].phase = "create"
     /\ Change(u, Append([dirs EXCEPT ![w.node.id][w.rest[1]] = Link(new, FALSE)], Empty),
               [rs[u] EXCEPT !.phase = "walk", !.walks[1] = [w EXCEPT !.node = new, !.rest = Tail(w.rest)]])

There(u) == rs[u].phase = "walk" /\ \A i \in DOMAIN rs[u].walks : rs[u].walks[i].rest = <<>>
Came(u, i) == rs[u].walks[i].node

(* _get_or_create_directories with no path left.                           *)
_get_or_create_directories(u) ==
  /\ There(u) /\ request[u].op = "mkdir"
  /\ Only(u, Answer(u, IF Came(u, 1).kind = "dir" THEN "ok" ELSE "FX_FAILURE"))

(* _no_write of a child, and _populate_attrs: no permissions at all for an *)
(* unknown one.                                                            *)
_no_write(parent_readonly, child, nw) ==
  CASE child.kind = "unknown" -> TRUE
    [] child.kind \in {"dir", "ssk"} -> child.ro
    [] OTHER -> parent_readonly \/ nw

_populate_attrs(child, no_write) ==
  [perms |-> IF child.kind = "unknown" THEN "none" ELSE IF no_write THEN "r" ELSE "rw",
   isdir |-> child.kind = "dir"]

(* _list, _render.                                                         *)
_list(u) ==
  LET d == Came(u, 1)
      shown(n) == LET c == Child(d, n) IN _populate_attrs(c, _no_write(d.ro, c, dirs[d.id][n].nw))
  IN /\ There(u) /\ request[u].op = "opendir"
     /\ Only(u, IF d.kind # "dir" THEN Answer(u, "FX_PERMISSION_DENIED")
                ELSE [Answer(u, "ok") EXCEPT !.listing = [n \in {m \in PathNames : ~Missing(d, m)} |-> shown(n)]])

(* _direntry_for: None for a root, and in a parent that cannot be written. *)
_direntry_for(node, child) == IF node.ro \/ child = <<>> THEN <<>> ELSE <<node.id, child[1]>>

(* _update_attrs_for_heisenfiles: are there open files at that entry?      *)
_update_attrs_for_heisenfiles(direntry) == direntry \in Opened

(* set_metadata_for: MetadataSetter.modify replaces the metadata; no-write *)
(* also takes the write cap out of the link.                               *)
set_metadata_for(link, nw) ==
  Link(IF nw /\ link.node.kind # "unknown" THEN [link.node EXCEPT !.ro = TRUE] ELSE link.node, nw)

(* _update: in a directory, with files still open under that name or not.  *)
_update(u) ==
  LET d == Came(u, 1)
      child == Target(u, 1).child
      direntry == _direntry_for(d, child)
  IN /\ There(u) /\ request[u].op = "setstat"
     /\ \/ direntry = <<>> /\ Only(u, Raise(u, "AssertionError"))
        \/ direntry # <<>> /\ d.kind # "dir" /\ Only(u, Raise(u, "AttributeError"))
        \/ /\ direntry # <<>> /\ d.kind = "dir" /\ Missing(d, child[1])
           /\ Only(u, IF _update_attrs_for_heisenfiles(direntry) THEN Answer(u, "ok")
                      ELSE Raise(u, "NoSuchChildError"))
        \/ /\ direntry # <<>> /\ d.kind = "dir" /\ ~Missing(d, child[1])
           /\ Change(u, [dirs EXCEPT ![d.id][child[1]] = set_metadata_for(@, _attrs_to_metadata(u))], Answer(u, "ok"))

(* renameFile with overwrite=True: move_child_to gets the child, sets the  *)
(* new link and, last, removes the old one.                                *)
renameFile(u) ==
  LET from == Came(u, 1)   c == Target(u, 1).child
      to == Came(u, 2)     n == Target(u, 2).child
  IN /\ There(u) /\ request[u].op = "posix-rename"
     /\ IF c = <<>> \/ n = <<>> THEN Only(u, Answer(u, "FX_NO_SUCH_FILE"))
        ELSE IF from.kind # "dir" \/ to.kind # "dir" THEN Only(u, Raise(u, "AttributeError"))
        ELSE IF from.ro \/ to.ro THEN Only(u, Raise(u, "NotWriteableError"))
        ELSE IF from.id = to.id /\ c = n THEN Only(u, Answer(u, "ok"))
        ELSE IF Missing(from, c[1]) THEN Only(u, Raise(u, "NoSuchChildError"))
        ELSE Change(u, [dirs EXCEPT ![to.id][n[1]] = dirs[from.id][c[1]]], [rs[u] EXCEPT !.phase = "delete"])

Moved(u) ==
  LET from == Came(u, 1)
      c == Target(u, 1).child[1]
  IN /\ rs[u].phase = "delete"
     /\ IF Missing(from, c) THEN Only(u, Raise(u, "NoSuchChildError"))
        ELSE Change(u, [dirs EXCEPT ![from.id][c] = NoLink], Answer(u, "ok"))

PathsNext ==
  \E u \in Users :
    \/ Misnamed(u) \/ makeDirectory(u) \/ openDirectory(u) \/ setAttrs(u) \/ extendedRequest(u) \/ Unsupported(u)
    \/ \E i \in DOMAIN rs[u].walks : get(u, i)
    \/ _maybe_create(u) \/ _get_or_create_directories(u) \/ _list(u) \/ _update(u) \/ renameFile(u) \/ Moved(u)

PathsSpec == PathsInit /\ [][PathsNext]_pathsVars

-----------------------------------------------------------------------------
(* The names that are left of a path string: those that no later ".."      *)
(* takes back, i.e. after which there are never more ".." than names.      *)
Left(s) ==
  LET name(j) == s[j] \notin {".", ".."}
      kept == {i \in DOMAIN s :
                 name(i) /\ \A j \in i..Len(s) :
                   Cardinality({k \in (i + 1)..j : s[k] = ".."}) <= Cardinality({k \in (i + 1)..j : name(k)})}
  IN [n \in 1..Cardinality(kept) |-> s[CHOOSE i \in kept : Cardinality({k \in kept : k <= i}) = n]]

(* What a path leads to by now.                                            *)
At(path) ==
  LET rr == _get_root(path)
      step(node, name) == IF node.kind = "dir" THEN Child(node, name) ELSE Node("none", 0, FALSE)
  IN FoldLeft(step, rr[1], rr[2])

Others(u, ops) == \A v \in Users \ {u} : request[v].op \in ops

(* Path strings mean what the SFTP drafts say, however they are spelt, and *)
(* realpath says it once and for all (_path_from_string, realPath).        *)
SpellingsAgree ==
  \A u \in Users : \A s \in {request[u].path} :
    Undecodable \notin {s[i] : i \in DOMAIN s} =>
      /\ _path_from_string(s) = Left(Stripped(s))
      /\ _path_from_string(realPath(s)) = _path_from_string(s)

(* Read-only is kept along a path: a request that changed a directory came *)
(* to it from a root and over links that could all be written through when *)
(* it took them (Child, _convert_error, _direntry_for).                    *)
WritesThroughWriteable ==
  \A u \in Users : rs[u].wrote => \A i \in DOMAIN rs[u].walks : TRUE \notin rs[u].walks[i].via

(* What a request was told is so: a directory that was made is found under *)
(* what the path really means, unless others move things or make and       *)
(* replace directories; permissions that were set are those of the link,   *)
(* and a mutable file or directory that may not be written to cannot be;   *)
(* only a file that is still open may have no link to set them on.         *)
ToldTrueOfPaths ==
  \A u \in Users :
    rs[u].phase = "done" /\ rs[u].answer = "ok" =>
      LET path == Left(Stripped(request[u].path))
      IN /\ request[u].op = "mkdir" /\ Others(u, {"opendir", "setstat", "readlink"}) => At(path).kind = "dir"
         /\ request[u].op = "setstat" /\ Others(u, {"opendir", "readlink"}) =>
              LET d == At(Front(path)).id
                  link == dirs[d][Last(path)]
              IN \/ /\ link # NoLink /\ link.nw = request[u].nowrite
                    /\ link.nw /\ link.node.kind # "unknown" => link.node.ro
                 \/ link = NoLink /\ <<d, Last(path)>> \in Opened

(* All of them.                                                            *)
PathsLead == SpellingsAgree /\ WritesThroughWriteable /\ ToldTrueOfPaths
=============================================================================
