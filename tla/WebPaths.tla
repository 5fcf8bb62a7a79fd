------------------------------ MODULE WebPaths ------------------------------
(***************************************************************************)
(* Requests on paths of the web API (web/directory.py, web/filenode.py,    *)
(* web/common.py): a request walks from a directory along the names of its *)
(* path, making the directories that are missing, and then does its work   *)
(* on the handler it came to.  Between any two steps of one request others *)
(* change the same directories.                                            *)
(*                                                                         *)
(* A child is [kind, id]; a link is set or removed at once (Directory.tla  *)
(* has the steps of that).  Directories are mutable, numbered from 1 (the  *)
(* one the paths begin at) in the order they are made; a file has the      *)
(* number of the request that brought it, or 0.                            *)
(***************************************************************************)
EXTENDS Integers, Sequences, FiniteSets, SequencesExt

CONSTANTS Names,
          Trees,      \* what there is at first: sequences of directories
          Requests,   \* records [op, path, replace, name, to]
          Users,      \* numbers of the requests that run together
          FileSize,   \* bytes of the file that is asked for in part
          Headers     \* ranges asked for: [first, last], -1 where left out

VARIABLES dirs,       \* sequence of [Names -> child]
          contents,   \* who wrote the mutable file last
          request,    \* user -> its request
          rs          \* user -> how far it is

webVars == <<dirs, contents, request, rs>>

NoChild == [kind |-> "none", id |-> 0]
Child(kind, id) == [kind |-> kind, id |-> id]

(* URIHandler.getChild: the handler of the directory cap.                  *)
WebInit ==
  /\ dirs \in Trees
  /\ contents = 0
  /\ request \in [Users -> Requests]
  /\ rs = [u \in Users |-> [phase |-> "walk", at |-> 0, dir |-> 0, name |-> "", node |-> Child("dir", 1),
                            new |-> NoChild, code |-> 0, body |-> <<>>]]

Become(u, r) == rs' = [rs EXCEPT ![u] = r]
Failed(u, code) == [rs[u] EXCEPT !.phase = "failed", !.code = code]
Done(u, code, child) == [rs[u] EXCEPT !.phase = "done", !.code = code, !.new = child]
Only(u, r) == Become(u, r) /\ UNCHANGED <<dirs, contents, request>>

-----------------------------------------------------------------------------
(* should_create_intermediate_directories, of a PUT or POST.               *)
should_create_intermediate_directories(op) == op \notin {"GET", "DELETE", "POST rename"}

(* _got_child: is this the last name?  The name itself is compared.        *)
Terminal(u, name) == Last(request[u].path) = name

(* _got_child when there is no such child.                                 *)
NoSuchChild(u, op, name) ==
  LET last == rs[u].at + 1 = Len(request[u].path)
      there == [rs[u] EXCEPT !.at = @ + 1, !.dir = rs[u].node.id, !.name = name, !.node = NoChild]
  IN IF ~Terminal(u, name)
     THEN IF should_create_intermediate_directories(op) THEN [rs[u] EXCEPT !.phase = "mkdir"]
          ELSE Failed(u, 404)
     ELSE IF op \in {"POST mkdir", "PUT mkdir"} THEN [rs[u] EXCEPT !.phase = "mkdir"]
     ELSE IF op \in {"PUT", "PUT uri"} /\ last THEN [there EXCEPT !.phase = "placeholder"]
     ELSE Failed(u, 404)

(* _got_child: there is a file where a directory would be made.            *)
InTheWay(u, name, child) ==
  ~Terminal(u, name) /\ should_create_intermediate_directories(request[u].op) /\ child.kind # "dir"

(* make_handler_for the child that is there.                               *)
make_handler_for(u, child) ==
  [rs[u] EXCEPT !.phase = "walk", !.at = @ + 1, !.dir = rs[u].node.id,
                !.name = request[u].path[rs[u].at + 1], !.node = child]

(* The name= of a request to a directory.                                  *)
Within(u, name) == [rs[u] EXCEPT !.dir = rs[u].node.id, !.name = name]

(* DirectoryNodeHandler.getChild.                                          *)
getChild(u) ==
  LET req == request[u]
      name == req.path[rs[u].at + 1]
      child == dirs[rs[u].node.id][name]
  IN /\ rs[u].phase = "walk" /\ rs[u].at < Len(req.path) /\ rs[u].node.kind = "dir"
     /\ Only(u, IF child = NoChild THEN NoSuchChild(u, req.op, name)
                ELSE IF InTheWay(u, name, child) THEN Failed(u, 409)
                ELSE make_handler_for(u, child))

(* FileNodeHandler.getChild: files have no children.                       *)
NotADirectory(u) ==
  /\ rs[u].phase = "walk" /\ rs[u].at < Len(request[u].path) /\ rs[u].node.kind # "dir"
  /\ Only(u, Failed(u, IF should_create_intermediate_directories(request[u].op) THEN 409 ELSE 400))

(* create_subdirectory, on the way: whatever is there by now is replaced.  *)
create_subdirectory(u) ==
  LET name == request[u].path[rs[u].at + 1]
      new == Child("dir", Len(dirs) + 1)
  IN /\ rs[u].phase = "mkdir"
     /\ dirs' = Append([dirs EXCEPT ![rs[u].node.id][name] = new], [n \in Names |-> NoChild])
     /\ Become(u, make_handler_for(u, new))
     /\ UNCHANGED <<contents, request>>

-----------------------------------------------------------------------------
There(u) == rs[u].phase = "walk" /\ rs[u].at = Len(request[u].path)

(* replace_me_with_a_child, _with_a_childcap, _with_a_formpost: the upload *)
(* is under way, the link is to be set; the cap of t=uri is here one of    *)
(* the first directory.                                                    *)
replace_me(u) ==
  [rs[u] EXCEPT !.phase = "link",
                !.new = IF request[u].op = "PUT uri" THEN Child("dir", 1) ELSE Child("chk", u)]

(* PlaceHolderNodeHandler.render_PUT, render_POST.                         *)
PlaceHolder(u) ==
  /\ rs[u].phase = "placeholder"
  /\ Only(u, replace_me(u))

(* FileNodeHandler.render_PUT: the early trap, then a mutable file is      *)
(* written in place.                                                       *)
File_render_PUT(u) ==
  LET req == request[u]
  IN /\ There(u) /\ rs[u].node.kind \in {"chk", "ssk"}
     /\ req.op \in {"PUT", "PUT uri", "PUT mkdir", "POST mkdir"}
     /\ Only(u, IF req.op \in {"PUT mkdir", "POST mkdir"} THEN Failed(u, 400)
                ELSE IF req.replace = "false" THEN Failed(u, 409)
                ELSE IF req.op = "PUT" /\ rs[u].node.kind = "ssk" THEN [rs[u] EXCEPT !.phase = "write"]
                ELSE replace_me(u))

(* FileNodeHandler.render_POST t=upload: replace= is a boolean here, and a *)
(* mutable file is written whatever it says.                               *)
File_render_POST(u) ==
  /\ rs[u].phase = "post" /\ rs[u].node.kind \in {"chk", "ssk"}
  /\ Only(u, IF request[u].replace = "only-files" THEN Failed(u, 400)
             ELSE IF rs[u].node.kind = "ssk" THEN [rs[u] EXCEPT !.phase = "write"]
             ELSE IF request[u].replace = "false" THEN Failed(u, 409)
             ELSE replace_me(u))

(* replace_my_contents, of the mutable file.                               *)
replace_my_contents(u) ==
  /\ rs[u].phase = "write"
  /\ contents' = u
  /\ Become(u, Done(u, 200, rs[u].node))
  /\ UNCHANGED <<dirs, request>>

(* DirectoryNodeHandler.render_PUT.                                        *)
Dir_render_PUT(u) ==
  LET req == request[u]
  IN /\ There(u) /\ rs[u].node.kind = "dir" /\ req.op \in {"PUT", "PUT uri", "PUT mkdir"}
     /\ Only(u, CASE req.op = "PUT mkdir" -> Done(u, 200, rs[u].node)
                  [] req.op = "PUT uri" -> IF req.replace = "false" THEN Failed(u, 409)
                                           ELSE replace_me(u)
                  [] OTHER -> Failed(u, 400))

(* _POST_mkdir: our job was done on the way, or name= says where.          *)
_POST_mkdir(u) ==
  /\ There(u) /\ rs[u].node.kind = "dir" /\ request[u].op = "POST mkdir"
  /\ IF request[u].name = "" THEN Only(u, Done(u, 200, rs[u].node))
     ELSE Only(u, [Within(u, request[u].name) EXCEPT !.phase = "link", !.new = Child("dir", u)])

(* _POST_mkdir_with_children, _POST_mkdir_immutable with name=: nothing is *)
(* ever replaced.                                                          *)
_POST_mkdir_with_children(u) ==
  /\ There(u) /\ rs[u].node.kind = "dir" /\ request[u].op = "POST mkdir-with-children"
  /\ Only(u, [Within(u, request[u].name) EXCEPT !.phase = "link", !.new = Child("dir", u)])

(* _POST_upload: as getChild would do for the name.                        *)
_POST_upload(u) ==
  LET child == dirs[rs[u].node.id][request[u].name]
      there == [Within(u, request[u].name) EXCEPT !.node = child]
  IN /\ There(u) /\ rs[u].node.kind = "dir" /\ request[u].op = "POST upload"
     /\ Only(u, CASE child = NoChild /\ request[u].replace = "only-files" -> Failed(u, 400)
                  [] child = NoChild -> [there EXCEPT !.phase = "link", !.new = Child("chk", u)]
                  [] child.kind = "dir" -> Failed(u, 400)
                  [] OTHER -> [there EXCEPT !.phase = "post"])

(* _POST_set_children, of one child.                                       *)
_POST_set_children(u) ==
  /\ There(u) /\ rs[u].node.kind = "dir" /\ request[u].op = "POST set_children"
  /\ Only(u, [Within(u, request[u].name) EXCEPT !.phase = "link", !.new = Child("chk", u)])

_POST_uri(u) ==
  /\ There(u) /\ rs[u].node.kind = "dir" /\ request[u].op = "POST uri"
  /\ Only(u, [Within(u, request[u].name) EXCEPT !.phase = "link", !.new = Child("chk", u)])

(* _POST_rename, _POST_relink: move_child_to takes the child first.        *)
_POST_relink(u) ==
  LET child == dirs[rs[u].node.id][request[u].name]
  IN /\ There(u) /\ rs[u].node.kind = "dir" /\ request[u].op = "POST rename"
     /\ Only(u, IF child = NoChild THEN Failed(u, 404)
                ELSE [Within(u, request[u].to) EXCEPT !.phase = "link", !.new = child])

(* parse_replace_arg, where the operation has a choice.                    *)
Overwrite(u) == IF request[u].op = "POST mkdir-with-children" THEN "false" ELSE request[u].replace

MakesDir(u) == request[u].op \in {"POST mkdir", "POST mkdir-with-children"}

(* Adder.modify, the late trap: may the link be set over what is there?    *)
Adder(u, old) == \/ old = NoChild \/ Overwrite(u) = "true"
                 \/ Overwrite(u) = "only-files" /\ old.kind # "dir"

(* set_node, add_file, create_subdirectory with a name, set_uri.           *)
set_node(u) ==
  LET old == dirs[rs[u].dir][rs[u].name]
      new == IF MakesDir(u) THEN Child("dir", Len(dirs) + 1) ELSE rs[u].new
  IN /\ rs[u].phase = "link"
     /\ IF Adder(u, old)
        THEN /\ dirs' = [dirs EXCEPT ![rs[u].dir][rs[u].name] = new]
                        \o (IF MakesDir(u) THEN <<[n \in Names |-> NoChild]>> ELSE <<>>)
             /\ Become(u, IF request[u].op = "POST rename" /\ request[u].to # request[u].name
                          THEN [rs[u] EXCEPT !.phase = "unlink"]
                          ELSE Done(u, IF rs[u].node = NoChild THEN 201 ELSE 200, new))
        ELSE dirs' = dirs /\ Become(u, Failed(u, 409))
     /\ UNCHANGED <<contents, request>>

(* Deleter.modify.                                                         *)
delete(u, d, name) ==
  /\ IF dirs[d][name] = NoChild THEN dirs' = dirs /\ Become(u, Failed(u, 404))
     ELSE /\ dirs' = [dirs EXCEPT ![d][name] = NoChild]
          /\ Become(u, Done(u, 200, dirs[d][name]))
  /\ UNCHANGED <<contents, request>>

render_DELETE(u) == There(u) /\ request[u].op = "DELETE" /\ rs[u].at > 0 /\ delete(u, rs[u].dir, rs[u].name)

_POST_unlink(u) ==
  There(u) /\ request[u].op = "POST unlink" /\ rs[u].node.kind = "dir" /\ delete(u, rs[u].node.id, request[u].name)

(* The end of move_child_to.                                               *)
MoveDone(u) == rs[u].phase = "unlink" /\ delete(u, rs[u].dir, request[u].name)

(* FileNodeHandler.render_POST, of a path: WebError unless an upload, with *)
(* which name= is ignored.                                                 *)
PostToFile(u) ==
  /\ There(u) /\ rs[u].node.kind # "dir"
  /\ request[u].op \in {"POST unlink", "POST upload", "POST uri", "POST set_children", "POST rename",
                       "POST mkdir-with-children"}
  /\ Only(u, IF request[u].op = "POST upload" THEN [rs[u] EXCEPT !.phase = "post"] ELSE Failed(u, 400))

-----------------------------------------------------------------------------
Least(a, b) == IF a < b THEN a ELSE b

(* parse_range_header: None, or the first and the last byte.               *)
parse_range_header(h) ==
  LET first == IF h.first = -1 THEN FileSize - h.last ELSE h.first
      last == IF h.first = -1 \/ h.last = -1 THEN FileSize - 1 ELSE h.last
  IN IF last < first THEN <<>> ELSE <<first, last>>

(* FileDownloader.render, with a range: the code, the first and last byte. *)
Served(range) ==
  IF range[1] >= FileSize THEN <<416, 0, -1>>
  ELSE <<206, IF range[1] > 0 THEN range[1] ELSE 0, Least(FileSize - 1, range[2])>>

(* FileNodeHandler.render_GET, of a file of that size.                     *)
render_GET(u) ==
  /\ There(u) /\ request[u].op = "GET" /\ rs[u].node.kind # "dir"
  /\ \E h \in Headers :
       LET range == parse_range_header(h)
           s == IF range = <<>> THEN <<200, 0, FileSize - 1>> ELSE Served(range)
       IN Only(u, [Done(u, s[1], rs[u].node) EXCEPT !.body = <<h, s[2], s[3]>>])

WebNext ==
  \E u \in Users :
    \/ getChild(u) \/ NotADirectory(u) \/ create_subdirectory(u) \/ PlaceHolder(u)
    \/ File_render_PUT(u) \/ File_render_POST(u) \/ replace_my_contents(u) \/ Dir_render_PUT(u)
    \/ _POST_mkdir(u) \/ _POST_mkdir_with_children(u) \/ _POST_upload(u) \/ _POST_uri(u) \/ _POST_relink(u)
    \/ set_node(u) \/ _POST_set_children(u) \/ render_DELETE(u) \/ _POST_unlink(u) \/ MoveDone(u)
    \/ PostToFile(u) \/ render_GET(u)

WebSpec == WebInit /\ [][WebNext]_webVars

-----------------------------------------------------------------------------
(* replace= is kept to whatever else happens meanwhile: a link that is     *)
(* there is set to something else only by a request that said replace=true *)
(* or, for what is not a directory, only-files, or removed by one that is  *)
(* to remove it (the early trap of the handlers, the late one of Adder);   *)
(* directories made on the way are the exception.  And a PUT with          *)
(* replace=false never writes into a mutable file.                         *)
ReplacesOnlyIfAsked ==
  /\ \A d \in DOMAIN dirs, n \in Names :
       dirs[d][n] # NoChild /\ dirs'[d][n] # dirs[d][n] =>
         \E u \in Users :
           /\ rs'[u] # rs[u]
           /\ \/ request[u].op \in {"DELETE", "POST unlink"} \/ rs[u].phase \in {"mkdir", "unlink"}
              \/ Overwrite(u) = "true"
              \/ Overwrite(u) = "only-files" /\ dirs[d][n].kind # "dir"
  /\ contents' # contents =>
       \E u \in Users : rs'[u] # rs[u] /\ (request[u].replace # "false" \/ request[u].op = "POST upload")

(* A part of a file is answered with the bytes asked for, as far as the    *)
(* file has them, or with all of it, or refused if it has none of them     *)
(* (parse_range_header, FileDownloader.render).                            *)
RangeExact ==
  \A u \in Users :
    request[u].op = "GET" /\ rs[u].phase = "done" =>
      LET h == rs[u].body[1]
          asked == {i \in 0..(FileSize - 1) :
                      IF h.first = -1 THEN i >= FileSize - h.last
                      ELSE i >= h.first /\ (h.last # -1 => i <= h.last)}
          sent == rs[u].body[2]..rs[u].body[3]
      IN \/ rs[u].code = 206 /\ sent = asked
         \/ rs[u].code = 200 /\ sent = 0..(FileSize - 1) /\ asked = {}
         \/ rs[u].code = 416 /\ asked = {}

(* What a path leads to.                                                   *)
At(path) ==
  LET step(child, name) == IF child.kind = "dir" /\ child.id \in DOMAIN dirs THEN dirs[child.id][name] ELSE NoChild
  IN FoldLeft(step, Child("dir", 1), path)

(* "Once this operation succeeds, a GET on the same URL will retrieve the  *)
(* same contents that were just uploaded" (webapi.rst, PUT): with requests *)
(* that put files at different paths, none above another, and nothing      *)
(* else, each file is found at its path once its request has succeeded.    *)
AvailableOnceDone ==
  (\A u, v \in Users : request[u].op = "PUT" /\ (u # v => ~IsPrefix(request[u].path, request[v].path)))
  => \A u \in Users : rs[u].phase = "done" => At(request[u].path) = rs[u].new
=============================================================================
