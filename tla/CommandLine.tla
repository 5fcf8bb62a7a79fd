---------------------------- MODULE CommandLine -----------------------------
(***************************************************************************)
(* The commands that ask the node for one thing or a few (scripts/         *)
(* tahoe_mv.py, tahoe_put.py, tahoe_get.py, tahoe_ls.py, tahoe_mkdir.py,   *)
(* tahoe_unlink.py, tahoe_add_alias.py, common.py, common_http.py), one    *)
(* command after the other.  A request may be refused, fail, or be served  *)
(* and its answer lost; a command may be killed between any two steps.     *)
(*                                                                         *)
(* An argument is a sequence of tokens: names, caps, ":", "/" and ":./".   *)
(* A directory, a file and its cap have one name here; every directory is  *)
(* mutable, "m" is a mutable file and all the others are immutable.  The   *)
(* web API serves a request at once (WebPaths.tla has the steps of that).  *)
(***************************************************************************)
EXTENDS Integers, Sequences, FiniteSets, SequencesExt

CONSTANTS Names,
          Roots,        \* directories that are there at first
          Spare,        \* directories that may be made
          CliTrees,     \* at first: functions directory -> name -> what is linked, or ""
          Files0,       \* files that have a cap
          CliLines,     \* command lines: [op, from, to, new, key, mutable]
          AliasFiles,   \* alias files at first: [lines, ended]
          RootCap,      \* private/root_dir.cap, or ""
          Odd,          \* names that the terminal cannot show
          MaxCommands,  \* bound on commands
          MaxFailures   \* bound on requests that fail and commands that are killed

VARIABLES world,      \* the grid: [tree, made, mfile]
          aliasfile,  \* private/aliases: [lines, ended]; a line is <<alias, cap>>
          tmp,        \* private/aliases.tmp
          sh,         \* the command that runs
          told,       \* ghost: the aliases that a command said it had added
          luck        \* failures that may still happen

shellVars == <<world, aliasfile, tmp, sh, told, luck>>

Folders == Roots \cup Spare
Partial == [lines |-> <<>>, ended |-> FALSE]
NoLine == [op |-> "", from |-> <<>>, to |-> <<>>, new |-> "", key |-> FALSE, mutable |-> FALSE]

(* A line that ends in a traceback, or is killed.                          *)
Raised == 99
BrokenOff == "part"

-----------------------------------------------------------------------------
(* get_aliases: the last line of an alias counts, and root_dir.cap is used *)
(* if there is none for the default.                                       *)
get_aliases(file) ==
  LET names == {file.lines[i][1] : i \in DOMAIN file.lines}
      last(n) == file.lines[SelectLastInSeq(file.lines, LAMBDA l : l[1] = n)][2]
  IN [n \in names \cup (IF RootCap = "" THEN {} ELSE {"tahoe"}) |-> IF n \in names THEN last(n) ELSE RootCap]

Find(tokens, t) == SelectInSeq(tokens, LAMBDA u : u = t)
After(tokens, i) == SubSeq(tokens, i + 1, Len(tokens))

(* The names of a path; a slash in front leaves an empty one.              *)
Segments(tokens) ==
  (IF tokens # <<>> /\ Head(tokens) = "/" THEN <<"">> ELSE <<>>) \o SelectSeq(tokens, LAMBDA t : t # "/")

Unknown == [ok |-> FALSE, root |-> "", path |-> <<>>, tokens |-> <<>>]
Resolved(root, tokens) == [ok |-> TRUE, root |-> root, path |-> Segments(tokens), tokens |-> tokens]

(* get_alias, with the default alias of these commands: a cap and a path   *)
(* below it, ALIAS:path, or a path below the default; a colon after a      *)
(* slash belongs to a name.                                                *)
get_alias(known, tokens) ==
  LET dot == Find(tokens, ":./")
      slash == Find(tokens, "/")
      colon == Find(tokens, ":")
      alias == IF colon = 1 THEN "" ELSE Head(tokens)
  IN CASE tokens # <<>> /\ Head(tokens) \in Folders \cup Files0 ->
            IF dot # 0 THEN Resolved(Head(tokens), After(tokens, dot))
            ELSE IF slash # 0 THEN Resolved(Head(tokens), After(tokens, slash))
            ELSE Resolved(Head(tokens), <<>>)
       [] tokens = <<>> \/ Head(tokens) \notin Folders \cup Files0 ->
            IF colon = 0 \/ slash \in 1..(colon - 1)
            THEN IF "tahoe" \in DOMAIN known THEN Resolved(known["tahoe"], tokens) ELSE Unknown
            ELSE IF alias \in DOMAIN known THEN Resolved(known[alias], After(tokens, colon)) ELSE Unknown

EndsInSlash(a) == a.tokens # <<>> /\ Last(a.tokens) = "/"

-----------------------------------------------------------------------------
(* What the web API makes of a request: a status and the grid after it.    *)
At(w, root, path) ==
  FoldLeft(LAMBDA d, n : IF d \in Folders /\ n \in Names THEN w.tree[d][n] ELSE "", root, path)

Reply(status, w) == [status |-> status, world |-> w]
Fresh(w) == CHOOSE d \in Spare : d \notin w.made
Link(w, d, n, what) == [w EXCEPT !.tree[d][n] = what]

Empty(path) == "" \in ToSet(path)

(* PUT of a file, a cap or a new directory: a directory that is missing on *)
(* the way is made (but see Terminal in WebPaths.tla), a mutable file is   *)
(* written in place unless a cap is put there, a directory is not replaced *)
(* and the root of a path cannot be.                                       *)
PutAt(w, root, path, what, kind) ==
  LET parent == At(w, root, Front(path))
      old == At(w, root, path)
      fresh == Fresh(w)
  IN CASE path = <<>> -> Reply(IF kind = "cap" THEN 500 ELSE 400, w)
       [] path # <<>> /\ Empty(path) -> Reply(400, w)
       [] path # <<>> /\ ~Empty(path) /\ parent \in Folders ->
            IF old \in Folders THEN Reply(IF kind = "cap" THEN 409 ELSE 400, w)
            ELSE IF old = "m" /\ kind = "file" THEN Reply(200, [w EXCEPT !.mfile = what])
            ELSE Reply(IF old = "" THEN 201 ELSE 200, Link(w, parent, Last(path), what))
       [] path # <<>> /\ ~Empty(path) /\ parent = "" /\ root \in Folders /\ Len(path) = 2 ->
            IF path[1] = path[2] /\ kind # "dir" THEN Reply(404, w)
            ELSE Reply(201, Link(Link([w EXCEPT !.made = @ \cup {fresh}], root, path[1], fresh), fresh, path[2], what))
       [] OTHER -> Reply(409, w)

(* No such child, or a file on the way.                                    *)
Missing(w, root, path) ==
  IF Empty(path) \/ \E i \in 0..(Len(path) - 1) : At(w, root, SubSeq(path, 1, i)) \notin Folders \cup {""}
  THEN 400 ELSE 404

DeleteAt(w, root, path) ==
  IF path = <<>> THEN Reply(500, w)
  ELSE IF At(w, root, path) = "" THEN Reply(Missing(w, root, path), w)
  ELSE Reply(200, Link(w, At(w, root, Front(path)), Last(path), ""))

GetAt(w, root, path) == Reply(IF At(w, root, path) = "" THEN Missing(w, root, path) ELSE 200, w)

MkdirAt(w, root, path) ==
  IF At(w, root, path) \in Folders THEN Reply(200, w)
  ELSE IF At(w, root, path) # "" THEN Reply(400, w)
  ELSE LET r == PutAt([w EXCEPT !.made = @ \cup {Fresh(w)}], root, path, Fresh(w), "dir")
       IN Reply(r.status, IF r.status = 201 THEN r.world ELSE w)

MkdirUnlinked(w) == Reply(200, [w EXCEPT !.made = @ \cup {Fresh(w)}])

-----------------------------------------------------------------------------
ShellInit ==
  /\ world \in {[tree |-> t, made |-> Roots, mfile |-> ""] : t \in CliTrees}
  /\ aliasfile \in AliasFiles /\ tmp = Partial
  /\ sh = [pc |-> "exit", line |-> NoLine, known |-> <<>>, obj |-> "", text |-> Partial, was |-> world,
           rc |-> 0, out |-> {}, runs |-> 0]
  /\ told = {<<a, get_aliases(aliasfile)[a]>> : a \in DOMAIN get_aliases(aliasfile)}
  /\ luck = MaxFailures

(* runner.dispatch: the aliases are read when the command line is.         *)
Begin(line) ==
  /\ sh.pc = "exit" /\ sh.runs < MaxCommands
  /\ sh' = [sh EXCEPT !.pc = "begin", !.line = line, !.known = get_aliases(aliasfile), !.was = world,
                      !.obj = "", !.rc = 0, !.out = {}, !.runs = @ + 1]
  /\ UNCHANGED <<world, aliasfile, tmp, told, luck>>

Starts(op) == sh.pc = "begin" /\ sh.line.op = op
Exited(rc) == [sh EXCEPT !.pc = "exit", !.rc = rc]
Only(s) == sh' = s /\ UNCHANGED <<world, aliasfile, tmp, told, luck>>

(* do_http: the answer, or BadResponse with status -1 if there is no       *)
(* connection; a request may fail, or be served and its answer not come,   *)
(* which raises an exception.                                              *)
NoStatus == 0
Answer(status, after, cost) == [status |-> status, world |-> after, cost |-> cost]

do_http(reply) ==
  {Answer(reply.status, reply.world, 0), Answer(-1, world, 1), Answer(500, world, 1),
   Answer(NoStatus, reply.world, 1)}

(* What a command makes of the status that it gets.                        *)
Ask(reply, Then(_)) ==
  \E answer \in do_http(reply) :
    /\ answer.cost <= luck /\ luck' = luck - answer.cost
    /\ world' = answer.world
    /\ sh' = IF answer.status = NoStatus THEN Exited(Raised) ELSE Then(answer.status)
    /\ UNCHANGED <<aliasfile, tmp, told>>

check_http_error(status) == status < 200 \/ status >= 300

Kill ==
  /\ sh.pc # "exit" /\ luck > 0
  /\ sh' = Exited(Raised) /\ luck' = luck - 1
  /\ UNCHANGED <<world, aliasfile, tmp, told>>

-----------------------------------------------------------------------------
From == get_alias(sh.known, sh.line.from)
To == get_alias(sh.known, sh.line.to)

(* mv and ln: the cap of the source is asked for.                          *)
mv_get ==
  /\ Starts("mv") \/ Starts("ln")
  /\ IF ~From.ok THEN Only(Exited(1))
     ELSE Ask(GetAt(world, From.root, From.path),
              LAMBDA status : IF check_http_error(status) THEN Exited(1)
                              ELSE [sh EXCEPT !.pc = "put", !.obj = At(world, From.root, From.path)])

(* "mv foo.txt bar/" is "mv foo.txt bar/foo.txt".                          *)
Target == IF EndsInSlash(To) THEN Append(To.path, Last(From.path)) ELSE To.path

(* It is linked at the target, where only a file may be replaced.          *)
mv_put ==
  /\ sh.pc = "put"
  /\ IF ~To.ok THEN Only(Exited(1))
     ELSE Ask(PutAt(world, To.root, Target, sh.obj, "cap"),
              LAMBDA status : IF check_http_error(status) THEN Exited(1)
                              ELSE IF sh.line.op = "mv" THEN [sh EXCEPT !.pc = "delete"]
                              ELSE Exited(0))

(* And the original is removed.                                            *)
mv_delete ==
  /\ sh.pc = "delete"
  /\ Ask(DeleteAt(world, From.root, From.path),
         LAMBDA status : IF check_http_error(status) THEN Exited(2) ELSE Exited(0))

-----------------------------------------------------------------------------
put_served ==
  CASE sh.line.to = <<>> -> Reply(200, world)
    [] sh.line.to = <<"m">> -> Reply(200, [world EXCEPT !.mfile = sh.line.new])
    [] OTHER -> PutAt(world, To.root, To.path, sh.line.new, "file")

(* put: unlinked, to a mutable file's cap, or to a path.                   *)
put ==
  /\ Starts("put")
  /\ IF \/ sh.line.to \notin {<<>>, <<"m">>} /\ (~To.ok \/ Head(To.tokens) = "/")
        \/ sh.line.key /\ ~sh.line.mutable
     THEN Only(Exited(1))
     ELSE Ask(put_served, LAMBDA status : Exited(IF status \in {200, 201} THEN 0 ELSE 1))

(* get: the local file is opened once the answer is there, and written     *)
(* until there is no more; a body that is broken off ends so too.          *)
get ==
  /\ Starts("get")
  /\ IF ~From.ok THEN Only(Exited(1))
     ELSE \/ Ask(GetAt(world, From.root, From.path),
                 LAMBDA status : IF status \in {200, 201}
                                 THEN [Exited(0) EXCEPT !.out = {At(world, From.root, From.path)}]
                                 ELSE Exited(1))
          \/ /\ luck > 0 /\ At(world, From.root, From.path) # ""
             /\ luck' = luck - 1 /\ sh' = [Exited(0) EXCEPT !.out = {BrokenOff}]
             /\ UNCHANGED <<world, aliasfile, tmp, told>>

unlink ==
  /\ Starts("unlink")
  /\ IF ~From.ok \/ From.path = <<>> THEN Only(Exited(1))
     ELSE Ask(DeleteAt(world, From.root, From.path),
              LAMBDA status : Exited(IF status = 200 THEN 0 ELSE 1))

(* mkdir: without a path the directory is linked nowhere; with one the     *)
(* command answers 0 whatever came of the request.                         *)
mkdir ==
  /\ Starts("mkdir")
  /\ IF sh.line.from # <<>> /\ ~From.ok THEN Only(Exited(1))
     ELSE IF sh.line.from = <<>> \/ From.path = <<>>
     THEN Ask(MkdirUnlinked(world),
              LAMBDA status : IF check_http_error(status) THEN Exited(1)
                              ELSE [Exited(0) EXCEPT !.out = {Fresh(world)}])
     ELSE Ask(MkdirAt(world, From.root, From.path), LAMBDA status : Exited(0))

(* ls: the rows, of a directory's entries or of the one file; names that   *)
(* cannot be shown make it answer 1, other failures as the status says.    *)
Rows(at) ==
  IF at \in Folders THEN {<<n, world.tree[at][n]>> : n \in {m \in Names : world.tree[at][m] # ""}}
  ELSE {<<IF From.path = <<>> THEN "" ELSE Last(From.path), at>>}

ls ==
  /\ Starts("ls")
  /\ IF ~From.ok THEN Only(Exited(1))
     ELSE LET rows == Rows(At(world, From.root, From.path))
          IN Ask(GetAt(world, From.root, From.path),
                 LAMBDA status : IF status = 404 THEN Exited(2)
                                 ELSE IF status # 200 THEN Exited(status)
                                 ELSE [Exited(IF \E r \in rows : r[1] \in Odd THEN 1 ELSE 0) EXCEPT !.out = rows])

-----------------------------------------------------------------------------
(* add_alias: the alias is free, and the cap is that of a directory.       *)
add_alias ==
  /\ Starts("add-alias")
  /\ Only(IF sh.line.new \in {":", " "} \/ sh.line.new \in DOMAIN get_aliases(aliasfile) THEN Exited(1)
          ELSE IF Head(sh.line.from) \notin Folders THEN Exited(Raised)
          ELSE [sh EXCEPT !.pc = "read", !.obj = Head(sh.line.from)])

create_alias ==
  /\ Starts("create-alias")
  /\ IF sh.line.new \in {":", " "} \/ sh.line.new \in DOMAIN get_aliases(aliasfile) THEN Only(Exited(1))
     ELSE Ask(MkdirUnlinked(world),
              LAMBDA status : IF check_http_error(status) THEN Exited(1)
                              ELSE [sh EXCEPT !.pc = "read", !.obj = Fresh(world)])

(* What a line added to the text makes of it: unless the text ends in a    *)
(* newline the line is lost in the one before.                             *)
Added(text, line) ==
  [lines |-> IF text.ended \/ text.lines = <<>> THEN Append(text.lines, line)
             ELSE Append(Front(text.lines), <<Last(text.lines)[1], "unreadable">>),
   ended |-> TRUE]

(* add_line_to_aliasfile: the file is read and a newline added if it lacks *)
(* one, the temporary file is opened, written and moved into place.        *)
read_aliasfile ==
  /\ sh.pc = "read"
  /\ Only([sh EXCEPT !.pc = "open", !.text = Added([aliasfile EXCEPT !.ended = TRUE], <<sh.line.new, sh.obj>>)])

open_tmp ==
  /\ sh.pc = "open"
  /\ tmp' = Partial /\ sh' = [sh EXCEPT !.pc = "write"]
  /\ UNCHANGED <<world, aliasfile, told, luck>>

write_tmp ==
  /\ sh.pc = "write"
  /\ tmp' = sh.text /\ sh' = [sh EXCEPT !.pc = "move"]
  /\ UNCHANGED <<world, aliasfile, told, luck>>

move_into_place ==
  /\ sh.pc = "move"
  /\ aliasfile' = tmp /\ sh' = Exited(0)
  /\ told' = told \cup {<<sh.line.new, sh.obj>>}
  /\ UNCHANGED <<world, tmp, luck>>

list_aliases ==
  /\ Starts("list-aliases")
  /\ LET known == get_aliases(aliasfile)
     IN Only([Exited(0) EXCEPT !.out = {<<a, known[a]>> : a \in DOMAIN known}])

ShellNext ==
  \/ \E line \in CliLines : Begin(line)
  \/ mv_get \/ mv_put \/ mv_delete \/ put \/ get \/ unlink \/ mkdir \/ ls
  \/ add_alias \/ create_alias \/ read_aliasfile \/ open_tmp \/ write_tmp \/ move_into_place
  \/ list_aliases \/ Kill

ShellSpec == ShellInit /\ [][ShellNext]_shellVars

-----------------------------------------------------------------------------
Place(w, root, path) == <<At(w, root, Front(path)), Last(path)>>

(* The directories that can be reached from one.                           *)
Under(w, d) ==
  FoldLeft(LAMBDA s, i : s \cup ({w.tree[e][n] : e \in s, n \in Names} \cap Folders),
           {d}, [i \in 1..Cardinality(Folders) |-> i])

(* A move to another place than the one it is from, and not into the       *)
(* directory that is moved.                                                *)
RealMove ==
  /\ From.ok /\ To.ok /\ From.path # <<>> /\ Target # <<>>
  /\ Place(sh.was, From.root, From.path) # Place(sh.was, To.root, Target)
  /\ sh.obj \in Folders => At(sh.was, To.root, Front(Target)) \notin Under(sh.was, sh.obj)

(* tahoe mv never drops what it moves: it is at the old or at the new      *)
(* place at all times, whichever request fails and whenever the command    *)
(* is killed; 0 means that it is at the new place alone, 2 that it is at   *)
(* both, 1 that nothing was done.                                          *)
MoveKeeps ==
  sh.line.op = "mv" /\ sh.obj # "" /\ RealMove =>
    LET at_old == At(world, From.root, From.path)
        at_new == At(world, To.root, Target)
    IN /\ sh.obj \in {at_old, at_new}
       /\ sh.pc = "exit" =>
            CASE sh.rc = 0 -> at_new = sh.obj /\ at_old # sh.obj
              [] sh.rc = 2 -> at_new = sh.obj /\ at_old = sh.obj
              [] sh.rc = 1 -> world = sh.was
              [] OTHER -> TRUE

(* The links that a path goes over; all but the last may only be made.     *)
On(a, path) == {<<At(sh.was, a.root, SubSeq(path, 1, i - 1)), path[i], i = Len(path)>> : i \in DOMAIN path}

MaySet ==
  CASE sh.line.op \in {"mv", "ln"} /\ To.ok -> On(To, Target)
    [] sh.line.op = "put" /\ To.ok -> On(To, To.path)
    [] sh.line.op = "mkdir" /\ From.ok -> On(From, From.path)
    [] OTHER -> {}

MayRemove ==
  IF sh.line.op \in {"mv", "unlink"} /\ From.ok THEN {p \in On(From, From.path) : p[3]} ELSE {}

(* A command touches no link but those it is to set or to remove: of the   *)
(* directories that are there only the one that is moved, or unlinked,     *)
(* loses a link, and nothing is replaced on the way to a target.           *)
OnlyItsLinks ==
  \A d \in Roots, n \in Names :
    LET old == sh.was.tree[d][n]
        now == world.tree[d][n]
    IN old # now => \/ now = "" /\ <<d, n, TRUE>> \in MayRemove
                    \/ now # "" /\ <<d, n, TRUE>> \in MaySet /\ old \notin Folders
                    \/ now # "" /\ <<d, n, FALSE>> \in MaySet /\ old = ""

(* An answer of 0 is true: what was put is found at the path, what was     *)
(* unlinked is gone, what get saved is what the path led to (or, if the    *)
(* answer was broken off, a part of it), ls showed every entry and nothing *)
(* else.  (mkdir with a path answers 0 always.)                            *)
AnswerTrue ==
  sh.pc = "exit" /\ sh.rc = 0 =>
    /\ sh.line.op = "put" =>
         \/ sh.line.to = <<>>
         \/ world.mfile = sh.line.new /\ (sh.line.to = <<"m">> \/ At(world, To.root, To.path) = "m")
         \/ At(world, To.root, To.path) = sh.line.new
    /\ sh.line.op = "unlink" => At(sh.was, From.root, From.path) # "" /\ At(world, From.root, From.path) = ""
    /\ sh.line.op = "get" => sh.out \in {{At(sh.was, From.root, From.path)}, {BrokenOff}}
    /\ sh.line.op = "ls" => At(sh.was, From.root, From.path) # "" /\ sh.out = Rows(At(sh.was, From.root, From.path))
    /\ sh.line.op = "ln" => At(world, To.root, Target) = sh.obj
    /\ sh.line.op = "mkdir" => sh.out \subseteq world.made

(* An alias that was there, or that a command said it had added, stays,    *)
(* for the same directory, also when a later command is killed half way;   *)
(* and it leads to a directory that exists.                                *)
AliasesKept ==
  \A a \in told : /\ a[1] \in DOMAIN get_aliases(aliasfile) /\ get_aliases(aliasfile)[a[1]] = a[2]
                  /\ a[2] \in world.made

-----------------------------------------------------------------------------
(***************************************************************************)
(* tahoe cp -r (scripts/tahoe_cp.py): the target is looked at, the sources *)
(* are scanned, a target directory is found or made for each source        *)
(* directory, name collisions are refused, and then each file is uploaded  *)
(* and each target directory gets its new children in one request.  Every  *)
(* request may fail, which ends the command.  The target is on the grid.   *)
(***************************************************************************)
CONSTANTS Trees,      \* initial contents of the directories: functions dir -> name -> entry
          Unmade,     \* directories that do not exist yet
          Commands,   \* command lines: [sources, dir, name, recursive], name "" for dir itself
          MaxFails    \* bound on requests that fail

VARIABLES dirs,      \* directory -> name -> entry
          before,    \* ghost: the same when the command started
          cmd,       \* the command
          target,    \* the target directory, or "" when it is missing
          cached,    \* directories in Copier.cache as targets
          assign,    \* pairs <<source, target>> that assign_targets has still to do
          targetmap, \* files to copy: [from, name, to]
          new,       \* directory -> name -> file uploaded for it, or NoEntry
          phase,     \* "try", "scan", "assign", "copy", "done", "error"
          fails

cpVars == <<dirs, before, cmd, target, cached, assign, targetmap, new, phase, fails>>

NoEntry == [type |-> "none", id |-> "", mutable |-> FALSE]
File(id) == [type |-> "file", id |-> id, mutable |-> FALSE]
Dir(id) == [type |-> "dir", id |-> id, mutable |-> TRUE]
Nothing == [n \in Names |-> NoEntry]

IsDir(s) == s.type = "dir"
Range2(seq) == {seq[i] : i \in DOMAIN seq}

CpInit ==
  /\ dirs \in Trees /\ before = dirs /\ cmd \in Commands
  /\ target = "" /\ cached = {} /\ assign = <<>> /\ targetmap = <<>>
  /\ new = [d \in DOMAIN dirs |-> Nothing] /\ phase = "try" /\ fails = 0

Fail ==
  /\ phase \notin {"done", "error"} /\ fails < MaxFails
  /\ phase' = "error" /\ fails' = fails + 1
  /\ UNCHANGED <<dirs, before, cmd, target, cached, assign, targetmap, new>>

Refuse ==
  /\ phase' = "error"
  /\ UNCHANGED <<dirs, before, cmd, target, cached, assign, targetmap, new, fails>>

-----------------------------------------------------------------------------
(* get_target_info: what is at the target now.                             *)
CpTarget == IF cmd.name = "" THEN Dir(cmd.dir) ELSE dirs[cmd.dir][cmd.name]

Single == Len(cmd.sources) = 1 /\ ~IsDir(cmd.sources[1])
TargetIsFile == CpTarget.type = "file" \/ (CpTarget.type = "none" /\ Single)

(* try_copy: usage errors.                                                 *)
UsageError ==
  \/ (\E s \in Range2(cmd.sources) : IsDir(s)) /\ ~cmd.recursive
  \/ TargetIsFile /\ ~Single
  \/ ~TargetIsFile /\ \E s \in Range2(cmd.sources) : ~IsDir(s) /\ s.name = ""

Made == {d \in DOMAIN dirs : d \notin Unmade \/ \E e \in DOMAIN dirs, n \in Names : dirs[e][n] = Dir(d)}
FreshDir == CHOOSE u \in Unmade : u \notin Made

(* PUT to a path: a mutable file is overwritten in place.                  *)
Stored(old, from) == IF old.type = "file" /\ old.mutable THEN [old EXCEPT !.id = from] ELSE File(from)

(* copy_file_to_file.                                                      *)
copy_file_to_file ==
  /\ phase = "try" /\ ~UsageError /\ TargetIsFile
  /\ dirs' = [dirs EXCEPT ![cmd.dir][cmd.name] = Stored(@, cmd.sources[1].id)]
  /\ phase' = "done"
  /\ UNCHANGED <<before, cmd, target, cached, assign, targetmap, new, fails>>

(* The target's populate: its subdirectories are looked up and cached.     *)
Populated(d) == {dirs[d][n].id : n \in {m \in Names : IsDir(dirs[d][m])}}

(* maybe_create_target, for what is no file.                               *)
try_copy ==
  /\ phase = "try"
  /\ IF UsageError THEN Refuse
     ELSE /\ ~TargetIsFile
          /\ IF CpTarget.type = "dir" THEN target' = CpTarget.id /\ dirs' = dirs
             ELSE target' = FreshDir /\ dirs' = [dirs EXCEPT ![cmd.dir][cmd.name] = Dir(FreshDir)]
          /\ cached' = Populated(target')
          /\ phase' = "scan"
          /\ UNCHANGED <<before, cmd, assign, targetmap, new, fails>>

RECURSIVE Below(_)
Below(d) == Populated(d) \cup UNION {Below(e) : e \in Populated(d)}

SourceDirs == {s.id : s \in {t \in Range2(cmd.sources) : IsDir(t)}}

(* The sources' populate: sources and targets share one cache, and a       *)
(* source that is found there as a target ends the command in an           *)
(* assertion.                                                              *)
populate ==
  /\ phase = "scan"
  /\ IF \E d \in SourceDirs : Below(d) \cap cached # {} THEN Refuse
     ELSE /\ phase' = "assign"
          /\ assign' = [i \in DOMAIN cmd.sources |-> [source |-> cmd.sources[i], to |-> target]]
          /\ UNCHANGED <<dirs, before, cmd, target, cached, targetmap, new, fails>>

-----------------------------------------------------------------------------
(* The children of a source directory, as work for assign_targets.         *)
Work(d, to) ==
  LET present == {n \in Names : dirs[d][n].type # "none"}
      order == CHOOSE f \in [1..Cardinality(present) -> present] : Range2(f) = present
  IN [i \in DOMAIN order |-> [source |-> [type |-> dirs[d][order[i]].type, id |-> dirs[d][order[i]].id,
                                          name |-> order[i]], to |-> to]]

(* get_child_target: the directory of that name, or a new one; with a file *)
(* in the way the command ends in an assertion.                            *)
get_child_target(to, name) ==
  CASE IsDir(dirs[to][name]) -> dirs[to][name].id
    [] dirs[to][name].type = "none" -> FreshDir
    [] OTHER -> ""

(* build_targetmap and assign_targets, one source at a time.               *)
assign_targets ==
  /\ phase = "assign" /\ assign # <<>>
  /\ LET a == Head(assign)
         unnamed == IsDir(a.source) /\ a.source.name = ""
     IN IF ~IsDir(a.source)
        THEN /\ targetmap' = Append(targetmap, [from |-> a.source.id, name |-> a.source.name, to |-> a.to])
             /\ assign' = Tail(assign)
             /\ UNCHANGED <<dirs, before, cmd, target, cached, new, phase, fails>>
        ELSE \E sub \in {IF unnamed THEN a.to ELSE get_child_target(a.to, a.source.name)} :
               IF sub = "" THEN Refuse
               ELSE /\ dirs' = IF unnamed THEN dirs ELSE [dirs EXCEPT ![a.to][a.source.name] = Dir(sub)]
                    /\ assign' = Work(a.source.id, sub) \o Tail(assign)
                    /\ UNCHANGED <<before, cmd, target, cached, targetmap, new, phase, fails>>

(* Target name collisions.                                                 *)
Collision ==
  \E i \in DOMAIN targetmap, j \in DOMAIN targetmap :
    i # j /\ targetmap[i].to = targetmap[j].to /\ targetmap[i].name = targetmap[j].name

RECURSIVE ByTarget(_)
ByTarget(map) ==
  IF map = <<>> THEN <<>>
  ELSE SelectSeq(map, LAMBDA c : c.to = map[1].to) \o ByTarget(SelectSeq(map, LAMBDA c : c.to # map[1].to))

collisions ==
  /\ phase = "assign" /\ assign = <<>>
  /\ IF Collision THEN Refuse
     ELSE /\ phase' = "copy" /\ targetmap' = ByTarget(targetmap)
          /\ UNCHANGED <<dirs, before, cmd, target, cached, assign, new, fails>>

-----------------------------------------------------------------------------
(* copy_file_into_dir and put_file: a mutable file is overwritten in       *)
(* place, anything else waits for set_children.  A directory of that name  *)
(* is mutable and has a put_file of two arguments: the command ends.       *)
copy_file_into_dir ==
  /\ phase = "copy" /\ targetmap # <<>>
  /\ \A d \in DOMAIN new : d # targetmap[1].to => new[d] = Nothing
  /\ LET c == Head(targetmap)
         there == dirs[c.to][c.name]
     IN IF IsDir(there) /\ there.mutable THEN Refuse
        ELSE /\ IF there.mutable
                THEN dirs' = [dirs EXCEPT ![c.to][c.name] = Stored(there, c.from)] /\ new' = new
                ELSE new' = [new EXCEPT ![c.to][c.name] = File(c.from)] /\ dirs' = dirs
             /\ targetmap' = Tail(targetmap)
             /\ UNCHANGED <<before, cmd, target, cached, assign, phase, fails>>

Overlaid_alone(old, added) == added

(* What set_children makes of a directory.                                 *)
Overlaid(old, added) == [n \in Names |-> IF added[n] = NoEntry THEN old[n] ELSE added[n]]

set_children(d) ==
  /\ phase = "copy" /\ new[d] # Nothing
  /\ \A i \in DOMAIN targetmap : targetmap[i].to # d
  /\ dirs' = [dirs EXCEPT ![d] = Overlaid(@, new[d])]
  /\ new' = [new EXCEPT ![d] = Nothing]
  /\ UNCHANGED <<before, cmd, target, cached, assign, targetmap, phase, fails>>

announce_success ==
  /\ phase = "copy" /\ targetmap = <<>> /\ \A d \in DOMAIN new : new[d] = Nothing
  /\ phase' = "done"
  /\ UNCHANGED <<dirs, before, cmd, target, cached, assign, targetmap, new, fails>>

CpNext ==
  \/ try_copy \/ copy_file_to_file \/ populate \/ assign_targets \/ collisions \/ copy_file_into_dir
  \/ \E d \in DOMAIN dirs : set_children(d)
  \/ announce_success \/ Fail

CpSpec == CpInit /\ [][CpNext]_cpVars

-----------------------------------------------------------------------------
RECURSIVE Holds(_, _)
Holds(to, from) ==
  \A n \in Names :
    /\ before[from][n].type = "file" => dirs[to][n].type = "file" /\ dirs[to][n].id = before[from][n].id
    /\ IsDir(before[from][n]) => IsDir(dirs[to][n]) /\ Holds(dirs[to][n].id, before[from][n].id)

(* A copy that reports success has put every file of every source where    *)
(* its path under the target says.                                         *)
AllCopied ==
  phase = "done" =>
    \A s \in Range2(cmd.sources) :
      CASE IsDir(s) /\ s.name = "" -> Holds(target, s.id)
        [] IsDir(s) /\ s.name # "" -> IsDir(dirs[target][s.name]) /\ Holds(dirs[target][s.name].id, s.id)
        [] ~IsDir(s) /\ target = "" -> dirs[cmd.dir][cmd.name].type = "file" /\ dirs[cmd.dir][cmd.name].id = s.id
        [] OTHER -> dirs[target][s.name].type = "file" /\ dirs[target][s.name].id = s.id

(* Whether it succeeds, is refused or fails half way, what was in a        *)
(* directory is still there: a mutable directory stays linked, a mutable   *)
(* file stays the same file, and nothing is unlinked without another file  *)
(* in its place.                                                           *)
NothingLost ==
  \A d \in DOMAIN dirs, n \in Names :
    before[d][n].type # "none" =>
      /\ dirs[d][n].type # "none"
      /\ before[d][n].mutable => dirs[d][n].type = before[d][n].type /\ dirs[d][n].mutable
      /\ IsDir(before[d][n]) /\ before[d][n].mutable => dirs[d][n] = before[d][n]
=============================================================================
