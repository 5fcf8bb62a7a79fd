---------------------------- MODULE MCFrontends -----------------------------
(***************************************************************************)
(* What a client of the grid uses to get at its files, one component at a  *)
(* time: the variable part, which never changes, says which of twelve      *)
(* small instances a behaviour is about.                                   *)
(***************************************************************************)
EXTENDS Integers, Sequences, FiniteSets

VARIABLES part,
  open, h, c, dl, rd, want, nested, stored,
  dir, by_path, by_entry, files, req, on, past,
  contents, version, op, left, touched,
  links, stack, found, visits, listed, results, stats, monitor, changes,
  ops, handles, timers, now,
  given, node, cap_dir, entry, reader, child, cap_phase,
  dirs, before, cmd, target, cached, assign, targetmap, new, phase, fails,
  local, local_files, last_checked, directories, bad, clock, run, archives,
  latest, stamps, freshness, count,
  web_dirs, web_contents, web_request, web_rs,
  path_dirs, path_request, path_rs,
  world, aliasfile, tmp, sh, told, luck,
  walker, wire, said, st

fileVars     == <<open, h, c, dl, rd, want, nested, stored>>
handleVars   == <<dir, by_path, by_entry, files, req, on, past>>
dirVars      == <<contents, version, op, left, touched>>
walkVars     == <<links, stack, found, visits, listed, results, stats, monitor, changes>>
ophandleVars == <<ops, handles, timers, now>>
capVars      == <<given, node, cap_dir, entry, reader, child, cap_phase>>
cpVars       == <<dirs, before, cmd, target, cached, assign, targetmap, new, phase, fails>>
backupVars   == <<local, local_files, last_checked, directories, bad, clock, run, archives,
                  latest, stamps, freshness, count>>
webVars      == <<web_dirs, web_contents, web_request, web_rs>>
pathVars     == <<path_dirs, path_request, path_rs>>
shellVars    == <<world, aliasfile, tmp, sh, told, luck>>
streamVars   == <<walker, wire, said, st>>

-----------------------------------------------------------------------------
(* SFTP: a file of two or three bytes is read, written inside, before and  *)
(* after what has been downloaded, truncated, appended to, and committed;  *)
(* the download, the upload, the disk or the lookup of the file may fail.  *)
OpenAs(flags, size, faults, writes, reads, resizes) ==
  [flags |-> flags, size |-> size, short |-> FALSE, faults |-> faults,
   writes |-> writes, reads |-> reads, resizes |-> resizes]
NoSize == -1
FileOpens ==
  {OpenAs({"READ", "WRITE"}, 3, {}, 1, 1, 0),
   OpenAs({"READ", "WRITE"}, 2, {"download"}, 1, 1, 1),
   OpenAs({"WRITE"}, 2, {"upload"}, 1, 0, 1),
   OpenAs({"WRITE", "APPEND"}, 2, {"download"}, 2, 0, 0),
   OpenAs({"READ", "WRITE", "CREAT", "EXCL"}, NoSize, {"disk"}, 1, 1, 0),
   OpenAs({"READ", "WRITE", "CREAT", "TRUNC"}, 3, {"upload"}, 1, 1, 0),
   OpenAs({"READ"}, 2, {"version", "download"}, 0, 2, 0),
   [OpenAs({"READ"}, 2, {"download"}, 0, 2, 0) EXCEPT !.short = TRUE]}

File == INSTANCE SftpFile WITH Opens <- FileOpens, MaxSize <- 3, MaxQueue <- 2, Chunks <- {1, 2}

(* Three requests of one client on two names, of which one exists.         *)
Req(what, name, to, overwrite, flags) ==
  [op |-> what, name |-> name, to |-> to, overwrite |-> overwrite, flags |-> flags,
   pc |-> "new", file |-> 0, node |-> 0, todo |-> <<>>, found |-> FALSE, hit |-> {}]
HandleRequests ==
  {Req("open", "x", "x", FALSE, {"READ"}), Req("open", "x", "x", FALSE, {"WRITE"}),
   Req("open", "y", "y", FALSE, {"WRITE", "CREAT", "EXCL"}),
   Req("remove", "x", "x", FALSE, {}), Req("getAttrs", "y", "y", FALSE, {}),
   Req("rename", "x", "y", FALSE, {}), Req("rename", "x", "y", TRUE, {})}

-----------------------------------------------------------------------------
(* Two clients, each with one request on two directories of two names.  An *)
(* entry made by an old release has its creation time in ctime.            *)
NoLink == [child |-> "", rw |-> FALSE, nowrite |-> FALSE, ctime |-> 0, crtime |-> 0, motime |-> 0]
Before(d, n) ==
  CASE d = "P" /\ n = "x" -> [NoLink EXCEPT !.child = "f", !.rw = TRUE, !.ctime = 1]
    [] d = "Q" /\ n = "y" -> [NoLink EXCEPT !.child = "dir", !.rw = TRUE, !.crtime = 1, !.motime = 1]
    [] OTHER -> NoLink
Add(d, n, k, overwrite, meta) ==
  [kind |-> "add", dir |-> d, name |-> n, child |-> k, rw |-> TRUE, ctime |-> 0,
   overwrite |-> overwrite, meta |-> meta]
Del(d, n, must, be) == [kind |-> "delete", dir |-> d, name |-> n, must_exist |-> must, must_be |-> be]
Move(d, n, e, m, overwrite) ==
  [kind |-> "move", dir |-> d, name |-> n, to_dir |-> e, to_name |-> m, overwrite |-> overwrite]
DirRequests ==
  {Add("P", "x", "g", "yes", "none"), Add("P", "y", "g", "no", "no-write"),
   Del("P", "x", TRUE, "file"), Del("Q", "y", FALSE, "file"),
   [kind |-> "set_metadata_for", dir |-> "P", name |-> "x", meta |-> "no-write"],
   Move("P", "x", "Q", "y", "only files"), Move("P", "x", "Q", "x", "yes"),
   Move("Q", "y", "P", "y", "yes"), Move("P", "x", "P", "x", "yes"), Move("P", "x", "P", "y", "no")}

Dirnodes == INSTANCE Directory WITH
  Dirs <- {"P", "Q"}, Names <- {"x", "y"}, Folders <- {"dir"}, Clients <- {1, 2},
  Contents0 <- [d \in {"P", "Q"} |-> [n \in {"x", "y"} |-> Before(d, n)]],
  Requests <- DirRequests, MaxRetries <- 3, MaxSurprises <- 1

(* A deep check of a directory with a cycle, nodes linked twice, literal   *)
(* and unknown ones; a directory is changed during the walk.               *)
(* One operation handle, days instead of seconds.  Commands that name up   *)
(* to two locations.                                                       *)
Walk == INSTANCE DeepOperations WITH
  Root <- "r", Folders <- {"r", "s"}, Files <- {"f", "g"}, Literals <- {"l"}, Unknowns <- {"u"},
  Listings <- [d \in {"r", "s"} |->
                 IF d = "r" THEN {<<"s", "f", "l">>, <<"f", "l", "f", "u">>, <<"s", "r", "l", "l">>}
                 ELSE {<<"r", "f">>, <<"l", "g", "s">>}],
  Repair <- TRUE, MaxChanges <- 1,
  Handles <- {"a"}, Retains <- {1}, UNCOLLECTED_HANDLE_LIFETIME <- 2, COLLECTED_HANDLE_LIFETIME <- 1,
  Reuse <- FALSE, MaxOps <- 1, MaxDay <- 6, MaxNamed <- 2, Reached <- {"r", "f", "l", "u"}

Cap == INSTANCE Caps WITH dir <- cap_dir, phase <- cap_phase

-----------------------------------------------------------------------------
(* tahoe cp: one or two sources into a directory T that has files, a       *)
(* mutable file or a directory in the way.                                 *)
CpEntry(type, id, mutable) == [type |-> type, id |-> id, mutable |-> mutable]
CpNone == CpEntry("none", "", FALSE)
CpFile(id) == CpEntry("file", id, FALSE)
CpDir(id) == CpEntry("dir", id, TRUE)
Source(type, id, name) == [type |-> type, id |-> id, name |-> name]
Listing(x, y) == [n \in {"x", "y"} |-> IF n = "x" THEN x ELSE y]
CpTrees ==
  {[d \in {"S", "S2", "T", "D", "n1", "n2", "n3"} |->
      CASE d = "S" -> Listing(sx, sy)
        [] d = "S2" -> Listing(CpFile("f2"), CpNone)
        [] d = "T" -> Listing(tx, ty)
        [] d = "D" -> Listing(dx, CpNone)
        [] OTHER -> Listing(CpNone, CpNone)] :
     sx \in {CpNone, CpFile("f1")}, sy \in {CpFile("f3"), CpDir("S2")},
     tx \in {CpNone, CpFile("old"), CpEntry("file", "old", TRUE), CpDir("D"), CpEntry("dir", "D", FALSE)},
     ty \in {CpNone, CpEntry("file", "old", TRUE), CpDir("D"), CpDir("S2")}, dx \in {CpFile("f1"), CpNone}}
CpCommands ==
  {[sources |-> s, dir |-> "T", name |-> n, recursive |-> r] :
     s \in {<<Source("dir", "S", "")>>, <<Source("dir", "S", "y")>>, <<Source("file", "f1", "")>>,
            <<Source("file", "f2", "x"), Source("dir", "S", "")>>,
            <<Source("file", "f1", "x"), Source("file", "f2", "y")>>,
            <<Source("file", "f1", ""), Source("file", "f2", "y")>>},
     n \in {"", "x"}, r \in BOOLEAN}

(* The short commands, two after another: below the directory of alias a   *)
(* there is a file, a mutable file or a directory.                         *)
CliLine(o, from, to, what) ==
  [op |-> o, from |-> from, to |-> to, new |-> what, key |-> FALSE, mutable |-> FALSE]
CliTree(x, y, sx) ==
  [d \in {"R", "S", "N1", "N2", "N3"} |->
     CASE d = "R" -> [x |-> x, y |-> y] [] d = "S" -> [x |-> sx, y |-> ""] [] OTHER -> [x |-> "", y |-> ""]]
CliCommands ==
  {CliLine(o, f, t, "") : o \in {"mv", "ln"}, f \in {<<"x">>, <<"y">>, <<"y", "/", "x">>},
     t \in {<<"y">>, <<"y", "/">>, <<"y", "/", "x">>, <<"b", ":", "x">>, <<"R", ":./", "x">>, <<"a", ":">>}}
  \cup {CliLine("put", <<>>, t, "n") :
          t \in {<<>>, <<"m">>, <<"x">>, <<"y", "/", "x">>, <<"a", ":", "/", "x">>, <<"x", "/", "y", ":", "x">>}}
  \cup {[CliLine("put", <<>>, <<"x">>, "n") EXCEPT !.key = TRUE]}
  \cup {CliLine(o, f, <<>>, "") : o \in {"get", "unlink", "mkdir", "ls"}, f \in {<<"y", "/", "x">>, <<"b", ":", "y">>, <<"R">>}}
  \cup {CliLine("mkdir", <<>>, <<>>, ""), CliLine("list-aliases", <<>>, <<>>, "")}
  \cup {CliLine("add-alias", <<cap>>, <<>>, n) : cap \in {"S", "f"}, n \in {"b", ":"}}
  \cup {CliLine("create-alias", <<>>, <<>>, n) : n \in {"b", "tahoe"}}

Command == INSTANCE CommandLine WITH
  Names <- {"x", "y"}, Unmade <- {"n1", "n2", "n3"}, Trees <- CpTrees, Commands <- CpCommands, MaxFails <- 1,
  Roots <- {"R", "S"}, Spare <- {"N1", "N2", "N3"}, Files0 <- {"f", "g", "m"}, Odd <- {"y"}, RootCap <- "",
  CliTrees <- {CliTree(x, y, "f") : x \in {"", "f", "m"}, y \in {"", "g", "S"}} \cup {CliTree("f", "S", "")},
  AliasFiles <- {[lines |-> <<>>, ended |-> TRUE],
                 [lines |-> <<<<"a", "S">>, <<"tahoe", "R">>, <<"a", "R">>>>, ended |-> FALSE]},
  CliLines <- CliCommands, MaxCommands <- 2, MaxFailures <- 1

(* tahoe backup: two runs over a directory of one file, edited once.       *)
Tar == INSTANCE Backup WITH
  Files <- {"f"}, Parent <- [f |-> "r"], Root <- "r", FileSizes <- {1, 2}, NO_CHECK_BEFORE <- 1,
  ALWAYS_CHECK_AFTER <- 3, MaxClock <- 4, MaxEdits <- 1, MaxRuns <- 2, MaxLost <- 1

-----------------------------------------------------------------------------
(* The web API: two requests at once on an empty root, or on one with a    *)
(* directory and files of both kinds; every form of Range header for a     *)
(* file of three bytes.                                                    *)
WebNone == [kind |-> "none", id |-> 0]
WebChild(type, id) == [kind |-> type, id |-> id]
WebDir(a, x) == [n \in {"a", "x", "y"} |-> IF n = "a" THEN a ELSE IF n = "x" THEN x ELSE WebNone]
WebTrees ==
  {<<WebDir(WebNone, WebNone)>>,
   <<WebDir(WebChild("dir", 2), WebChild("chk", 0)), WebDir(WebNone, WebChild("ssk", 0))>>}
Ask(what, path, replace, name) ==
  [op |-> what, path |-> path, replace |-> replace, name |-> name, to |-> "a"]
Replace == {"true", "false", "only-files"}
WebRequests ==
  {Ask(m, p, r, "") : m \in {"PUT", "PUT uri"}, p \in {<<"x">>, <<"a">>, <<"a", "x">>, <<"x", "x">>}, r \in Replace}
  \cup {Ask("PUT", <<"a", "y">>, "true", "")}
  \cup {Ask(m, p, "true", "") : m \in {"PUT mkdir", "POST mkdir", "DELETE", "GET"}, p \in {<<"x">>, <<"a", "x">>}}
  \cup {Ask(m, p, r, "x") : m \in {"POST mkdir", "POST upload", "POST uri", "POST rename"},
                            p \in {<<>>, <<"a">>, <<"x">>}, r \in Replace}
  \cup {Ask("POST unlink", p, "true", "x") : p \in {<<>>, <<"a">>}}
  \cup {Ask("POST mkdir-with-children", <<>>, "true", "x"), Ask("POST set_children", <<>>, "only-files", "a")}
RangeHeaders == [first : -1 .. 4, last : -1 .. 5] \ {[first |-> -1, last |-> -1]}

Web == INSTANCE WebPaths WITH
  Names <- {"a", "x", "y"}, Users <- {1, 2}, Trees <- WebTrees, Requests <- WebRequests, FileSize <- 3,
  Headers <- RangeHeaders, dirs <- web_dirs, contents <- web_contents, request <- web_request, rs <- web_rs

(* SFTP paths: spelled with empty names, dots and caps, through writeable  *)
(* and read-only directories, for two requests at once.                    *)
PathNode(type, id, ro) == [kind |-> type, id |-> id, ro |-> ro]
PathLink(type, id, ro) == [node |-> PathNode(type, id, ro), nw |-> FALSE]
PathDir(entries) ==
  [n \in {"a", "b", ""} |-> IF n \in DOMAIN entries THEN entries[n] ELSE PathLink("none", 0, FALSE)]
PathTrees ==
  {<<PathDir(<<>>)>>,
   <<PathDir([a |-> PathLink("dir", 2, FALSE), b |-> PathLink("chk", 0, TRUE)]),
     PathDir([b |-> PathLink("ssk", 0, FALSE)])>>,
   <<PathDir([a |-> PathLink("dir", 2, TRUE)]),
     PathDir([a |-> PathLink("dir", 3, FALSE), b |-> PathLink("unknown", 0, TRUE)]), PathDir(<<>>)>>}
Spellings ==
  {<<"a">>, <<"", "a", "b", "">>, <<"..", "a", ".", "b">>, <<"a", "..", "b", "..", "..", "a", "a">>,
   <<"uri", "R", "a", "b">>, <<"uri", "W", "a", "b">>}
Sftp(what, p, to, nowrite) == [op |-> what, path |-> p, to |-> to, nowrite |-> nowrite]
PathAsked ==
  {Sftp(m, p, <<>>, FALSE) : m \in {"mkdir", "opendir", "setstat"}, p \in Spellings}
  \cup {Sftp("setstat", p, <<>>, TRUE) : p \in Spellings}
  \cup {Sftp("posix-rename", p, t, FALSE) : p \in {<<"a">>, <<"a", "b">>, <<"uri", "R", "a">>},
                                            t \in {<<"b">>, <<"a", "b">>, <<>>}}
  \cup {Sftp("mkdir", <<"a">>, <<>>, TRUE), Sftp("setstat", <<"a">>, <<"size">>, FALSE),
        Sftp("readlink", <<"a">>, <<>>, FALSE), Sftp("posix-rename", <<"a">>, <<"b">>, TRUE),
        Sftp("mkdir", <<"uri">>, <<>>, FALSE), Sftp("opendir", <<"?", "..">>, <<>>, FALSE),
        Sftp("setstat", <<".">>, <<>>, FALSE), Sftp("opendir", <<"uri", "X">>, <<>>, FALSE),
        Sftp("mkdir", <<"a", "", "b">>, <<>>, FALSE), Sftp("mkdir", <<"uri", "F", "a">>, <<>>, FALSE),
        Sftp("setstat", <<"uri", "F", "a">>, <<>>, FALSE)}

Registry == INSTANCE SftpRequests WITH
  Names <- {"x", "y"}, Exists <- {"x"}, Requests <- HandleRequests, MaxRequests <- 3,
  PathNames <- {"a", "b", ""}, Trees <- PathTrees,
  Caps <- [W |-> PathNode("dir", 1, FALSE), R |-> PathNode("dir", 1, TRUE), F |-> PathNode("ssk", 0, FALSE)],
  PathRequests <- PathAsked, Users <- {1, 2}, Opened <- {<<1, "b">>},
  dirs <- path_dirs, request <- path_request, rs <- path_rs

-----------------------------------------------------------------------------
MCInit ==
  /\ part \in {"file", "handles", "directory", "walk", "ophandles", "caps", "cp", "backup", "web", "paths",
             "cli", "reports"}
  /\ IF part = "file" THEN File!FileInit
     ELSE /\ open = 0 /\ h = 0 /\ c = 0 /\ dl = 0 /\ rd = 0 /\ want = 0 /\ nested = 0 /\ stored = 0
  /\ IF part = "handles" THEN Registry!HandlesInit
     ELSE /\ dir = 0 /\ by_path = 0 /\ by_entry = 0 /\ files = 0 /\ req = 0 /\ on = 0 /\ past = 0
  /\ IF part = "directory" THEN Dirnodes!DirInit
     ELSE /\ contents = 0 /\ version = 0 /\ op = 0 /\ left = 0 /\ touched = 0
  /\ IF part = "walk" THEN Walk!WalkInit
     ELSE /\ links = 0 /\ stack = 0 /\ found = 0 /\ visits = 0 /\ listed = 0
          /\ results = 0 /\ stats = 0 /\ monitor = 0 /\ changes = 0
  /\ IF part = "ophandles" THEN Walk!OphandleInit
     ELSE /\ ops = 0 /\ handles = 0 /\ timers = 0 /\ now = 0
  /\ IF part = "caps" THEN Cap!CapInit
     ELSE /\ given = 0 /\ node = 0 /\ cap_dir = 0 /\ entry = 0 /\ reader = 0 /\ child = 0 /\ cap_phase = 0
  /\ IF part = "cp" THEN Command!CpInit
     ELSE /\ dirs = 0 /\ before = 0 /\ cmd = 0 /\ target = 0 /\ cached = 0 /\ assign = 0
          /\ targetmap = 0 /\ new = 0 /\ phase = 0 /\ fails = 0
  /\ IF part = "backup" THEN Tar!BackupInit
     ELSE /\ local = 0 /\ local_files = 0 /\ last_checked = 0 /\ directories = 0 /\ bad = 0 /\ clock = 0
          /\ run = 0 /\ archives = 0 /\ latest = 0 /\ stamps = 0 /\ freshness = 0 /\ count = 0
  /\ IF part = "web" THEN Web!WebInit
     ELSE /\ web_dirs = 0 /\ web_contents = 0 /\ web_request = 0 /\ web_rs = 0
  /\ IF part = "paths" THEN Registry!PathsInit ELSE path_dirs = 0 /\ path_request = 0 /\ path_rs = 0
  /\ IF part = "cli" THEN Command!ShellInit
     ELSE world = 0 /\ aliasfile = 0 /\ tmp = 0 /\ sh = 0 /\ told = 0 /\ luck = 0
  /\ IF part = "reports" THEN Walk!StreamInit ELSE walker = 0 /\ wire = 0 /\ said = 0 /\ st = 0

(* The other components stay as they are.                                  *)
Only(p) ==
  /\ part = p /\ UNCHANGED part
  /\ IF p = "file" THEN TRUE ELSE UNCHANGED fileVars
  /\ IF p = "handles" THEN TRUE ELSE UNCHANGED handleVars
  /\ IF p = "directory" THEN TRUE ELSE UNCHANGED dirVars
  /\ IF p = "walk" THEN TRUE ELSE UNCHANGED walkVars
  /\ IF p = "ophandles" THEN TRUE ELSE UNCHANGED ophandleVars
  /\ IF p = "caps" THEN TRUE ELSE UNCHANGED capVars
  /\ IF p = "cp" THEN TRUE ELSE UNCHANGED cpVars
  /\ IF p = "backup" THEN TRUE ELSE UNCHANGED backupVars
  /\ IF p = "web" THEN TRUE ELSE UNCHANGED webVars
  /\ IF p = "paths" THEN TRUE ELSE UNCHANGED pathVars
  /\ IF p = "cli" THEN TRUE ELSE UNCHANGED shellVars
  /\ IF p = "reports" THEN TRUE ELSE UNCHANGED streamVars

MCNext ==
  \/ Only("file") /\ File!FileNext
  \/ Only("handles") /\ Registry!HandlesNext
  \/ Only("directory") /\ Dirnodes!DirNext
  \/ Only("walk") /\ Walk!WalkNext
  \/ Only("ophandles") /\ Walk!OphandleNext
  \/ Only("caps") /\ Cap!CapNext
  \/ Only("cp") /\ Command!CpNext
  \/ Only("backup") /\ Tar!BackupNext
  \/ Only("web") /\ Web!WebNext
  \/ Only("paths") /\ Registry!PathsNext
  \/ Only("cli") /\ Command!ShellNext
  \/ Only("reports") /\ Walk!StreamNext

mcVars == <<part, fileVars, handleVars, dirVars, walkVars,
            ophandleVars, capVars, cpVars, backupVars, webVars, pathVars, shellVars, streamVars>>

MCSpec == MCInit /\ [][MCNext]_mcVars

-----------------------------------------------------------------------------
(* An SFTP handle shows the client one file, however its requests and the  *)
(* download interleave: what close commits is what was written over what   *)
(* was there (CommitsTheContents), what is read is what the file holds     *)
(* then (ReadsTheContents), and no read waits for ever (NoReadForgotten);  *)
(* GeneralSFTPFile and OverwriteableFileConsumer.                          *)
HandleIsTheFile ==
  part = "file" => File!CommitsTheContents /\ File!ReadsTheContents /\ File!NoReadForgotten

(* What the registry of open SFTP files is for.  No file is committed at a *)
(* name after a remove of it, or a rename away from it, has completed      *)
(* (NotUndone of SftpRequests: _abandon_any_heisenfiles,                   *)
(* _rename_heisenfiles), and openFile is not answered while the commit of  *)
(* a handle of that name closed before is under way (ReopenWaits:          *)
(* _sync_heisenfiles).                                                     *)
RemovalNotUndone ==
  [][part = "handles" => Registry!NotUndone /\ Registry!ReopenWaits]_mcVars

(* A change of a directory is the one that was asked for.  Directory: a    *)
(* modifier that is applied again after a collision changes the one link   *)
(* it is about (OthersKept), Adder's overwrite rule holds for the contents *)
(* that the write replaces, not only for those of the first attempt        *)
(* (NotReplaced), and a link that is changed keeps its metadata (LinkKept: *)
(* update_metadata).  WebPaths: a request replaces an entry only as its    *)
(* replace= argument allows, whatever another one made of it meanwhile     *)
(* (ReplacesOnlyIfAsked).                                                  *)
LinksKept ==
  [][/\ part = "directory" => Dirnodes!OthersKept /\ Dirnodes!NotReplaced /\ Dirnodes!LinkKept
     /\ part = "web" => Web!ReplacesOnlyIfAsked]_mcVars

(* Over several directories nothing falls between.  move_child_to leaves   *)
(* the child linked under the old or the new name, whoever else writes and *)
(* whatever fails (MovedNotLost of Directory).  A deep traversal visits    *)
(* each object once (OnceOnly), misses none that a directory had when it   *)
(* was read (WalkComplete), and its counters are those of what it visited  *)
(* (CountersAgree); deep_traverse, DeepChecker.                            *)
TreeExact ==
  /\ part = "directory" => Dirnodes!MovedNotLost
  /\ part = "walk" => Walk!OnceOnly /\ Walk!WalkComplete /\ Walk!CountersAgree

(* A child that can be packed into a directory is unpacked as the same     *)
(* child (ComesOutAsItWentIn of Caps: _pack_normalized_children,           *)
(* _unpack_contents); and the read cap of a directory leads to no write    *)
(* cap, an immutable directory to nothing mutable (ReadOnlyIsTransitive:   *)
(* create_from_cap).                                                       *)
CapsKept == part = "caps" => Cap!ComesOutAsItWentIn /\ Cap!ReadOnlyIsTransitive

(* What a client of the web API or of SFTP is told is so.  An operation    *)
(* handle lives as long as webapi.rst promises (HandleKept of              *)
(* DeepOperations), and not for ever (HandleExpires); a GET with a Range    *)
(* header returns the bytes that its Content-Range names (RangeExact of    *)
(* WebPaths: FileDownloader); spellings of one SFTP path lead to one       *)
(* place, no change goes through a read-only directory, and an answer of   *)
(* OK means that it was made (PathsLead of SftpRequests).                  *)
AnswersExact ==
  /\ part = "ophandles" => Walk!HandleKept /\ Walk!HandleExpires
  /\ part = "web" => Web!RangeExact
  /\ part = "paths" => Registry!PathsLead

(* Two files put at the same time at different paths below a directory     *)
(* that does not exist yet are both there afterwards, as webapi.rst says   *)
(* of a PUT (AvailableOnceDone of WebPaths); it is not so.                 *)
AvailableOnceDone == part = "web" => Web!AvailableOnceDone

(* What the command line says it did is done.  tahoe cp: what it says it   *)
(* copied is there (AllCopied), and whatever becomes of the command        *)
(* nothing that was there is lost (NothingLost).  tahoe backup: every      *)
(* archive has the files as they were while it was made                    *)
(* (ArchiveIsWhatWasThere), and each upload that was used again has been   *)
(* seen healthy lately enough (SeenLately: check_file, should_check).  The *)
(* short commands, when any request fails and any of them is killed: mv    *)
(* never drops what it moves (MoveKeeps), none touches a link that it is   *)
(* not about (OnlyItsLinks), an answer of 0 is true (AnswerTrue) and an    *)
(* alias that was added stays (AliasesKept).  deep-check and manifest: the *)
(* summary is that of the nodes checked, and only of a whole walk          *)
(* (SummaryTrue), which is what 0 means (ExitTrue).                        *)
CommandsExact ==
  /\ part = "cli" => Command!MoveKeeps /\ Command!OnlyItsLinks /\ Command!AnswerTrue /\ Command!AliasesKept
  /\ part = "reports" => Walk!SummaryTrue /\ Walk!ExitTrue
  /\ part = "cp" => Command!AllCopied /\ Command!NothingLost
  /\ part = "backup" => Tar!ArchiveIsWhatWasThere /\ Tar!SeenLately
=============================================================================
