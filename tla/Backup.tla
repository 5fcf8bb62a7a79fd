-------------------------------- MODULE Backup --------------------------------
(***************************************************************************)
(* tahoe backup (scripts/tahoe_backup.py) and its database                 *)
(* (scripts/backupdb.py): the targets are processed deepest first, a file  *)
(* whose size and times are those of the last upload is reused, a          *)
(* directory with the contents of an earlier one too, what was not seen    *)
(* for long is checked first, and the new root is attached under Archives  *)
(* and as Latest.  Meanwhile files are edited, caps go bad on the grid,    *)
(* time passes and the command is interrupted.                             *)
(*                                                                         *)
(* The cap of a file is its content; the cap of a directory, its entries.  *)
(* Edits are numbered, and that number is the content.                     *)
(***************************************************************************)
EXTENDS Naturals, Sequences, FiniteSets, SequencesExt

CONSTANTS Files,       \* local files
          Parent,      \* path -> its directory, for all but the root
          Root,
          FileSizes,   \* sizes a file may have
          NO_CHECK_BEFORE, ALWAYS_CHECK_AFTER,
          MaxClock, MaxEdits, MaxRuns, MaxLost

VARIABLES local,       \* file -> [content, size, mtime, readable]
          local_files, \* backupdb: file -> [size, mtime, cap], or NoRow
          last_checked,\* backupdb: cap -> when it was last uploaded or checked, 0 if never
          directories, \* backupdb: set of directory caps
          bad,         \* caps that are not healthy
          clock,
          run,         \* the backup under way: [todo, step, found, contents, seen]
          archives, latest,
          stamps,      \* ghost: <<file, size, mtime, content>> there ever was
          freshness,   \* ghost: age of the oldest knowledge a finished run relied on
          count        \* [edits, runs, lost]

backupVars == <<local, local_files, last_checked, directories, bad, clock, run, archives, latest,
                stamps, freshness, count>>

NoRow == [size |-> 0, mtime |-> 0, cap |-> <<"none">>]
Idle == [todo |-> <<>>, step |-> "idle", stat |-> NoRow, contents |-> {}, seen |-> {}, age |-> 0]

Paths == DOMAIN Parent \cup {Root}
Kids(d) == {p \in DOMAIN Parent : Parent[p] = d}

(* collect_backup_targets: children before their directory.                *)
RECURSIVE collect_backup_targets(_)
collect_backup_targets(root) ==
  IF root \in Files THEN <<root>>
  ELSE FlattenSeq([i \in 1..Cardinality(Kids(root)) |-> collect_backup_targets(SetToSeq(Kids(root))[i])])
       \o <<root>>

BackupInit ==
  /\ local = [f \in Files |-> [content |-> 0, size |-> 1, mtime |-> 1, readable |-> TRUE]]
  /\ local_files = [f \in Files |-> NoRow] /\ last_checked = {} /\ directories = {}
  /\ bad = {} /\ clock = 1 /\ run = Idle /\ archives = {} /\ latest = <<"none">>
  /\ stamps = {<<f, 1, 1, 0>> : f \in Files} /\ freshness = {}
  /\ count = [edits |-> 0, runs |-> 0, lost |-> 0]

LastChecked(cap) == LET when == {t[2] : t \in {u \in last_checked : u[1] = cap}}
                    IN IF when = {} THEN 0 ELSE CHOOSE t \in when : TRUE
Checked(cap) == {t \in last_checked : t[1] # cap} \cup {<<cap, clock>>}

-----------------------------------------------------------------------------
(* run: the database is opened and the targets are collected.              *)
Start ==
  /\ run.step = "idle" /\ count.runs < MaxRuns
  /\ run' = [Idle EXCEPT !.todo = collect_backup_targets(Root), !.step = "next",
                         !.seen = {<<f, local[f].content>> : f \in Files}]
  /\ count' = [count EXCEPT !.runs = @ + 1]
  /\ UNCHANGED <<local, local_files, last_checked, directories, bad, clock, archives, latest, stamps, freshness>>

Here == Head(run.todo)

(* created_file, reused_file, created_directory, reused_directory.         *)
Done(cap, age) ==
  [run EXCEPT !.todo = Tail(@), !.step = IF Tail(run.todo) = <<>> THEN "archive" ELSE "next",
              !.contents = @ \cup {<<Here, cap>>}, !.age = IF age > @ THEN age ELSE @]

Skipped == [run EXCEPT !.todo = Tail(@), !.step = "next"]

(* should_check: what a random number less than the probability can be.    *)
ShouldCheck(cap) ==
  LET age == clock - LastChecked(cap)
  IN CASE age <= NO_CHECK_BEFORE -> {FALSE}
       [] age >= ALWAYS_CHECK_AFTER -> {TRUE}
       [] OTHER -> BOOLEAN

(* The comparison in check_file.                                           *)
Unchanged(row, f) == row # NoRow /\ row.mtime = local[f].mtime /\ row.size = local[f].size

(* upload and check_backupdb_file up to the check: a file that cannot be   *)
(* read is skipped, a changed one is forgotten and has to be uploaded, one *)
(* seen lately is reused.                                                  *)
check_file ==
  /\ run.step = "next" /\ Here \in Files
  /\ IF ~local[Here].readable THEN run' = Skipped /\ local_files' = local_files
     ELSE LET row == local_files[Here]
              stat == [size |-> local[Here].size, mtime |-> local[Here].mtime, cap |-> row.cap]
          IN IF ~Unchanged(row, Here)
             THEN /\ local_files' = [local_files EXCEPT ![Here] = NoRow]
                  /\ run' = [run EXCEPT !.step = "upload", !.stat = stat]
             ELSE /\ local_files' = local_files
                  /\ \E must \in ShouldCheck(row.cap) :
                       run' = IF must THEN [run EXCEPT !.step = "check", !.stat = stat]
                              ELSE Done(row.cap, clock - LastChecked(row.cap))
  /\ UNCHANGED <<local, last_checked, directories, bad, clock, archives, latest, stamps, freshness, count>>

(* The POST t=check of check_backupdb_file and check_backupdb_directory;   *)
(* did_check_healthy.  It may also fail.                                   *)
check(cap) ==
  /\ run.step = "check"
  /\ \/ /\ cap \notin bad
        /\ last_checked' = Checked(cap) /\ run' = Done(cap, 0)
     \/ /\ last_checked' = last_checked /\ run' = [run EXCEPT !.step = "upload"]
  /\ UNCHANGED <<local, local_files, directories, bad, clock, archives, latest, stamps, freshness, count>>

(* did_upload_file, with what check_file's stat said.                      *)
did_upload_file(cap) ==
  /\ local_files' = [local_files EXCEPT ![Here] = [run.stat EXCEPT !.cap = cap]]
  /\ last_checked' = Checked(cap)

(* The PUT.                                                                *)
upload ==
  /\ run.step = "upload" /\ Here \in Files
  /\ IF ~local[Here].readable
     THEN run' = Skipped /\ UNCHANGED <<bad, local_files, last_checked>>
     ELSE LET cap == <<"file", Here, local[Here].content>>
          IN /\ bad' = bad \ {cap}
             /\ did_upload_file(cap) /\ run' = Done(cap, 0)
  /\ UNCHANGED <<local, directories, clock, archives, latest, stamps, freshness, count>>

(* consume_directory.                                                      *)
consume_directory(d) == <<"dir", {e \in run.contents : e[1] \in Kids(d)}>>

(* upload_directory: check_directory finds an earlier directory with the   *)
(* same names and caps.                                                    *)
check_directory ==
  /\ run.step = "next" /\ Here \notin Files
  /\ LET cap == consume_directory(Here)
     IN IF cap \notin directories THEN run' = [run EXCEPT !.step = "mkdir"]
        ELSE \E must \in ShouldCheck(cap) :
               run' = IF must THEN [run EXCEPT !.step = "check"] ELSE Done(cap, clock - LastChecked(cap))
  /\ UNCHANGED <<local, local_files, last_checked, directories, bad, clock, archives, latest, stamps, freshness, count>>

did_create_directory(cap) ==
  /\ directories' = directories \cup {cap}
  /\ last_checked' = Checked(cap)

(* mkdir.                                                                  *)
mkdir ==
  /\ run.step \in {"mkdir", "upload"} /\ Here \notin Files
  /\ LET cap == consume_directory(Here)
     IN bad' = bad \ {cap} /\ did_create_directory(cap) /\ run' = Done(cap, 0)
  /\ UNCHANGED <<local, local_files, clock, archives, latest, stamps, freshness, count>>

check_backupdb_file ==
  run.step = "check" /\ Here \in Files /\ check(local_files[Here].cap)

check_backupdb_directory ==
  run.step = "check" /\ Here \notin Files /\ check(consume_directory(Here))

RootCap == (CHOOSE e \in run.contents : e[1] = Root)[2]

(* put_child(archives_url, now, new_backup_dircap).                        *)
put_Archives ==
  /\ run.step = "archive" /\ run' = [run EXCEPT !.step = "latest"]
  /\ archives' = archives \cup {[cap |-> RootCap, contents |-> run.contents, seen |-> run.seen]}
  /\ freshness' = freshness \cup {run.age}
  /\ UNCHANGED <<local, local_files, last_checked, directories, bad, clock, latest, stamps, count>>

(* put_child(to_url, "Latest", new_backup_dircap).                         *)
put_Latest ==
  /\ run.step = "latest" /\ latest' = RootCap /\ run' = Idle
  /\ UNCHANGED <<local, local_files, last_checked, directories, bad, clock, archives, stamps, freshness, count>>

-----------------------------------------------------------------------------
(* The command is interrupted, or a request fails.                         *)
Interrupt ==
  /\ run.step # "idle" /\ run' = Idle
  /\ UNCHANGED <<local, local_files, last_checked, directories, bad, clock, archives, latest, stamps, freshness, count>>

Edit(f) ==
  /\ count.edits < MaxEdits
  /\ \E size \in FileSizes, readable \in BOOLEAN :
       /\ local' = [local EXCEPT ![f] = [content |-> count.edits + 1, size |-> size, mtime |-> clock,
                                         readable |-> readable]]
       /\ stamps' = stamps \cup {<<f, size, clock, count.edits + 1>>}
  /\ run' = IF run.step = "idle" THEN run ELSE [run EXCEPT !.seen = @ \cup {<<f, count.edits + 1>>}]
  /\ count' = [count EXCEPT !.edits = @ + 1]
  /\ UNCHANGED <<local_files, last_checked, directories, bad, clock, archives, latest, freshness>>

(* A cap loses shares; time passes.  A backup is taken to end within a     *)
(* tick.                                                                   *)
Lose ==
  /\ count.lost < MaxLost
  /\ \E t \in last_checked : bad' = bad \cup {t[1]}
  /\ count' = [count EXCEPT !.lost = @ + 1]
  /\ UNCHANGED <<local, local_files, last_checked, directories, clock, run, archives, latest, stamps, freshness>>

Tick ==
  /\ clock < MaxClock /\ clock' = clock + 1
  /\ UNCHANGED <<local, local_files, last_checked, directories, bad, run, archives, latest, stamps, freshness, count>>

BackupNext ==
  \/ Start \/ check_file \/ check_backupdb_file \/ check_backupdb_directory \/ upload \/ check_directory \/ mkdir
  \/ put_Archives \/ put_Latest \/ Interrupt \/ \E f \in Files : Edit(f)
  \/ Lose \/ Tick

BackupSpec == BackupInit /\ [][BackupNext]_backupVars

-----------------------------------------------------------------------------
(* In every archive a file has a content it really had while that backup   *)
(* ran, unless it was edited twice within a tick of the clock: the reuse   *)
(* of old uploads is otherwise invisible, whatever was edited meanwhile.   *)
ArchiveIsWhatWasThere ==
  \A a \in archives : \A e \in a.contents :
    e[1] \in Files =>
      \/ <<e[1], e[2][3]>> \in a.seen
      \/ \E s \in stamps, t \in stamps :
           /\ s[1] = e[1] /\ t[1] = e[1] /\ s[3] = t[3]
           /\ s[4] = e[2][3] /\ <<e[1], t[4]>> \in a.seen

(* What is in an archive was uploaded, or found healthy, less than         *)
(* ALWAYS_CHECK_AFTER before.                                              *)
SeenLately == \A age \in freshness : age < ALWAYS_CHECK_AFTER
=============================================================================
