----------------------------- MODULE UploadHelper -----------------------------
(***************************************************************************)
(* The upload helper (immutable/offloaded.py) and its clients, the         *)
(* AssistedUploaders of immutable/upload.py, for one storage index.        *)
(* Clients that want to store the same file ask the helper at the same     *)
(* time; the first that answers feeds the ciphertext, chunk after chunk,   *)
(* and when it fails the next one goes on.  The ciphertext survives a      *)
(* restart of the helper, first in CHK_incoming, then in CHK_encoding.     *)
(*                                                                         *)
(* uh is the CHKUploadHelper in _active_uploads, with its                  *)
(* CHKCiphertextFetcher and LocalCiphertextReader; disk holds the two      *)
(* files as sequences of chunk numbers; cl[x] is a client's uploader; grid *)
(* what the storage servers hold.                                          *)
(***************************************************************************)
EXTENDS Integers, Sequences

CONSTANTS Client, Size,                  \* Size: the ciphertext, in chunks
          MaxTries, MaxBreaks, MaxCrashes, \* tries of a client, failing calls, restarts
          NoFile

ASSUME SizeAssumption == Size \in Nat
ASSUME NoFileAssumption == NoFile \notin Seq(Nat)

VARIABLES uh, disk, cl, grid, last, spent
helperVars == <<uh, disk, cl, grid, last, spent>>

Phase == {"none", "idle", "size", "data", "fetched", "params", "encoding", "closing"}
NoUpload == [phase |-> "none", readers |-> <<>>, hashes |-> <<>>, have |-> 0]
Busy == uh.phase # "none"

Whole == [i \in 1..Size |-> i]

\* A RemoteEncryptedUploadable is the try of a client that made it.
Reader(x) == <<x, cl[x].try>>
Alive(r)  == cl[r[1]].try = r[2] /\ cl[r[1]].st = "waiting"

HelperInit ==
  /\ uh = NoUpload /\ last = 0
  /\ disk = [incoming |-> NoFile, encoding |-> NoFile]
  /\ cl = [x \in Client |-> [st |-> "idle", try |-> 0, uh |-> 0, offset |-> 0]]
  /\ grid = "nothing"
  /\ spent = [faults |-> 0, crashes |-> 0]

-----------------------------------------------------------------------------
(* Asking the helper *)

\* AssistedUploader.start, and remote_upload_chk.  uh numbers the helper
\* object that the client is given a reference to.
upload_chk(x) ==
  /\ cl[x].st \in {"idle", "failed"} /\ cl[x].try < MaxTries
  /\ cl' = [cl EXCEPT ![x] = [st |-> IF Busy THEN "told" ELSE "checking", try |-> @.try + 1,
                              uh |-> IF Busy THEN last ELSE 0, offset |-> 0]]
  /\ UNCHANGED <<uh, disk, grid, last, spent>>

\* Plausible slip: the active uploads are not looked at again after the check.
did_chk_check_hasty(x, found) ==
  /\ cl[x].st = "checking" /\ (found => grid = "all shares")
  /\ IF found THEN cl' = [cl EXCEPT ![x].st = "done"] /\ UNCHANGED <<uh, last>>
     ELSE /\ uh' = [NoUpload EXCEPT !.phase = "idle"] /\ last' = last + 1
          /\ cl' = [cl EXCEPT ![x].st = "told", ![x].uh = last + 1]
  /\ UNCHANGED <<disk, grid, spent>>

\* _did_chk_check: the check finds the file only if it finds all its shares.
did_chk_check(x, found) ==
  /\ cl[x].st = "checking" /\ (found => grid = "all shares")
  /\ IF found THEN cl' = [cl EXCEPT ![x].st = "done"] /\ UNCHANGED <<uh, last>>
     ELSE /\ uh' = IF Busy THEN uh ELSE [NoUpload EXCEPT !.phase = "idle"]
          /\ last' = IF Busy THEN last ELSE last + 1
          /\ cl' = [cl EXCEPT ![x].st = "told", ![x].uh = last']
  /\ UNCHANGED <<disk, grid, spent>>

\* remote_upload.  An upload that is over has no reader to add the client to.
upload(x) ==
  /\ cl[x].st = "told"
  /\ IF Busy /\ cl[x].uh = last
       THEN /\ uh' = [uh EXCEPT !.readers = Append(@, Reader(x)), !.hashes = Append(@, Reader(x))]
            /\ cl' = [cl EXCEPT ![x].st = "waiting"]
       ELSE cl' = [cl EXCEPT ![x].st = "failed"] /\ UNCHANGED uh
  /\ UNCHANGED <<disk, grid, last, spent>>

-----------------------------------------------------------------------------
(* The end of an upload: everybody who waits for it is told. *)

Tell(result) ==
  cl' = [x \in Client |-> IF cl[x].st = "waiting" /\ cl[x].uh = last
                            THEN [cl[x] EXCEPT !.st = result] ELSE cl[x]]

\* Plausible slip: a failed upload cleans up after itself.
upload_failed_clean == Tell("failed") /\ uh' = NoUpload /\ disk' = [disk EXCEPT !.encoding = NoFile]

\* CHKUploadHelper._failed: whatever is on disk stays there.
upload_failed == Tell("failed") /\ uh' = NoUpload /\ UNCHANGED disk

\* Plausible slip: a reader that has failed is asked again.
still_first(readers) == readers

\* AskUntilSuccessMixin.call drops the reader whose call has failed.
without_first(readers) == Tail(readers)

\* A call to the first reader fails: always when its client is gone, and a
\* bounded number of times although it is there.
Broken(r) ==
  /\ spent.faults < MaxBreaks \/ ~ Alive(r)
  /\ spent' = IF Alive(r) THEN [spent EXCEPT !.faults = @ + 1] ELSE spent

-----------------------------------------------------------------------------
(* CHKCiphertextFetcher *)

\* _start, an eventual-send after the first add_reader.
fetcher_start ==
  /\ uh.phase = "idle" /\ uh.readers # <<>>
  /\ uh' = IF disk.encoding = NoFile THEN [uh EXCEPT !.phase = "size"]
           ELSE [uh EXCEPT !.phase = "fetched", !.readers = <<>>]
  /\ UNCHANGED <<disk, cl, grid, last, spent>>

\* Plausible slip: the partial ciphertext is not measured, but appended to.
got_size_afresh ==
  /\ uh.phase = "size" /\ Alive(Head(uh.readers))
  /\ uh' = [uh EXCEPT !.phase = "data", !.have = 0]
  /\ disk' = [disk EXCEPT !.incoming = IF @ = NoFile THEN <<>> ELSE @]
  /\ UNCHANGED <<cl, grid, last, spent>>

\* _got_size and _start_reading.
got_size ==
  /\ uh.phase = "size" /\ Alive(Head(uh.readers))
  /\ uh' = [uh EXCEPT !.phase = "data",
                      !.have  = IF disk.incoming = NoFile THEN 0 ELSE Len(disk.incoming)]
  /\ disk' = [disk EXCEPT !.incoming = IF @ = NoFile THEN <<>> ELSE @]
  /\ UNCHANGED <<cl, grid, last, spent>>

\* _fetch, and the client's remote_read_encrypted, which can skip ahead but not
\* go back.
got_data ==
  /\ uh.phase = "data" /\ uh.have < Size
  /\ LET x == Head(uh.readers)[1]
     IN  /\ Alive(Head(uh.readers)) /\ cl[x].offset <= uh.have
         /\ cl' = [cl EXCEPT ![x].offset = uh.have + 1]
  /\ disk' = [disk EXCEPT !.incoming = Append(@, uh.have + 1)]
  /\ uh' = [uh EXCEPT !.have = @ + 1]
  /\ UNCHANGED <<grid, last, spent>>

\* A call of the fetcher fails.  The client may have read on for it.  When the
\* last reader is gone, the upload has failed.
fetch_failed(served) ==
  /\ uh.phase = "size" \/ (uh.phase = "data" /\ uh.have < Size)
  /\ LET r    == Head(uh.readers)
         left == without_first(uh.readers)
         read == [cl EXCEPT ![r[1]].offset = uh.have + 1]
     IN  /\ Broken(r)
         /\ served => uh.phase = "data" /\ Alive(r) /\ cl[r[1]].offset <= uh.have
         /\ IF left = <<>>
              THEN upload_failed
              ELSE /\ uh' = [uh EXCEPT !.readers = left]
                   /\ cl' = IF served THEN read ELSE cl
                   /\ UNCHANGED disk
  /\ UNCHANGED <<grid, last>>

\* _done and _done2.
fetch_done ==
  /\ uh.phase = "data" /\ uh.have >= Size
  /\ disk' = [incoming |-> NoFile, encoding |-> disk.incoming]
  /\ uh' = [uh EXCEPT !.phase = "fetched", !.readers = <<>>]
  /\ UNCHANGED <<cl, grid, last, spent>>

-----------------------------------------------------------------------------
(* CHKUploadHelper with its LocalCiphertextReader *)

\* The reader is started, and start_encrypted asks for the parameters.
reader_start ==
  /\ uh.phase = "fetched"
  /\ uh' = [uh EXCEPT !.phase = "params"]
  /\ UNCHANGED <<disk, cl, grid, last, spent>>

got_parameters ==
  /\ uh.phase = "params" /\ Alive(Head(uh.hashes))
  /\ uh' = [uh EXCEPT !.phase = "encoding"]
  /\ UNCHANGED <<disk, cl, grid, last, spent>>

parameters_failed ==
  /\ uh.phase = "params" /\ uh.hashes # <<>> /\ Broken(Head(uh.hashes))
  /\ LET left == without_first(uh.hashes)
     IN  IF left = <<>> THEN upload_failed
                        ELSE uh' = [uh EXCEPT !.hashes = left] /\ UNCHANGED <<disk, cl>>
  /\ UNCHANGED <<grid, last>>

\* Encoder.finish_hashing tells the first reader to close, and goes on.
finish_hashing ==
  /\ uh.phase = "encoding"
  /\ uh' = [uh EXCEPT !.phase = "closing"]
  /\ UNCHANGED <<disk, cl, grid, last, spent>>

\* The call to close fails: the next reader is told, if there is one.
close_failed ==
  /\ uh.phase = "closing" /\ uh.hashes # <<>> /\ Broken(Head(uh.hashes))
  /\ uh' = [uh EXCEPT !.hashes = without_first(@)]
  /\ UNCHANGED <<disk, cl, grid, last>>

\* start_encrypted fails (ChkUpload models how).
encoding_failed ==
  /\ uh.phase \in {"encoding", "closing"} /\ spent.faults < MaxBreaks
  /\ spent' = [spent EXCEPT !.faults = @ + 1]
  /\ upload_failed
  /\ UNCHANGED <<grid, last>>

\* start_encrypted succeeds, with all shares or just enough, and _finished is
\* called: it tells a reader to close once more, and fails if there is none.
finished(all) ==
  /\ uh.phase = "closing"
  /\ grid' = IF all \/ grid = "all shares" THEN "all shares" ELSE "enough shares"
  /\ IF uh.hashes = <<>> THEN upload_failed
     ELSE Tell("done") /\ uh' = NoUpload /\ disk' = [disk EXCEPT !.encoding = NoFile]
  /\ UNCHANGED <<last, spent>>

-----------------------------------------------------------------------------
(* A client goes away. *)
Disconnect(x) ==
  /\ cl[x].st \in {"checking", "told", "waiting"} /\ spent.faults < MaxBreaks
  /\ spent' = [spent EXCEPT !.faults = @ + 1]
  /\ cl' = [cl EXCEPT ![x].st = "failed"]
  /\ UNCHANGED <<uh, disk, grid, last>>

\* The file as it is without the chunk that was not flushed yet.
unbuffered(s) == SubSeq(s, 1, Len(s) - 1)

\* The helper is killed and started again: Helper.__init__ finds what is on
\* disk.  The last chunk may not have left the file's buffer.
Crash(lost) ==
  /\ spent.crashes < MaxCrashes
  /\ spent' = [spent EXCEPT !.crashes = @ + 1]
  /\ lost => uh.phase = "data" /\ disk.incoming # <<>>
  /\ disk' = IF lost THEN [disk EXCEPT !.incoming = unbuffered(@)] ELSE disk
  /\ uh' = NoUpload
  /\ cl' = [x \in Client |-> IF cl[x].st \in {"checking", "told", "waiting"}
                               THEN [cl[x] EXCEPT !.st = "failed"] ELSE cl[x]]
  /\ UNCHANGED <<grid, last>>

\* Clients may have nothing to do but wait; that none waits for ever is Answered.
Asking(x) == cl[x].st \in {"checking", "told", "waiting"}
Quiet == (\A x \in Client : cl[x].st \notin {"checking", "told"}) /\ UNCHANGED helperVars

HelperNext ==
  \/ \E x \in Client : upload_chk(x) \/ upload(x) \/ Disconnect(x)
                       \/ \E found \in BOOLEAN : did_chk_check(x, found)
  \/ fetcher_start \/ got_size \/ got_data \/ fetch_done \/ reader_start \/ got_parameters
  \/ parameters_failed \/ finish_hashing \/ close_failed \/ encoding_failed
  \/ \E flag \in BOOLEAN : fetch_failed(flag) \/ finished(flag) \/ Crash(flag)
  \/ Quiet

\* Calls are answered or fail, and the helper and its clients go on.
HelperSpec == HelperInit /\ [][HelperNext]_helperVars /\ WF_helperVars(HelperNext)

-----------------------------------------------------------------------------
HelperTypeOK ==
  /\ uh.phase \in Phase /\ uh.have \in 0..Size
  /\ (uh.phase \in {"size", "data"} => uh.readers # <<>>)
  /\ (uh.phase \in {"params", "encoding"} => uh.hashes # <<>>)
  /\ \A x \in Client : cl[x].st \in {"idle", "checking", "told", "waiting", "done", "failed"}
                       /\ cl[x].uh \in 0..last /\ cl[x].offset \in 0..Size
  /\ grid \in {"nothing", "enough shares", "all shares"}

(* The ciphertext is put together in order and without gaps, from however  *)
(* many clients, resumed fetches and restarts: what is encoded              *)
(* (CHK_encoding) is the whole file, and CHK_incoming a prefix of it.       *)
CiphertextWhole ==
  /\ disk.incoming # NoFile =>
       Len(disk.incoming) <= Size /\ \A i \in 1..Len(disk.incoming) : disk.incoming[i] = i
  /\ disk.encoding # NoFile => disk.encoding = Whole

(* The helper never asks a client for ciphertext that the client has       *)
(* already passed: remote_read_encrypted of upload.py has "we don't support *)
(* seek backwards" and a precondition for it.                              *)
NoSeekBack ==
  uh.phase = "data" /\ uh.have < Size /\ Alive(Head(uh.readers))
    => cl[Head(uh.readers)[1]].offset <= uh.have

(* Ciphertext that the helper has on disk is given up only when the file   *)
(* is on the storage servers; a restart costs at most what was buffered.    *)
OnDisk(d) == IF d.encoding # NoFile THEN Size ELSE IF d.incoming # NoFile THEN Len(d.incoming) ELSE 0
CiphertextKept ==
  [][OnDisk(disk') >= OnDisk(disk) - (spent'.crashes - spent.crashes) \/ grid' # "nothing"]_helperVars

(* Every client that asks is answered, whoever feeds the ciphertext and    *)
(* whichever of several uploads for the storage index it has joined.       *)
Answered == \A x \in Client : Asking(x) ~> ~ Asking(x)

-----------------------------------------------------------------------------
(* Why CiphertextWhole and NoSeekBack hold: while a fetch is going on, have *)
(* is the length of the incoming file and no reader has passed it; a reader *)
(* is in the list at most once, and its client has not passed anything      *)
(* before it is added.                                                      *)
DiskType == [incoming : Seq(Nat) \cup {NoFile}, encoding : Seq(Nat) \cup {NoFile}]
UhType == [phase : Phase, readers : Seq(Client \X Nat), hashes : Seq(Client \X Nat), have : Nat]
ClientType == [Client -> [st : {"idle", "checking", "told", "waiting", "done", "failed"},
                          try : Nat, uh : Nat, offset : Nat]]

Fetching ==
  /\ disk \in DiskType /\ uh \in UhType /\ cl \in ClientType /\ last \in Nat
  /\ uh.phase = "data" => disk.incoming # NoFile /\ uh.have = Len(disk.incoming)
  /\ uh.phase \in {"size", "data"} => uh.readers # <<>>
  /\ uh.phase = "none" => uh.readers = <<>>

Passed(x, t) ==
  \/ t < cl[x].try
  \/ t = cl[x].try /\ cl[x].st \notin {"checking", "told"}

ReadersBehind ==
  /\ \A x \in Client : cl[x].st \in {"checking", "told"} => cl[x].offset = 0
  /\ \A i \in 1..Len(uh.readers) :
       /\ Passed(uh.readers[i][1], uh.readers[i][2])
       /\ \A j \in 1..Len(uh.readers) : uh.readers[i] = uh.readers[j] => i = j
       /\ Alive(uh.readers[i]) =>
            \/ cl[uh.readers[i][1]].offset = 0
            \/ uh.phase \notin {"idle", "size"} /\ cl[uh.readers[i][1]].offset <= uh.have

HelperIInv == Fetching /\ CiphertextWhole /\ ReadersBehind
=============================================================================
