------------------------- MODULE UploadHelperProofs -------------------------
(***************************************************************************)
(* The ciphertext a helper assembles is whole and is kept, and no client is*)
(* asked to go back, for every number of clients, file size, failures and  *)
(* restarts.                                                               *)
(***************************************************************************)
EXTENDS UploadHelper, SequenceTheorems, TLAPS

(* The provers tried, in this order, where a step names none. *)
USE SMTT(20), ZenonT(20), SMTT(60)

(* What HelperIInv says of the types. *)
LEMMA Types ==
  ASSUME HelperIInv
  PROVE  /\ disk \in DiskType /\ uh \in UhType /\ cl \in ClientType /\ last \in Nat
         /\ uh.readers \in Seq(Client \X Nat) /\ uh.hashes \in Seq(Client \X Nat)
         /\ uh.phase \in Phase /\ uh.have \in Nat
         /\ \A y \in Client : cl[y].try \in Nat /\ cl[y].offset \in Nat /\ cl[y].uh \in Nat
<1>1. disk \in DiskType /\ uh \in UhType /\ cl \in ClientType /\ last \in Nat
  BY DEF HelperIInv, Fetching
<1>2. QED
  BY <1>1 DEF UhType, ClientType

LEMMA ReaderType ==
  ASSUME HelperIInv, NEW i \in 1..Len(uh.readers)
  PROVE  /\ uh.readers[i][1] \in Client /\ uh.readers[i][2] \in Nat
         /\ uh.readers[i] = <<uh.readers[i][1], uh.readers[i][2]>>
<1>1. uh.readers[i] \in Client \X Nat
  BY Types
<1>2. QED
  BY <1>1

LEMMA InitOK == HelperInit => HelperIInv
<1> SUFFICES ASSUME HelperInit PROVE HelperIInv
  OBVIOUS
<1>1. Fetching
  BY DEF HelperInit, Fetching, DiskType, UhType, ClientType, NoUpload, Phase
<1>2. CiphertextWhole
  BY DEF HelperInit, CiphertextWhole
<1>3. ReadersBehind
  BY DEF HelperInit, ReadersBehind, NoUpload
<1>4. QED
  BY <1>1, <1>2, <1>3 DEF HelperIInv

(* A client begins anew, or goes on without being added to the readers. *)
Onward(y) ==
  \/ cl'[y].try > cl[y].try /\ cl'[y].offset = 0
  \/ /\ cl'[y].try = cl[y].try /\ cl'[y].offset = cl[y].offset
     /\ cl'[y].st \in {"checking", "told"} => cl[y].st \in {"checking", "told"}
     /\ cl'[y].st = "waiting" => cl[y].st = "waiting"

-----------------------------------------------------------------------------
(* Three kinds of steps.  First: no reader is left. *)
LEMMA EmptyOK ==
  ASSUME HelperIInv, cl' \in ClientType, \A y \in Client : Onward(y),
         uh' \in UhType, uh'.readers = <<>>, uh'.phase \notin {"size", "data"},
         disk' \in DiskType, CiphertextWhole', last' \in Nat
  PROVE  HelperIInv'
<1>1. Fetching'
  BY DEF Fetching
<1>2. \A y \in Client : cl'[y].st \in {"checking", "told"} => cl'[y].offset = 0
  BY DEF HelperIInv, ReadersBehind, Onward
<1>3. 1..Len(uh'.readers) = {}
  OBVIOUS
<1>4. ReadersBehind'
  BY <1>2, <1>3 DEF ReadersBehind
<1>5. QED
  BY <1>1, <1>4 DEF HelperIInv

(* Second: the files, the clients and the readers stay as they are, after the fetch. *)
LEMMA LaterOK ==
  ASSUME HelperIInv, UNCHANGED <<disk, cl, last>>, uh' \in UhType,
         uh.phase \in {"fetched", "params", "encoding", "closing"},
         uh'.phase \in {"fetched", "params", "encoding", "closing"},
         uh'.readers = uh.readers, uh'.have = uh.have
  PROVE  HelperIInv'
<1>1. Fetching'
  BY DEF HelperIInv, Fetching
<1>2. CiphertextWhole'
  BY DEF HelperIInv, CiphertextWhole, Whole
<1>3. ReadersBehind'
  BY DEF HelperIInv, ReadersBehind, Passed, Alive
<1>4. QED
  BY <1>1, <1>2, <1>3 DEF HelperIInv

(* Third: only clients move. *)
LEMMA ClientsOK ==
  ASSUME HelperIInv, cl' \in ClientType, \A y \in Client : Onward(y), UNCHANGED <<uh, disk>>,
         last' \in Nat
  PROVE  HelperIInv'
<1>1. Fetching' /\ CiphertextWhole'
  BY DEF HelperIInv, Fetching, CiphertextWhole, Whole
<1>2. \A y \in Client : cl'[y].st \in {"checking", "told"} => cl'[y].offset = 0
  BY DEF HelperIInv, ReadersBehind, Onward
<1>3. ASSUME NEW i \in 1..Len(uh.readers)
      PROVE  /\ Passed(uh.readers[i][1], uh.readers[i][2])'
             /\ Alive(uh.readers[i])' => /\ Alive(uh.readers[i])
                                         /\ cl'[uh.readers[i][1]].offset = cl[uh.readers[i][1]].offset
  <2> DEFINE y == uh.readers[i][1]
             t == uh.readers[i][2]
  <2>1. y \in Client /\ t \in Nat
    BY ReaderType
  <2>2. Passed(y, t) /\ Onward(y)
    BY <2>1 DEF HelperIInv, ReadersBehind
  <2>3. cl[y].try \in Nat /\ cl'[y].try \in Nat
    BY Zenon, ZenonT(60), <2>1, Types DEF ClientType
  <2>4. CASE cl'[y].try > cl[y].try
    <3>1. t < cl'[y].try
      BY <2>1, <2>2, <2>3, <2>4 DEF Passed
    <3>2. QED
      BY <2>1, <2>3, <3>1 DEF Passed, Alive
  <2>5. CASE ~ cl'[y].try > cl[y].try
    <3>1. /\ cl'[y].try = cl[y].try /\ cl'[y].offset = cl[y].offset
          /\ cl'[y].st \in {"checking", "told"} => cl[y].st \in {"checking", "told"}
          /\ cl'[y].st = "waiting" => cl[y].st = "waiting"
      BY Zenon, ZenonT(60), <2>2, <2>5 DEF Onward
    <3>2. QED
      BY <2>2, <3>1 DEF Passed, Alive
  <2>6. QED
    BY <2>4, <2>5
<1>4. ReadersBehind'
  BY <1>2, <1>3 DEF HelperIInv, ReadersBehind
<1>5. QED
  BY <1>1, <1>4 DEF HelperIInv

-----------------------------------------------------------------------------
(* The end of an upload. *)
LEMMA NoUploadType == NoUpload \in UhType /\ NoUpload.readers = <<>> /\ NoUpload.phase = "none"
BY DEF UhType, NoUpload, Phase

LEMMA TellOK ==
  ASSUME HelperIInv, NEW r \in {"done", "failed"}, Tell(r)
  PROVE  cl' \in ClientType /\ \A y \in Client : Onward(y)
<1>1. cl \in ClientType
  BY Types
<1>2. cl' \in ClientType
  BY <1>1 DEF Tell, ClientType
<1>3. ASSUME NEW y \in Client PROVE Onward(y)
  <2>1. cl'[y] = cl[y] \/ cl'[y] = [cl[y] EXCEPT !.st = r]
    BY DEF Tell
  <2>2. cl[y] \in [st : {"idle", "checking", "told", "waiting", "done", "failed"},
                   try : Nat, uh : Nat, offset : Nat]
    BY <1>1 DEF ClientType
  <2>3. QED
    BY <2>1, <2>2 DEF Onward
<1>4. QED
  BY <1>2, <1>3

LEMMA UploadFailedOK ==
  ASSUME HelperIInv, upload_failed, last' = last
  PROVE  HelperIInv'
<1>1. cl' \in ClientType /\ \A y \in Client : Onward(y)
  BY TellOK DEF upload_failed
<1>2. uh' \in UhType /\ uh'.readers = <<>> /\ uh'.phase = "none" /\ disk' = disk
  BY NoUploadType DEF upload_failed
<1>3. disk' \in DiskType /\ last' \in Nat
  BY <1>2, Types
<1>4. CiphertextWhole'
  BY <1>2 DEF HelperIInv, CiphertextWhole, Whole
<1>5. QED
  BY <1>1, <1>2, <1>3, <1>4, EmptyOK

LEMMA FinishedOK ==
  ASSUME HelperIInv, NEW all \in BOOLEAN, finished(all)
  PROVE  HelperIInv'
<1>1. CASE upload_failed
  BY Zenon, ZenonT(60), <1>1, UploadFailedOK DEF finished
<1>2. CASE Tell("done") /\ uh' = NoUpload /\ disk' = [disk EXCEPT !.encoding = NoFile]
  <2>1. cl' \in ClientType /\ \A y \in Client : Onward(y)
    BY <1>2, TellOK
  <2>2. uh' \in UhType /\ uh'.readers = <<>> /\ uh'.phase = "none"
    BY <1>2, NoUploadType
  <2>3. disk' \in DiskType /\ disk'.incoming = disk.incoming /\ disk'.encoding = NoFile
    BY Zenon, ZenonT(60), <1>2, Types DEF DiskType
  <2>4. CiphertextWhole'
    BY <2>3 DEF HelperIInv, CiphertextWhole
  <2>5. last' \in Nat
    BY Zenon, ZenonT(60), Types DEF finished
  <2>6. QED
    BY <2>1, <2>2, <2>3, <2>4, <2>5, EmptyOK
<1>3. QED
  BY Zenon, ZenonT(60), <1>1, <1>2 DEF finished

LEMMA CrashOK ==
  ASSUME HelperIInv, NEW lost \in BOOLEAN, Crash(lost)
  PROVE  HelperIInv'
<1>1. cl \in ClientType /\ disk \in DiskType /\ last \in Nat
  BY Types
<1>2. cl' \in ClientType
  BY Zenon, ZenonT(60), <1>1 DEF Crash, ClientType
<1>3. ASSUME NEW y \in Client PROVE Onward(y)
  <2>1. cl'[y] = cl[y] \/ cl'[y] = [cl[y] EXCEPT !.st = "failed"]
    BY DEF Crash
  <2>2. cl[y] \in [st : {"idle", "checking", "told", "waiting", "done", "failed"},
                   try : Nat, uh : Nat, offset : Nat]
    BY <1>1 DEF ClientType
  <2>3. QED
    BY <2>1, <2>2 DEF Onward
<1>4. uh' \in UhType /\ uh'.readers = <<>> /\ uh'.phase = "none" /\ last' \in Nat
  BY <1>1, NoUploadType DEF Crash
<1>5. disk' \in DiskType /\ CiphertextWhole'
  <2>1. CASE ~ lost
    <3>1. disk' = disk
      BY <2>1 DEF Crash
    <3>2. QED
      BY <1>1, <3>1 DEF HelperIInv, CiphertextWhole, Whole
  <2>2. CASE lost
    <3> DEFINE s == disk.incoming
    <3>1. s # <<>> /\ s # NoFile
      BY <2>2 DEF Crash, HelperIInv, Fetching
    <3>2. s \in Seq(Nat)
      BY <1>1, <3>1 DEF DiskType
    <3>3. disk' = [disk EXCEPT !.incoming = unbuffered(s)]
      BY <2>2 DEF Crash
    <3>4. Len(s) <= Size /\ \A i \in 1..Len(s) : s[i] = i
      BY <3>1 DEF HelperIInv, CiphertextWhole
    <3> HIDE DEF s
    <3>5. Len(s) \in Nat /\ Len(s) # 0
      BY <3>1, <3>2
    <3>6. /\ unbuffered(s) \in Seq(Nat) /\ Len(unbuffered(s)) = Len(s) - 1
          /\ \A i \in 1..Len(s) - 1 : unbuffered(s)[i] = s[i]
      <4>1. unbuffered(s) = SubSeq(s, 1, Len(s) - 1)
        BY DEF unbuffered
      <4>2. Len(s) - 1 \in Nat /\ \A i \in 1..Len(s) - 1 : i \in 1..Len(s)
        BY <3>5
      <4>3. \A i \in 1..Len(s) - 1 : s[i] \in Nat
        BY <3>2, <4>2
      <4> DEFINE n == Len(s) - 1
                 f == SubSeq(s, 1, n)
      <4>4. /\ f \in Seq(Nat)
            /\ Len(f) = IF 1 <= n THEN n - 1 + 1 ELSE 0
            /\ \A i \in 1..(n - 1 + 1) : f[i] = s[1 + i - 1]
        BY <3>5, <4>3, SubSeqProperties
      <4>5. n \in Nat
        BY <3>5
      <4> HIDE DEF n, f
      <4>6. Len(f) = n /\ \A i \in 1..n : f[i] = s[i]
        BY <4>4, <4>5
      <4>7. QED
        BY <4>1, <4>4, <4>6 DEF n, f
    <3>7. disk' \in DiskType /\ disk'.incoming = unbuffered(s) /\ disk'.encoding = disk.encoding
      BY <1>1, <3>3, <3>6 DEF DiskType
    <3>8. Len(unbuffered(s)) <= Size /\ \A i \in 1..Len(unbuffered(s)) : unbuffered(s)[i] = i
      BY <3>4, <3>5, <3>6, SizeAssumption
    <3>9. QED
      BY <3>7, <3>8 DEF HelperIInv, CiphertextWhole, Whole
  <2>3. QED
    BY <2>1, <2>2
<1>6. QED
  BY <1>2, <1>3, <1>4, <1>5, EmptyOK

-----------------------------------------------------------------------------
(* Clients asking, and going away. *)
LEMMA MoveOK ==
  ASSUME HelperIInv, NEW x \in Client,
         NEW c \in [st : {"idle", "checking", "told", "waiting", "done", "failed"},
                    try : Nat, uh : Nat, offset : Nat],
         cl' = [cl EXCEPT ![x] = c],
         \/ c.try > cl[x].try /\ c.offset = 0
         \/ /\ c.try = cl[x].try /\ c.offset = cl[x].offset
            /\ c.st \in {"checking", "told"} => cl[x].st \in {"checking", "told"}
            /\ c.st = "waiting" => cl[x].st = "waiting"
  PROVE  cl' \in ClientType /\ \A y \in Client : Onward(y)
<1>1. cl \in ClientType
  BY Types
<1>2. cl' \in ClientType
  BY <1>1 DEF ClientType
<1>3. cl'[x] = c /\ \A y \in Client : y # x => cl'[y] = cl[y]
  BY <1>1 DEF ClientType
<1>4. ASSUME NEW y \in Client PROVE Onward(y)
  BY <1>3 DEF Onward
<1>5. QED
  BY <1>2, <1>4

LEMMA UploadChkOK ==
  ASSUME HelperIInv, NEW x \in Client, upload_chk(x)
  PROVE  HelperIInv'
<1> DEFINE c == [st |-> IF Busy THEN "told" ELSE "checking", try |-> cl[x].try + 1,
                 uh |-> IF Busy THEN last ELSE 0, offset |-> 0]
<1>1. cl \in ClientType /\ cl[x].try \in Nat /\ last \in Nat
  BY Types
<1>2. cl' = [cl EXCEPT ![x] = c]
  BY <1>1 DEF upload_chk, ClientType
<1>3. c \in [st : {"idle", "checking", "told", "waiting", "done", "failed"},
             try : Nat, uh : Nat, offset : Nat]
  BY <1>1
<1>4. c.try > cl[x].try /\ c.offset = 0
  BY <1>1
<1> HIDE DEF c
<1>5. cl' \in ClientType /\ \A y \in Client : Onward(y)
  BY Zenon, ZenonT(60), <1>2, <1>3, <1>4, MoveOK
<1>6. QED
  BY <1>1, <1>5, ClientsOK DEF upload_chk

LEMMA StateOK ==
  ASSUME HelperIInv, NEW x \in Client, NEW n \in Nat,
         NEW new \in {"told", "done", "failed"}, new = "told" => cl[x].st = "checking",
         cl' = [cl EXCEPT ![x].st = new, ![x].uh = n] \/ cl' = [cl EXCEPT ![x].st = new]
  PROVE  cl' \in ClientType /\ \A y \in Client : Onward(y)
<1> DEFINE c == cl'[x]
<1>1. cl \in ClientType
  BY Types
<1>2. cl[x] \in [st : {"idle", "checking", "told", "waiting", "done", "failed"},
                 try : Nat, uh : Nat, offset : Nat]
  BY <1>1 DEF ClientType
<1>3. cl' = [cl EXCEPT ![x] = c] /\ (c = [cl[x] EXCEPT !.st = new, !.uh = n] \/ c = [cl[x] EXCEPT !.st = new])
  BY <1>1 DEF ClientType
<1> HIDE DEF c
<1>4. /\ c \in [st : {"idle", "checking", "told", "waiting", "done", "failed"},
                try : Nat, uh : Nat, offset : Nat]
      /\ c.try = cl[x].try /\ c.offset = cl[x].offset /\ c.st = new
  BY Zenon, ZenonT(60), <1>2, <1>3
<1>5. QED
  BY Zenon, ZenonT(60), <1>3, <1>4, MoveOK

LEMMA DisconnectOK ==
  ASSUME HelperIInv, NEW x \in Client, Disconnect(x)
  PROVE  HelperIInv'
<1>1. cl' \in ClientType /\ \A y \in Client : Onward(y)
  BY Zenon, ZenonT(60), StateOK DEF Disconnect
<1>2. QED
  BY <1>1, Types, ClientsOK DEF Disconnect

LEMMA DidCheckOK ==
  ASSUME HelperIInv, NEW x \in Client, NEW found \in BOOLEAN, did_chk_check(x, found)
  PROVE  HelperIInv'
<1>1. last' \in Nat /\ disk' = disk
  <2>1. last' = last \/ last' = last + 1
    BY Zenon, ZenonT(60) DEF did_chk_check
  <2>2. last \in Nat
    BY Types
  <2>3. last' \in Nat
    BY <2>1, <2>2
  <2>4. QED
    BY Zenon, ZenonT(60), <2>3 DEF did_chk_check
<1>2. cl' \in ClientType /\ \A y \in Client : Onward(y)
  <2>1. CASE found
    BY Zenon, ZenonT(60), <2>1, StateOK DEF did_chk_check
  <2>2. CASE ~ found
    BY Zenon, ZenonT(60), <1>1, <2>2, StateOK DEF did_chk_check
  <2>3. QED
    BY <2>1, <2>2
<1>3. CASE found \/ Busy
  <2>1. uh' = uh
    BY Zenon, ZenonT(60), <1>3 DEF did_chk_check
  <2>2. QED
    BY <1>1, <1>2, <2>1, ClientsOK
<1>4. CASE ~ found /\ ~ Busy
  <2>1. uh' = [NoUpload EXCEPT !.phase = "idle"]
    BY Zenon, ZenonT(60), <1>4 DEF did_chk_check
  <2>2. uh' \in UhType /\ uh'.readers = <<>> /\ uh'.phase = "idle"
    <3>1. uh' = [phase |-> "idle", readers |-> <<>>, hashes |-> <<>>, have |-> 0]
      BY <2>1 DEF NoUpload
    <3>2. "idle" \in Phase /\ <<>> \in Seq(Client \X Nat)
      BY DEF Phase
    <3>3. QED
      BY <3>1, <3>2 DEF UhType
  <2>3. disk' \in DiskType /\ CiphertextWhole'
    BY <1>1, Types DEF HelperIInv, CiphertextWhole, Whole
  <2>4. QED
    BY <1>1, <1>2, <2>2, <2>3, EmptyOK
<1>5. QED
  BY <1>3, <1>4

(* What Passed and Alive say after a step, of a reader there was before it. *)
PassedAfter(x, t) ==
  \/ t < cl'[x].try
  \/ t = cl'[x].try /\ cl'[x].st \notin {"checking", "told"}
AliveAfter(r) == cl'[r[1]].try = r[2] /\ cl'[r[1]].st = "waiting"

(* It is enough to look at the readers one by one. *)
LEMMA BehindAfter ==
  ASSUME \A y \in Client : cl'[y].st \in {"checking", "told"} => cl'[y].offset = 0,
         \A i \in 1..Len(uh'.readers) :
           /\ PassedAfter(uh'.readers[i][1], uh'.readers[i][2])
           /\ \A j \in 1..Len(uh'.readers) : uh'.readers[i] = uh'.readers[j] => i = j
           /\ AliveAfter(uh'.readers[i]) =>
                \/ cl'[uh'.readers[i][1]].offset = 0
                \/ uh'.phase \notin {"idle", "size"} /\ cl'[uh'.readers[i][1]].offset <= uh'.have
  PROVE  ReadersBehind'
BY DEF ReadersBehind, PassedAfter, AliveAfter, Passed, Alive

(* A client joins the readers: it is not among them, and has passed nothing. *)
LEMMA UploadOK ==
  ASSUME HelperIInv, NEW x \in Client, upload(x)
  PROVE  HelperIInv'
<1>1. cl \in ClientType /\ uh \in UhType /\ last' \in Nat /\ disk' = disk /\ cl[x].try \in Nat
  BY Types DEF upload
<1>2. CASE ~ (Busy /\ cl[x].uh = last)
  <2>1. cl' \in ClientType /\ \A y \in Client : Onward(y)
    BY Zenon, ZenonT(60), <1>2, StateOK DEF upload
  <2>2. QED
    BY <1>1, <1>2, <2>1, ClientsOK DEF upload
<1>3. CASE Busy /\ cl[x].uh = last
  <2> DEFINE r == <<x, cl[x].try>>
  <2>1. /\ cl[x].st = "told"
        /\ uh' = [uh EXCEPT !.readers = Append(uh.readers, r), !.hashes = Append(uh.hashes, r)]
        /\ cl' = [cl EXCEPT ![x].st = "waiting"]
    BY <1>3 DEF upload, Reader
  <2>2. r \in Client \X Nat
    BY <1>1
  <2>3. uh.readers \in Seq(Client \X Nat) /\ uh.hashes \in Seq(Client \X Nat)
    BY Types
  <2>4. Append(uh.readers, r) \in Seq(Client \X Nat) /\ Append(uh.hashes, r) \in Seq(Client \X Nat)
    BY <2>2, <2>3
  <2>5. /\ uh' \in UhType /\ uh'.readers = Append(uh.readers, r)
        /\ uh'.phase = uh.phase /\ uh'.have = uh.have
    BY Zenon, ZenonT(60), <1>1, <2>1, <2>4 DEF UhType
  <2>6. /\ cl' \in ClientType
        /\ cl'[x] = [cl[x] EXCEPT !.st = "waiting"]
        /\ \A y \in Client : y # x => cl'[y] = cl[y]
    BY <1>1, <2>1 DEF ClientType
  <2>7. cl'[x].st = "waiting" /\ cl'[x].try = cl[x].try /\ cl'[x].offset = cl[x].offset
    BY <1>1, <2>6 DEF ClientType
  <2>8. Append(uh.readers, r) # <<>>
    BY <2>2, <2>3
  <2>9. Fetching'
    BY <1>1, <1>3, <2>5, <2>6, <2>8 DEF HelperIInv, Fetching, Busy
  <2>10. CiphertextWhole'
    BY <1>1 DEF HelperIInv, CiphertextWhole, Whole
  <2>11. \A y \in Client : cl'[y].st \in {"checking", "told"} => cl'[y].offset = 0
    BY Zenon, ZenonT(60), <2>6, <2>7 DEF HelperIInv, ReadersBehind
  <2>12. /\ Len(uh'.readers) = Len(uh.readers) + 1 /\ Len(uh.readers) \in Nat
         /\ uh'.readers[Len(uh.readers) + 1] = r
         /\ \A i \in 1..Len(uh.readers) : uh'.readers[i] = uh.readers[i]
    BY <2>2, <2>3, <2>5
  <2>13. ASSUME NEW i \in 1..Len(uh.readers)
         PROVE  /\ PassedAfter(uh.readers[i][1], uh.readers[i][2])
                /\ uh.readers[i] # r
                /\ AliveAfter(uh.readers[i]) => Alive(uh.readers[i])
                /\ cl'[uh.readers[i][1]].offset = cl[uh.readers[i][1]].offset
    <3>1. Passed(uh.readers[i][1], uh.readers[i][2]) /\ uh.readers[i][1] \in Client /\ uh.readers[i][2] \in Nat
      BY ReaderType DEF HelperIInv, ReadersBehind
    <3>2. CASE uh.readers[i][1] # x
      BY <2>6, <3>1, <3>2 DEF Passed, Alive, PassedAfter, AliveAfter
    <3>3. CASE uh.readers[i][1] = x
      <4>1. uh.readers[i][2] < cl[x].try
        BY <2>1, <3>1, <3>3 DEF Passed
      <4>2. uh.readers[i][2] # cl[x].try
        BY <1>1, <3>1, <4>1
      <4>3. QED
        BY <2>7, <3>3, <4>1, <4>2 DEF Passed, Alive, PassedAfter, AliveAfter
    <3>4. QED
      BY <3>2, <3>3
  <2>14. PassedAfter(r[1], r[2]) /\ cl'[r[1]].offset = 0
    BY <2>1, <2>7 DEF PassedAfter, HelperIInv, ReadersBehind
  <2> HIDE DEF r
  <2>15. ASSUME NEW i \in 1..Len(uh'.readers)
         PROVE  /\ PassedAfter(uh'.readers[i][1], uh'.readers[i][2])
                /\ \A j \in 1..Len(uh'.readers) : uh'.readers[i] = uh'.readers[j] => i = j
                /\ AliveAfter(uh'.readers[i]) =>
                     \/ cl'[uh'.readers[i][1]].offset = 0
                     \/ uh'.phase \notin {"idle", "size"} /\ cl'[uh'.readers[i][1]].offset <= uh'.have
    <3>1. CASE i = Len(uh.readers) + 1
      <4>1. uh'.readers[i] = r
        BY <2>12, <3>1
      <4>2. ASSUME NEW j \in 1..Len(uh'.readers), j # i PROVE uh'.readers[j] # r
        BY <2>12, <2>13, <3>1, <4>2
      <4>3. QED
        BY <2>14, <4>1, <4>2
    <3>2. CASE i # Len(uh.readers) + 1
      <4>1. i \in 1..Len(uh.readers) /\ uh'.readers[i] = uh.readers[i]
        BY <2>12, <3>2
      <4>2. PassedAfter(uh'.readers[i][1], uh'.readers[i][2])
        BY <2>13, <4>1
      <4>3. ASSUME NEW j \in 1..Len(uh'.readers), uh'.readers[i] = uh'.readers[j] PROVE i = j
        <5>1. j # Len(uh.readers) + 1
          BY <2>12, <2>13, <4>1, <4>3
        <5>2. j \in 1..Len(uh.readers) /\ uh'.readers[j] = uh.readers[j]
          BY <2>12, <5>1
        <5>3. QED
          BY Zenon, ZenonT(60), <4>1, <4>3, <5>2 DEF HelperIInv, ReadersBehind
      <4>4. ASSUME AliveAfter(uh.readers[i])
            PROVE  \/ cl'[uh.readers[i][1]].offset = 0
                   \/ uh'.phase \notin {"idle", "size"} /\ cl'[uh.readers[i][1]].offset <= uh'.have
        BY <2>5, <2>13, <4>1, <4>4 DEF HelperIInv, ReadersBehind
      <4>5. QED
        BY <4>1, <4>2, <4>3, <4>4
    <3>3. QED
      BY <3>1, <3>2
  <2>16. ReadersBehind'
    BY <2>11, <2>15, BehindAfter
  <2>17. QED
    BY <2>9, <2>10, <2>16 DEF HelperIInv
<1>4. QED
  BY <1>2, <1>3

-----------------------------------------------------------------------------
(* The fetch. *)
LEMMA FetcherStartOK ==
  ASSUME HelperIInv, fetcher_start
  PROVE  HelperIInv'
<1>1. uh \in UhType /\ cl' = cl /\ disk' = disk /\ last' = last /\ uh.phase = "idle" /\ uh.readers # <<>>
  BY Types DEF fetcher_start
<1>2. CiphertextWhole'
  BY <1>1 DEF HelperIInv, CiphertextWhole, Whole
<1>3. CASE uh' = [uh EXCEPT !.phase = "size"]
  <2>1. uh' \in UhType /\ uh'.phase = "size" /\ uh'.readers = uh.readers /\ uh'.have = uh.have
    BY Zenon, ZenonT(60), <1>1, <1>3 DEF UhType, Phase
  <2>2. Fetching'
    BY <1>1, <2>1 DEF HelperIInv, Fetching
  <2>3. ReadersBehind'
    BY <1>1, <2>1 DEF HelperIInv, ReadersBehind, Passed, Alive
  <2>4. QED
    BY <1>2, <2>2, <2>3 DEF HelperIInv
<1>4. CASE uh' = [uh EXCEPT !.phase = "fetched", !.readers = <<>>]
  <2>1. <<>> \in Seq(Client \X Nat) /\ "fetched" \in Phase
    BY DEF Phase
  <2>2. uh' \in UhType /\ uh'.phase = "fetched" /\ uh'.readers = <<>>
    BY Zenon, ZenonT(60), <1>1, <1>4, <2>1 DEF UhType
  <2>3. \A y \in Client : Onward(y)
    BY <1>1 DEF Onward
  <2>4. QED
    BY <1>1, <1>2, <2>2, <2>3, Types, EmptyOK
<1>5. QED
  BY <1>3, <1>4 DEF fetcher_start

LEMMA GotSizeOK ==
  ASSUME HelperIInv, got_size
  PROVE  HelperIInv'
<1> DEFINE s == IF disk.incoming = NoFile THEN <<>> ELSE disk.incoming
<1>1. /\ uh \in UhType /\ disk \in DiskType /\ cl' = cl /\ last' = last /\ last \in Nat
      /\ uh.phase = "size" /\ cl \in ClientType
  BY Types DEF got_size
<1>2. s \in Seq(Nat) /\ s # NoFile
  <2>1. <<>> \in Seq(Nat)
    OBVIOUS
  <2>2. disk.incoming \in Seq(Nat) \cup {NoFile}
    BY <1>1 DEF DiskType
  <2>3. s \in Seq(Nat)
    BY <2>1, <2>2
  <2>4. QED
    BY Zenon, ZenonT(60), <2>3, NoFileAssumption
<1>3. Len(s) \in Nat /\ Len(s) <= Size /\ \A i \in 1..Len(s) : s[i] = i
  <2>1. CASE disk.incoming = NoFile
    BY <2>1, SizeAssumption
  <2>2. CASE disk.incoming # NoFile
    BY <1>2, <2>2 DEF HelperIInv, CiphertextWhole
  <2>3. QED
    BY <2>1, <2>2
<1>4. (IF disk.incoming = NoFile THEN 0 ELSE Len(disk.incoming)) = Len(s)
  OBVIOUS
<1>5. disk' = [disk EXCEPT !.incoming = s] /\ uh' = [uh EXCEPT !.phase = "data", !.have = Len(s)]
  BY <1>4 DEF got_size
<1> HIDE DEF s
<1>6. disk' \in DiskType /\ disk'.incoming = s /\ disk'.encoding = disk.encoding
  BY Zenon, ZenonT(60), <1>1, <1>2, <1>5 DEF DiskType
<1>7. uh' \in UhType /\ uh'.phase = "data" /\ uh'.have = Len(s) /\ uh'.readers = uh.readers
  BY Zenon, ZenonT(60), <1>1, <1>3, <1>5 DEF UhType, Phase
<1>8. Fetching'
  BY <1>1, <1>2, <1>6, <1>7 DEF HelperIInv, Fetching
<1>9. CiphertextWhole'
  BY <1>3, <1>6 DEF HelperIInv, CiphertextWhole, Whole
<1>10. ReadersBehind'
  BY <1>1, <1>7 DEF HelperIInv, ReadersBehind, Passed, Alive
<1>11. QED
  BY <1>8, <1>9, <1>10 DEF HelperIInv

(* Only the first reader has been read from: every other one has passed no  *)
(* more than before.                                                        *)
LEMMA FirstReads ==
  ASSUME HelperIInv, uh.phase = "data", Alive(uh.readers[1]),
         cl' = [cl EXCEPT ![uh.readers[1][1]].offset = uh.have + 1]
  PROVE  /\ cl' \in ClientType /\ 1 \in 1..Len(uh.readers)
         /\ \A y \in Client : cl'[y].st = cl[y].st /\ cl'[y].try = cl[y].try
         /\ \A y \in Client : cl'[y].st \in {"checking", "told"} => cl'[y].offset = 0
         /\ cl'[uh.readers[1][1]].offset = uh.have + 1
         /\ \A i \in 1..Len(uh.readers) :
              i # 1 /\ Alive(uh.readers[i]) => cl'[uh.readers[i][1]].offset = cl[uh.readers[i][1]].offset
<1> DEFINE x == uh.readers[1][1]
<1>1. cl \in ClientType /\ uh.have \in Nat /\ uh.readers \in Seq(Client \X Nat)
  BY Types
<1>2. uh.readers # <<>>
  BY DEF HelperIInv, Fetching
<1>3. 1 \in 1..Len(uh.readers)
  BY <1>1, <1>2
<1>4. x \in Client /\ cl[x].st = "waiting"
  BY <1>3, ReaderType DEF Alive
<1>5. /\ cl' \in ClientType /\ cl'[x].offset = uh.have + 1
      /\ cl'[x].st = cl[x].st /\ cl'[x].try = cl[x].try
      /\ \A y \in Client : y # x => cl'[y] = cl[y]
  <2> HIDE DEF x
  <2>1. cl' = [cl EXCEPT ![x].offset = uh.have + 1]
    BY DEF x
  <2>2. cl[x] \in [st : {"idle", "checking", "told", "waiting", "done", "failed"},
                   try : Nat, uh : Nat, offset : Nat] /\ uh.have + 1 \in Nat
    BY <1>1, <1>4 DEF ClientType
  <2>3. cl' = [cl EXCEPT ![x] = [cl[x] EXCEPT !.offset = uh.have + 1]]
    BY Zenon, ZenonT(60), <2>1
  <2>4. [cl[x] EXCEPT !.offset = uh.have + 1] \in
          [st : {"idle", "checking", "told", "waiting", "done", "failed"},
           try : Nat, uh : Nat, offset : Nat]
    BY <2>2
  <2>5. cl' \in ClientType
    BY Zenon, ZenonT(60), <1>1, <1>4, <2>3, <2>4 DEF ClientType
  <2>6. cl'[x] = [cl[x] EXCEPT !.offset = uh.have + 1] /\ \A y \in Client : y # x => cl'[y] = cl[y]
    BY Zenon, ZenonT(60), <1>1, <1>4, <2>3 DEF ClientType
  <2>7. QED
    BY <2>2, <2>5, <2>6
<1>6. ASSUME NEW i \in 1..Len(uh.readers), i # 1, Alive(uh.readers[i])
      PROVE  cl'[uh.readers[i][1]].offset = cl[uh.readers[i][1]].offset
  <2>1. uh.readers[i] # uh.readers[1]
    BY <1>3, <1>6 DEF HelperIInv, ReadersBehind
  <2>2. uh.readers[i][1] # x
    BY <1>3, <1>6, <2>1, ReaderType DEF Alive
  <2>3. QED
    BY <1>5, <2>2, ReaderType
<1>7. \A y \in Client : cl'[y].st \in {"checking", "told"} => cl'[y].offset = 0
  BY <1>4, <1>5 DEF HelperIInv, ReadersBehind
<1>8. \A y \in Client : cl'[y].st = cl[y].st /\ cl'[y].try = cl[y].try
  BY <1>5
<1>9. QED
  BY Zenon, ZenonT(60), <1>3, <1>5, <1>6, <1>7, <1>8

LEMMA GotDataOK ==
  ASSUME HelperIInv, got_data
  PROVE  HelperIInv'
<1> DEFINE s == disk.incoming
<1>1. /\ uh \in UhType /\ disk \in DiskType /\ last \in Nat /\ last' = last /\ uh.have \in Nat
      /\ uh.phase = "data" /\ uh.have < Size
  BY Types DEF got_data
<1>2. s # NoFile /\ uh.have = Len(s)
  BY <1>1 DEF HelperIInv, Fetching
<1>3. s \in Seq(Nat) /\ \A i \in 1..Len(s) : s[i] = i
  BY <1>1, <1>2 DEF DiskType, HelperIInv, CiphertextWhole
<1>4. /\ Head(uh.readers) = uh.readers[1]
      /\ disk' = [disk EXCEPT !.incoming = Append(s, uh.have + 1)]
      /\ uh' = [uh EXCEPT !.have = uh.have + 1]
  BY DEF got_data
<1>5. Alive(uh.readers[1]) /\ cl' = [cl EXCEPT ![uh.readers[1][1]].offset = uh.have + 1]
  BY <1>4 DEF got_data
<1> HIDE DEF s
<1>6. /\ Append(s, uh.have + 1) \in Seq(Nat) /\ Len(Append(s, uh.have + 1)) = uh.have + 1
      /\ \A i \in 1..(uh.have + 1) : Append(s, uh.have + 1)[i] = i
  BY <1>1, <1>2, <1>3
<1>7. /\ disk' \in DiskType /\ disk'.incoming = Append(s, uh.have + 1)
      /\ disk'.encoding = disk.encoding /\ disk'.incoming # NoFile
  BY Zenon, ZenonT(60), <1>1, <1>4, <1>6, NoFileAssumption DEF DiskType
<1>8. uh' \in UhType /\ uh'.phase = "data" /\ uh'.have = uh.have + 1 /\ uh'.readers = uh.readers
  BY <1>1, <1>4 DEF UhType
<1>9. /\ cl' \in ClientType /\ 1 \in 1..Len(uh.readers)
      /\ \A y \in Client : cl'[y].st = cl[y].st /\ cl'[y].try = cl[y].try
      /\ \A y \in Client : cl'[y].st \in {"checking", "told"} => cl'[y].offset = 0
      /\ cl'[uh.readers[1][1]].offset = uh.have + 1
      /\ \A i \in 1..Len(uh.readers) :
           i # 1 /\ Alive(uh.readers[i]) => cl'[uh.readers[i][1]].offset = cl[uh.readers[i][1]].offset
  BY Zenon, ZenonT(60), <1>1, <1>5, FirstReads
<1>10. Fetching'
  <2>1. uh.readers # <<>>
    BY <1>1 DEF HelperIInv, Fetching
  <2>2. QED
    BY <1>1, <1>6, <1>7, <1>8, <1>9, <2>1 DEF Fetching
<1>11. CiphertextWhole'
  <2>1. uh.have + 1 <= Size
    BY <1>1, SizeAssumption
  <2>2. QED
    BY <1>6, <1>7, <2>1 DEF HelperIInv, CiphertextWhole, Whole
<1>12. ASSUME NEW i \in 1..Len(uh.readers)
       PROVE  /\ PassedAfter(uh.readers[i][1], uh.readers[i][2])
              /\ \A j \in 1..Len(uh.readers) : uh.readers[i] = uh.readers[j] => i = j
              /\ AliveAfter(uh.readers[i]) => cl'[uh.readers[i][1]].offset <= uh.have + 1
  <2>1. uh.readers[i][1] \in Client
    BY ReaderType
  <2>2. PassedAfter(uh.readers[i][1], uh.readers[i][2])
    BY <1>9, <2>1 DEF HelperIInv, ReadersBehind, Passed, PassedAfter
  <2>3. ASSUME AliveAfter(uh.readers[i]) PROVE cl'[uh.readers[i][1]].offset <= uh.have + 1
    <3>1. Alive(uh.readers[i])
      BY <1>9, <2>1, <2>3 DEF Alive, AliveAfter
    <3>2. CASE i = 1
      BY <1>1, <1>9, <3>2
    <3>3. CASE i # 1
      <4>1. cl[uh.readers[i][1]].offset = 0 \/ cl[uh.readers[i][1]].offset <= uh.have
        BY <3>1 DEF HelperIInv, ReadersBehind
      <4>2. QED
        BY <1>1, <1>9, <2>1, <3>1, <3>3, <4>1, Types
    <3>4. QED
      BY <3>2, <3>3
  <2>4. QED
    BY <2>2, <2>3 DEF HelperIInv, ReadersBehind
<1>13. ReadersBehind'
  BY <1>8, <1>9, <1>12, BehindAfter
<1>14. QED
  BY <1>10, <1>11, <1>13 DEF HelperIInv

(* The readers after the first move up by one. *)
LEMMA DropFirst ==
  ASSUME HelperIInv, uh.readers # <<>>
  PROVE  /\ Tail(uh.readers) \in Seq(Client \X Nat)
         /\ Len(Tail(uh.readers)) = Len(uh.readers) - 1 /\ Len(uh.readers) \in Nat
         /\ \A i \in 1..Len(Tail(uh.readers)) :
              i + 1 \in 1..Len(uh.readers) /\ i + 1 # 1 /\ Tail(uh.readers)[i] = uh.readers[i + 1]
<1>1. uh.readers \in Seq(Client \X Nat)
  BY Types
<1>2. QED
  BY <1>1

LEMMA FetchFailedOK ==
  ASSUME HelperIInv, NEW served \in BOOLEAN, fetch_failed(served)
  PROVE  HelperIInv'
<1>1. uh \in UhType /\ last' = last /\ last \in Nat /\ uh.phase \in {"size", "data"} /\ uh.have \in Nat
  BY Types DEF fetch_failed
<1>2. CASE Tail(uh.readers) = <<>>
  <2>1. upload_failed
    BY <1>2 DEF fetch_failed, without_first
  <2>2. QED
    BY <1>1, <2>1, UploadFailedOK
<1>3. CASE Tail(uh.readers) # <<>>
  <2>1. /\ uh' = [uh EXCEPT !.readers = Tail(uh.readers)] /\ disk' = disk
        /\ Head(uh.readers) = uh.readers[1]
    BY <1>3 DEF fetch_failed, without_first
  <2>2. uh.readers # <<>>
    BY <1>1 DEF HelperIInv, Fetching
  <2>3. /\ Tail(uh.readers) \in Seq(Client \X Nat)
        /\ Len(Tail(uh.readers)) = Len(uh.readers) - 1 /\ Len(uh.readers) \in Nat
        /\ \A i \in 1..Len(Tail(uh.readers)) :
             i + 1 \in 1..Len(uh.readers) /\ i + 1 # 1 /\ Tail(uh.readers)[i] = uh.readers[i + 1]
    BY <2>2, DropFirst
  <2>4. /\ uh' \in UhType /\ uh'.readers = Tail(uh.readers)
        /\ uh'.phase = uh.phase /\ uh'.have = uh.have
    BY Zenon, ZenonT(60), <1>1, <2>1, <2>3 DEF UhType
  <2>5. /\ cl' \in ClientType
        /\ \A y \in Client : cl'[y].st = cl[y].st /\ cl'[y].try = cl[y].try
        /\ \A y \in Client : cl'[y].st \in {"checking", "told"} => cl'[y].offset = 0
        /\ \A i \in 1..Len(uh.readers) :
             i # 1 /\ Alive(uh.readers[i]) => cl'[uh.readers[i][1]].offset = cl[uh.readers[i][1]].offset
    <3>1. CASE served
      <4>1. /\ cl' = [cl EXCEPT ![uh.readers[1][1]].offset = uh.have + 1]
            /\ uh.phase = "data" /\ Alive(uh.readers[1])
        BY <1>3, <2>1, <3>1 DEF fetch_failed, without_first
      <4>2. QED
        BY Zenon, ZenonT(60), <4>1, FirstReads
    <3>2. CASE ~ served
      <4>1. cl' = cl
        BY <1>3, <3>2 DEF fetch_failed, without_first
      <4>2. QED
        BY <4>1, Types DEF HelperIInv, ReadersBehind
    <3>3. QED
      BY <3>1, <3>2
  <2>6. Fetching'
    BY <1>1, <1>3, <2>1, <2>4, <2>5 DEF HelperIInv, Fetching
  <2>7. CiphertextWhole'
    BY <2>1 DEF HelperIInv, CiphertextWhole, Whole
  <2>8. ASSUME NEW i \in 1..Len(uh'.readers)
        PROVE  /\ PassedAfter(uh'.readers[i][1], uh'.readers[i][2])
               /\ \A j \in 1..Len(uh'.readers) : uh'.readers[i] = uh'.readers[j] => i = j
               /\ AliveAfter(uh'.readers[i]) =>
                    \/ cl'[uh'.readers[i][1]].offset = 0
                    \/ uh'.phase \notin {"idle", "size"} /\ cl'[uh'.readers[i][1]].offset <= uh'.have
    <3>1. i + 1 \in 1..Len(uh.readers) /\ i + 1 # 1 /\ uh'.readers[i] = uh.readers[i + 1]
      BY <2>3, <2>4
    <3>2. uh.readers[i + 1][1] \in Client
      BY <3>1, ReaderType
    <3>3. PassedAfter(uh.readers[i + 1][1], uh.readers[i + 1][2])
      BY <2>5, <3>1, <3>2 DEF HelperIInv, ReadersBehind, Passed, PassedAfter
    <3>4. ASSUME NEW j \in 1..Len(uh'.readers), uh'.readers[i] = uh'.readers[j] PROVE i = j
      <4>1. j + 1 \in 1..Len(uh.readers) /\ uh'.readers[j] = uh.readers[j + 1]
        BY <2>3, <2>4
      <4>2. i + 1 = j + 1
        BY Zenon, ZenonT(60), <3>1, <3>4, <4>1 DEF HelperIInv, ReadersBehind
      <4>3. QED
        BY <4>2
    <3>5. ASSUME AliveAfter(uh.readers[i + 1])
          PROVE  \/ cl'[uh.readers[i + 1][1]].offset = 0
                 \/ uh'.phase \notin {"idle", "size"} /\ cl'[uh.readers[i + 1][1]].offset <= uh'.have
      <4>1. Alive(uh.readers[i + 1])
        BY <2>5, <3>2, <3>5 DEF Alive, AliveAfter
      <4>2. QED
        BY <2>4, <2>5, <3>1, <4>1 DEF HelperIInv, ReadersBehind
    <3>6. QED
      BY <3>1, <3>3, <3>4, <3>5
  <2>9. ReadersBehind'
    BY <2>5, <2>8, BehindAfter
  <2>10. QED
    BY <2>6, <2>7, <2>9 DEF HelperIInv
<1>4. QED
  BY <1>2, <1>3

LEMMA FetchDoneOK ==
  ASSUME HelperIInv, fetch_done
  PROVE  HelperIInv'
<1>1. /\ uh \in UhType /\ disk \in DiskType /\ cl' = cl /\ last' = last /\ uh.phase = "data"
      /\ uh.have \in Nat /\ uh.have >= Size
  BY Types DEF fetch_done
<1>2. disk.incoming # NoFile /\ uh.have = Len(disk.incoming)
  BY <1>1 DEF HelperIInv, Fetching
<1>3. disk.incoming \in Seq(Nat)
  BY <1>1, <1>2 DEF DiskType
<1>4. Len(disk.incoming) = Size /\ \A i \in 1..Len(disk.incoming) : disk.incoming[i] = i
  BY <1>1, <1>2, SizeAssumption DEF HelperIInv, CiphertextWhole
<1>5. disk.incoming = Whole
  BY <1>3, <1>4, SizeAssumption DEF Whole
<1>6. disk' \in DiskType /\ CiphertextWhole'
  <2>1. disk' = [incoming |-> NoFile, encoding |-> disk.incoming]
    BY DEF fetch_done
  <2>2. disk'.incoming = NoFile /\ disk'.encoding = disk.incoming
    BY <2>1
  <2>3. disk' \in DiskType
    BY <1>3, <2>1 DEF DiskType
  <2>4. QED
    BY <1>5, <2>2, <2>3 DEF CiphertextWhole, Whole
<1>7. uh' \in UhType /\ uh'.phase = "fetched" /\ uh'.readers = <<>>
  <2>1. uh' = [uh EXCEPT !.phase = "fetched", !.readers = <<>>]
    BY DEF fetch_done
  <2>2. <<>> \in Seq(Client \X Nat) /\ "fetched" \in Phase
    BY DEF Phase
  <2>3. QED
    BY Zenon, ZenonT(60), <1>1, <2>1, <2>2 DEF UhType
<1>8. \A y \in Client : Onward(y)
  BY <1>1 DEF Onward
<1>9. QED
  BY <1>1, <1>6, <1>7, <1>8, Types, EmptyOK

-----------------------------------------------------------------------------
(* After the fetch. *)
LEMMA EncodingOK ==
  ASSUME HelperIInv, reader_start \/ got_parameters \/ finish_hashing
  PROVE  HelperIInv'
<1>1. uh \in UhType
  BY Types
<1>2. \E p \in {"params", "encoding", "closing"} : uh' = [uh EXCEPT !.phase = p]
  BY DEF reader_start, got_parameters, finish_hashing
<1>3. /\ uh' \in UhType /\ uh'.phase \in {"params", "encoding", "closing"}
      /\ uh'.readers = uh.readers /\ uh'.have = uh.have
  BY Zenon, ZenonT(60), <1>1, <1>2 DEF UhType, Phase
<1>4. uh.phase \in {"fetched", "params", "encoding"} /\ UNCHANGED <<disk, cl, last>>
  BY DEF reader_start, got_parameters, finish_hashing
<1>5. QED
  BY <1>3, <1>4, LaterOK

LEMMA HashesOK ==
  ASSUME HelperIInv, parameters_failed \/ close_failed
  PROVE  HelperIInv'
<1>1. uh \in UhType /\ uh.hashes \in Seq(Client \X Nat)
  BY Types
<1>2. CASE upload_failed
  BY <1>2, UploadFailedOK DEF parameters_failed, close_failed
<1>3. CASE ~ upload_failed
  <2>1. /\ uh' = [uh EXCEPT !.hashes = Tail(uh.hashes)] /\ uh.hashes # <<>>
        /\ UNCHANGED <<disk, cl, last>> /\ uh.phase \in {"params", "closing"}
    <3>1. CASE parameters_failed
      BY <1>3, <3>1 DEF parameters_failed, without_first
    <3>2. CASE close_failed
      BY <3>2 DEF close_failed, without_first
    <3>3. QED
      BY <3>1, <3>2
  <2>2. Tail(uh.hashes) \in Seq(Client \X Nat)
    BY <1>1, <2>1
  <2>3. uh' \in UhType /\ uh'.phase = uh.phase /\ uh'.readers = uh.readers /\ uh'.have = uh.have
    BY Zenon, ZenonT(60), <1>1, <2>1, <2>2 DEF UhType
  <2>4. QED
    BY <2>1, <2>3, LaterOK
<1>4. QED
  BY <1>2, <1>3

LEMMA QuietOK ==
  ASSUME HelperIInv, UNCHANGED helperVars
  PROVE  HelperIInv'
<1>1. UNCHANGED <<uh, disk, cl, last>>
  BY DEF helperVars
<1>2. \A y \in Client : Onward(y)
  BY <1>1 DEF Onward
<1>3. QED
  BY <1>1, <1>2, Types, ClientsOK

LEMMA StepOK == HelperIInv /\ [HelperNext]_helperVars => HelperIInv'
<1> SUFFICES ASSUME HelperIInv, [HelperNext]_helperVars PROVE HelperIInv'
  OBVIOUS
<1>1. CASE UNCHANGED helperVars
  BY <1>1, QuietOK
<1>2. ASSUME NEW x \in Client, upload_chk(x) \/ upload(x) \/ Disconnect(x) PROVE HelperIInv'
  BY <1>2, UploadChkOK, UploadOK, DisconnectOK
<1>3. ASSUME NEW x \in Client, NEW found \in BOOLEAN, did_chk_check(x, found) PROVE HelperIInv'
  BY <1>3, DidCheckOK
<1>4. CASE fetcher_start \/ got_size \/ got_data \/ fetch_done
  BY <1>4, FetcherStartOK, GotSizeOK, GotDataOK, FetchDoneOK
<1>5. CASE reader_start \/ got_parameters \/ finish_hashing
  BY <1>5, EncodingOK
<1>6. CASE parameters_failed \/ close_failed
  BY <1>6, HashesOK
<1>7. CASE encoding_failed
  BY <1>7, UploadFailedOK DEF encoding_failed
<1>8. ASSUME NEW flag \in BOOLEAN, fetch_failed(flag) \/ finished(flag) \/ Crash(flag) PROVE HelperIInv'
  BY <1>8, FetchFailedOK, FinishedOK, CrashOK
<1>9. CASE Quiet
  BY <1>9, QuietOK DEF Quiet
<1>10. QED
  BY Zenon, ZenonT(60), <1>1, <1>2, <1>3, <1>4, <1>5, <1>6, <1>7, <1>8, <1>9 DEF HelperNext

(* No client is asked to go back, while the first reader's call is made. *)
LEMMA BehindMeansNoSeek == HelperIInv => NoSeekBack
<1> SUFFICES ASSUME HelperIInv, uh.phase = "data", Alive(Head(uh.readers))
             PROVE  cl[Head(uh.readers)[1]].offset <= uh.have
  BY DEF NoSeekBack
<1>1. uh.readers # <<>> /\ uh.readers \in Seq(Client \X Nat) /\ uh.have \in Nat
  BY Types DEF HelperIInv, Fetching
<1>2. 1 \in 1..Len(uh.readers) /\ Head(uh.readers) = uh.readers[1]
  BY <1>1
<1>3. cl[uh.readers[1][1]].offset = 0 \/ cl[uh.readers[1][1]].offset <= uh.have
  BY <1>2 DEF HelperIInv, ReadersBehind
<1>4. QED
  BY <1>1, <1>2, <1>3

(* HelperIInv is inductive: it holds in every state of the helper.  The       *)
(* ciphertext in CHK_incoming is a prefix of the file and that in             *)
(* CHK_encoding the whole of it, through failing clients, resumed fetches and *)
(* restarts (offloaded.py, CHKCiphertextFetcher).                             *)
THEOREM CiphertextCorrect == HelperSpec => []CiphertextWhole
<1>1. HelperIInv => CiphertextWhole
  BY DEF HelperIInv
<1>2. QED
  BY <1>1, InitOK, StepOK, PTL DEF HelperSpec

(* remote_read_encrypted of upload.py cannot seek backwards, and is never    *)
(* asked to, whichever client the fetch is resumed from.                      *)
THEOREM NeverSeeksBack == HelperSpec => []NoSeekBack
BY InitOK, StepOK, BehindMeansNoSeek, PTL DEF HelperSpec

-----------------------------------------------------------------------------
(* What the ciphertext on disk and the count of restarts can do in a step. *)
SpentType == spent \in [faults : Nat, crashes : Nat]

LEMMA SpentOK ==
  ASSUME SpentType, [HelperNext]_helperVars
  PROVE  SpentType' /\ spent'.crashes >= spent.crashes
<1>1. \/ spent' = spent
      \/ spent' = [spent EXCEPT !.faults = @ + 1]
      \/ spent' = [spent EXCEPT !.crashes = @ + 1]
  <2>1. CASE UNCHANGED helperVars
    BY <2>1 DEF helperVars
  <2>2. ASSUME NEW x \in Client, \/ upload_chk(x) \/ upload(x) \/ Disconnect(x)
                                 \/ \E found \in BOOLEAN : did_chk_check(x, found)
        PROVE  spent' = spent \/ spent' = [spent EXCEPT !.faults = @ + 1]
    BY Zenon, ZenonT(60), <2>2 DEF upload_chk, upload, Disconnect, did_chk_check
  <2>3. CASE fetcher_start \/ got_size \/ got_data \/ fetch_done \/ reader_start \/ got_parameters
             \/ parameters_failed \/ finish_hashing \/ close_failed \/ encoding_failed
    BY Zenon, ZenonT(60), <2>3
       DEF fetcher_start, got_size, got_data, fetch_done, reader_start, got_parameters,
           parameters_failed, finish_hashing, close_failed, encoding_failed, Broken
  <2>4. ASSUME NEW flag \in BOOLEAN, fetch_failed(flag) \/ finished(flag) \/ Crash(flag)
        PROVE  \/ spent' = spent
               \/ spent' = [spent EXCEPT !.faults = @ + 1]
               \/ spent' = [spent EXCEPT !.crashes = @ + 1]
    BY Zenon, ZenonT(60), <2>4 DEF fetch_failed, finished, Crash, Broken
  <2>5. CASE Quiet
    BY <2>5 DEF Quiet, helperVars
  <2>6. QED
    BY Zenon, ZenonT(60), <2>1, <2>2, <2>3, <2>4, <2>5 DEF HelperNext
<1>2. QED
  BY <1>1 DEF SpentType

LEMMA OnDiskType ==
  ASSUME HelperIInv
  PROVE  OnDisk(disk) \in 0..Size
  BY Types, SizeAssumption DEF HelperIInv, CiphertextWhole, OnDisk, DiskType

(* A step that touches the ciphertext: it gets longer, or moves on whole, or *)
(* is on the servers, or its end was lost with the buffer.                   *)
LEMMA DiskSteps ==
  ASSUME HelperIInv, [HelperNext]_helperVars
  PROVE  \/ disk' = disk \/ got_size \/ got_data \/ fetch_done
         \/ \E flag \in BOOLEAN : finished(flag) \/ Crash(flag)
<1>1. CASE UNCHANGED helperVars
  BY <1>1 DEF helperVars
<1>2. ASSUME NEW x \in Client, \/ upload_chk(x) \/ upload(x) \/ Disconnect(x)
                               \/ \E found \in BOOLEAN : did_chk_check(x, found)
      PROVE  disk' = disk
  BY Zenon, ZenonT(60), <1>2 DEF upload_chk, upload, Disconnect, did_chk_check
<1>3. CASE fetcher_start \/ reader_start \/ got_parameters
           \/ parameters_failed \/ finish_hashing \/ close_failed \/ encoding_failed
  BY Zenon, ZenonT(60), <1>3
     DEF fetcher_start, reader_start, got_parameters, parameters_failed, finish_hashing,
         close_failed, encoding_failed, upload_failed
<1>4. ASSUME NEW flag \in BOOLEAN, fetch_failed(flag)
      PROVE  disk' = disk
  BY Zenon, ZenonT(60), <1>4 DEF fetch_failed, upload_failed
<1>5. CASE Quiet
  BY <1>5 DEF Quiet, helperVars
<1>6. QED
  BY Zenon, ZenonT(60), <1>1, <1>2, <1>3, <1>4, <1>5 DEF HelperNext

LEMMA KeptStep ==
  ASSUME HelperIInv, SpentType, [HelperNext]_helperVars
  PROVE  \/ OnDisk(disk') >= OnDisk(disk) - (spent'.crashes - spent.crashes)
         \/ grid' # "nothing"
<1>1. /\ spent.crashes \in Nat /\ spent'.crashes \in Nat /\ spent'.crashes >= spent.crashes
      /\ OnDisk(disk) \in 0..Size /\ Size \in Nat
  BY SpentOK, OnDiskType, SizeAssumption DEF SpentType
<1>2. CASE disk' = disk
  BY <1>1, <1>2
<1>3. CASE got_size
  <2>1. /\ disk'.encoding = disk.encoding
        /\ disk'.incoming = IF disk.incoming = NoFile THEN <<>> ELSE disk.incoming
    <3>1. disk \in DiskType
      BY Types
    <3>2. disk' = [disk EXCEPT !.incoming = IF disk.incoming = NoFile THEN <<>> ELSE disk.incoming]
      BY Zenon, ZenonT(60), <1>3 DEF got_size
    <3>3. QED
      BY <3>1, <3>2 DEF DiskType
  <2>2. <<>> # NoFile /\ Len(<<>>) = 0
    <3>1. <<>> \in Seq(Nat) /\ Len(<<>>) = 0
      OBVIOUS
    <3>2. QED
      BY Zenon, ZenonT(60), <3>1, NoFileAssumption
  <2>3. OnDisk(disk') = OnDisk(disk)
    BY <2>1, <2>2 DEF OnDisk
  <2>4. QED
    BY <1>1, <2>3
<1>4. CASE got_data
  <2>1. /\ disk \in DiskType /\ disk.incoming # NoFile /\ uh.have \in Nat
        /\ disk'.encoding = disk.encoding
        /\ disk'.incoming = Append(disk.incoming, uh.have + 1)
    <3>1. disk \in DiskType /\ uh.have \in Nat
      BY Types
    <3>2. /\ uh.phase = "data"
          /\ disk' = [disk EXCEPT !.incoming = Append(disk.incoming, uh.have + 1)]
      BY Zenon, ZenonT(60), <1>4 DEF got_data
    <3>3. disk.incoming # NoFile
      BY Zenon, ZenonT(60), <3>2 DEF HelperIInv, Fetching
    <3>4. QED
      BY <3>1, <3>2, <3>3 DEF DiskType
  <2>2. disk.incoming \in Seq(Nat) /\ disk'.incoming \in Seq(Nat) /\ disk'.incoming # NoFile
        /\ Len(disk'.incoming) = Len(disk.incoming) + 1
    <3>1. disk.incoming \in Seq(Nat)
      BY <2>1 DEF DiskType
    <3>2. /\ Append(disk.incoming, uh.have + 1) \in Seq(Nat)
          /\ Len(Append(disk.incoming, uh.have + 1)) = Len(disk.incoming) + 1
      BY <2>1, <3>1
    <3>3. QED
      BY Zenon, ZenonT(60), <2>1, <3>1, <3>2, NoFileAssumption
  <2>3. OnDisk(disk') >= OnDisk(disk)
    BY <1>1, <2>1, <2>2 DEF OnDisk
  <2>4. OnDisk(disk') \in Nat
    BY <1>1, <2>1, <2>2 DEF OnDisk
  <2>5. QED
    BY <1>1, <2>3, <2>4
<1>5. CASE fetch_done
  <2>1. disk.incoming # NoFile /\ disk'.encoding = disk.incoming
    BY <1>5 DEF fetch_done, HelperIInv, Fetching
  <2>2. OnDisk(disk') = Size
    BY <2>1 DEF OnDisk
  <2>3. QED
    BY <1>1, <2>2
<1>6. ASSUME NEW flag \in BOOLEAN, finished(flag)
      PROVE  grid' # "nothing"
  BY <1>6 DEF finished
<1>7. ASSUME NEW flag \in BOOLEAN, Crash(flag)
      PROVE  OnDisk(disk') >= OnDisk(disk) - (spent'.crashes - spent.crashes)
  <2>1. CASE disk' = disk
    BY <1>1, <2>1
  <2>2. CASE disk' # disk
    <3>1. /\ disk' = [disk EXCEPT !.incoming = unbuffered(@)]
          /\ uh.phase = "data" /\ disk.incoming # <<>>
          /\ spent' = [spent EXCEPT !.crashes = @ + 1]
      BY <1>7, <2>2 DEF Crash
    <3>2. disk \in DiskType /\ disk.incoming # NoFile
      BY <3>1, Types DEF HelperIInv, Fetching
    <3>3. disk.incoming \in Seq(Nat) /\ spent'.crashes = spent.crashes + 1
      BY <3>1, <3>2 DEF DiskType, SpentType
    <3>4. unbuffered(disk.incoming) \in Seq(Nat) /\ Len(unbuffered(disk.incoming)) = Len(disk.incoming) - 1
      BY <3>1, <3>3 DEF unbuffered
    <3>5. /\ disk'.encoding = disk.encoding /\ disk'.incoming = unbuffered(disk.incoming)
          /\ disk'.incoming # NoFile
      BY <3>1, <3>2, <3>4, NoFileAssumption DEF DiskType
    <3>6. OnDisk(disk') >= OnDisk(disk) - 1 /\ OnDisk(disk') \in Int
      BY <1>1, <3>2, <3>3, <3>4, <3>5 DEF OnDisk
    <3>7. QED
      BY <1>1, <3>3, <3>6
  <2>3. QED
    BY <2>1, <2>2
<1>8. QED
  BY Zenon, ZenonT(60), <1>2, <1>3, <1>4, <1>5, <1>6, <1>7, DiskSteps

(* Ciphertext that the helper has on disk is given up only when the file is  *)
(* on the storage servers, and a restart costs at most the chunk that was    *)
(* buffered: no failure of a client, of the fetch or of the encoding removes *)
(* CHK_incoming or CHK_encoding (offloaded.py, _failed and _finished).       *)
THEOREM KeptCorrect == HelperSpec => CiphertextKept
<1>1. HelperInit => SpentType
  BY DEF HelperInit, SpentType
<1>2. SpentType /\ [HelperNext]_helperVars => SpentType'
  BY SpentOK
<1>3. HelperIInv /\ SpentType /\ [HelperNext]_helperVars
        => [OnDisk(disk') >= OnDisk(disk) - (spent'.crashes - spent.crashes) \/ grid' # "nothing"]_helperVars
  BY KeptStep
<1>4. QED
  BY <1>1, <1>2, <1>3, InitOK, StepOK, PTL DEF HelperSpec, CiphertextKept

=============================================================================
