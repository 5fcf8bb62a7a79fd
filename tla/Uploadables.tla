----------------------------- MODULE Uploadables -----------------------------
(***************************************************************************)
(* From a file to its cap (immutable/upload.py): Uploader.upload, the      *)
(* FileHandle it is given, EncryptAnUploadable, which reads and encrypts   *)
(* it piece by piece, the LiteralUploader of small files, and the helper   *)
(* that looks whether the file is in the grid (CHKCheckerAndUEBFetcher of  *)
(* offloaded.py) and goes on where an earlier upload was cut off.  Keys    *)
(* are convergent or random.  Encrypting keeps the key, the position and   *)
(* the byte: AES-CTR, whose counter runs with the bytes encrypted.         *)
(***************************************************************************)
EXTENDS Integers, Sequences, FiniteSets

CONSTANTS Uploads, Servers, TotalShares,
          Files,          \* what is uploaded: sequences of bytes
          SegmentSizes,   \* the clients' max_segment_size
          k, CHUNKSIZE, FetchSize, URI_LIT_SIZE_THRESHOLD

VARIABLES up,       \* each upload
          grid,     \* the shares: <<key, server, shnum>> -> ciphertext, as written
          incoming, \* ciphertext the helper has of each key
          edited    \* ghost: keys of files that were edited while they were uploaded

uploadableVars == <<up, grid, incoming, edited>>

NoKey == [conv |-> FALSE, of |-> << >>, segsize |-> 0, random |-> 0]
NoCap == [type |-> "none", data |-> << >>, key |-> NoKey, size |-> 0]
NoUpload == [st |-> "idle", contents |-> << >>, was |-> << >>, convergent |-> FALSE, helper |-> FALSE,
             max |-> 0, size |-> 0, key |-> NoKey, read |-> 0, counter |-> 0, ct |-> << >>, offset |-> 0,
             leaves |-> << >>, open |-> << >>, cap |-> NoCap, sharemap |-> {}]
NoShares == [x \in {} |-> << >>]

UploadsInit ==
  /\ up = [u \in Uploads |-> NoUpload]
  /\ grid = NoShares /\ incoming = NoShares /\ edited = {}

Become(u, r) == up' = [up EXCEPT ![u] = r]
Lesser(a, b) == IF a < b THEN a ELSE b

(* get_all_encoding_parameters: a multiple of k, no larger than needed.    *)
get_all_encoding_parameters(r) == ((Lesser(r.max, r.size) + k - 1) \div k) * k

-----------------------------------------------------------------------------
(* The file, piece by piece *)

(* _update_segment_hash: the hasher of a segment is closed when it is full *)
(* and what is left of the chunk goes to the next one.                     *)
_get_segment_hasher(r) == get_all_encoding_parameters(r) - Len(r.open)

RECURSIVE _update_segment_hash(_, _)
_update_segment_hash(r, chunk) ==
  LET left == _get_segment_hasher(r)
      this == Lesser(Len(chunk), left)
      more == r.open \o SubSeq(chunk, 1, this)
  IN IF chunk = << >> THEN r
     ELSE _update_segment_hash(
            IF this = left THEN [r EXCEPT !.leaves = Append(@, more), !.open = << >>] ELSE [r EXCEPT !.open = more],
            SubSeq(chunk, this + 1, Len(chunk)))

encrypt_data(key, counter, data) == [i \in 1..Len(data) |-> <<key, counter + i, data[i]>>]

(* _hash_and_encrypt_plaintext: what is skipped is encrypted too, for the  *)
(* counter to move on.                                                     *)
_hash_and_encrypt_plaintext(r, data, hash_only) ==
  LET h == _update_segment_hash(r, data)
      ct == encrypt_data(r.key, r.counter, data)
  IN [h EXCEPT !.counter = @ + Len(data), !.ct = IF hash_only THEN @ ELSE @ \o ct]

(* FileHandle.read: short at the end of the file.                          *)
read(r, length) == SubSeq(r.contents, r.read + 1, Lesser(r.read + length, Len(r.contents)))

(* _read_encrypted until the accumulator expects no more: it counts what   *)
(* was asked for, not what there was.                                      *)
RECURSIVE read_encrypted(_, _, _)
read_encrypted(r, remaining, hash_only) ==
  LET size == Lesser(remaining, CHUNKSIZE)
      data == read(r, size)
      e == [_hash_and_encrypt_plaintext(r, data, hash_only) EXCEPT !.read = @ + Len(data)]
  IN IF remaining = 0 THEN r ELSE read_encrypted(e, remaining - size, hash_only)

(* remote_read_encrypted: skips ahead to the offset, then reads.           *)
remote_read_encrypted(r, offset, length) ==
  LET at == IF offset > r.offset
            THEN [read_encrypted(r, offset - r.offset, TRUE) EXCEPT !.offset = offset] ELSE r
      e == read_encrypted([at EXCEPT !.ct = << >>], length, FALSE)
  IN [e EXCEPT !.offset = @ + Len(e.ct)]

read_this_many_bytes(r) == read(r, r.size)

LiteralUploader(r) ==
  [r EXCEPT !.st = "done", !.cap = [NoCap EXCEPT !.type = "LIT", !.data = read_this_many_bytes(r), !.size = r.size]]

-----------------------------------------------------------------------------
(* Uploader.upload *)

upload(u) ==
  /\ up[u].st = "idle"
  /\ \E c \in Files, conv \in BOOLEAN, max \in SegmentSizes, h \in BOOLEAN :
       LET r == [NoUpload EXCEPT !.contents = c, !.was = c, !.convergent = conv, !.max = max, !.helper = h,
                                 !.size = Len(c)]
       IN Become(u, IF Len(c) <= URI_LIT_SIZE_THRESHOLD THEN LiteralUploader(r)
                    ELSE [r EXCEPT !.st = "key"])
  /\ UNCHANGED <<grid, incoming, edited>>

(* _get_encryption_key_convergent: a hash of the parameters and of all of  *)
(* the file, which is read once for this.                                  *)
_get_encryption_key_convergent(r) ==
  [NoKey EXCEPT !.conv = TRUE, !.of = r.contents, !.segsize = get_all_encoding_parameters(r)]

_get_encryption_key_random(u) == [NoKey EXCEPT !.random = u]

(* _get_encryptor, and with it the storage index.                          *)
_get_encryptor(u) ==
  /\ up[u].st = "key"
  /\ Become(u, [up[u] EXCEPT !.st = IF up[u].helper THEN "ask" ELSE "reading",
                             !.key = IF up[u].convergent THEN _get_encryption_key_convergent(up[u])
                                     ELSE _get_encryption_key_random(u)])
  /\ UNCHANGED <<grid, incoming, edited>>

(* Someone edits the file between its hashing and the end of its reading.  *)
Edited(u) ==
  /\ up[u].st = "reading" /\ up[u].contents = up[u].was
  /\ \E c \in Files : c # up[u].was /\ Len(c) = Len(up[u].was) /\ Become(u, [up[u] EXCEPT !.contents = c])
  /\ edited' = edited \cup {up[u].key}
  /\ UNCHANGED <<grid, incoming>>

(* CHKUploader: the encoder asks for a segment at a time.                  *)
ReadSegment(u) ==
  LET r == up[u] IN
  /\ r.st = "reading" /\ ~r.helper
  /\ \E e \in {read_encrypted(r, get_all_encoding_parameters(r), FALSE)} :
       Become(u, [e EXCEPT !.st = IF Len(e.ct) = r.size THEN "read" ELSE @])
  /\ UNCHANGED <<grid, incoming, edited>>

(* turn_verifycap_into_read_cap.                                           *)
put_readcap_into_results(r, sharemap) ==
  [r EXCEPT !.st = "done", !.sharemap = sharemap,
            !.cap = [NoCap EXCEPT !.type = "CHK", !.key = r.key, !.size = r.size]]

ShareOf(key) == {x \in DOMAIN grid : x[1] = key}

(* The shares are pushed (external: ChkUpload): each of them is on some    *)
(* server or was there already, and a share that is there stays as it is.  *)
Pushed(u, ct) ==
  \E n \in 1..TotalShares : \E put \in [1..n -> Servers] :
    LET r == up[u]
        new == {<<r.key, put[sh], sh>> : sh \in 1..n} \ DOMAIN grid
    IN /\ grid' = [x \in DOMAIN grid \cup new |-> IF x \in DOMAIN grid THEN grid[x] ELSE ct]
       /\ Become(u, put_readcap_into_results(r, {<<sh, put[sh]>> : sh \in 1..n}))

PushedDirectly(u) ==
  up[u].st = "read" /\ ~up[u].helper /\ Pushed(u, up[u].ct) /\ UNCHANGED <<incoming, edited>>

-----------------------------------------------------------------------------
(* With a helper *)

Found(key, answering) == {<<x[3], x[2]>> : x \in {y \in ShareOf(key) : y[2] \in answering}}

(* CHKCheckerAndUEBFetcher: the servers that answer are asked; one of the  *)
(* shares is read for the UEB, which may fail; all of the shares must be   *)
(* there.                                                                  *)
_done(key, answering, ueb) ==
  /\ ueb /\ Found(key, answering) # {}
  /\ Cardinality({f[1] : f \in Found(key, answering)}) >= TotalShares

(* _build_verifycap of a file that the helper has found in the grid.  What *)
(* it asserts of the UEB holds: the key depends on it.                     *)
_build_verifycap(u, sharemap) == Become(u, put_readcap_into_results(up[u], sharemap))

check(u) ==
  /\ up[u].st = "ask"
  /\ \E answering \in SUBSET Servers, ueb \in BOOLEAN :
       IF _done(up[u].key, answering, ueb) THEN _build_verifycap(u, Found(up[u].key, answering))
       ELSE Become(u, [up[u] EXCEPT !.st = "reading"])
  /\ UNCHANGED <<grid, incoming, edited>>

Have(key) == IF key \in DOMAIN incoming THEN incoming[key] ELSE << >>

(* The helper fetches the next piece from one reader at a time (the rest   *)
(* of CHKCiphertextFetcher is in UploadHelper).                            *)
Fetch(u) ==
  LET r == up[u]
      have == Have(r.key)
      length == Lesser(r.size - Len(have), FetchSize)
  IN /\ r.st = "reading" /\ r.helper /\ Len(have) < r.size
     /\ Len(have) >= r.offset
     /\ \E e \in {remote_read_encrypted(r, Len(have), length)} :
          /\ Become(u, e)
          /\ incoming' = [x \in DOMAIN incoming \cup {r.key} |-> IF x = r.key THEN have \o e.ct ELSE incoming[x]]
     /\ UNCHANGED <<grid, edited>>

(* The client is cut off; what was fetched stays with the helper.          *)
CutOff(u) ==
  /\ up[u].st = "reading" /\ up[u].helper
  /\ Become(u, [NoUpload EXCEPT !.st = "failed"])
  /\ UNCHANGED <<grid, incoming, edited>>

(* The helper has it all, and encodes it.                                  *)
PushedByHelper(u) ==
  LET r == up[u]
  IN /\ r.st = "reading" /\ r.helper /\ Len(Have(r.key)) = r.size
     /\ Pushed(u, Have(r.key))
     /\ incoming' = [x \in DOMAIN incoming \ {r.key} |-> incoming[x]]
     /\ UNCHANGED edited

UploadsNext ==
  \E u \in Uploads :
    \/ upload(u) \/ _get_encryptor(u) \/ Edited(u) \/ ReadSegment(u) \/ PushedDirectly(u)
    \/ check(u) \/ Fetch(u) \/ CutOff(u) \/ PushedByHelper(u)

UploadsSpec == UploadsInit /\ [][UploadsNext]_uploadableVars

-----------------------------------------------------------------------------
Decrypted(ct, key) ==
  [i \in 1..Len(ct) |-> IF ct[i][1] = key /\ ct[i][2] = i THEN ct[i][3] ELSE 0]

(* The cap that upload returns leads to the file: a literal cap holds it,  *)
(* a CHK cap has a share in the grid, and every share under its storage    *)
(* index decrypts to the file, whichever chunks it was read in, wherever   *)
(* an earlier upload was cut off and whoever uploaded it before            *)
(* (EncryptAnUploadable, remote_read_encrypted).  Nothing is said of a     *)
(* file that was edited between its two readings.                          *)
CapLeadsToFile ==
  \A u \in Uploads : up[u].st = "done" =>
    LET r == up[u]
    IN /\ r.cap.size = Len(r.was)
       /\ IF Len(r.was) <= URI_LIT_SIZE_THRESHOLD THEN r.cap.type = "LIT" /\ r.cap.data = r.was
          ELSE /\ r.cap.type = "CHK" /\ ShareOf(r.key) # {}
               /\ r.key \notin edited => \A x \in ShareOf(r.key) : Decrypted(grid[x], r.key) = r.was

(* Convergent uploads of one file with the same parameters give one cap,   *)
(* and uploads of different files, or with segments of different sizes,    *)
(* never share a storage index.                                            *)
Converge ==
  \A u, v \in Uploads : (up[u].cap.type = "CHK" /\ up[v].cap.type = "CHK" /\ u # v) =>
    (up[u].cap = up[v].cap <=>
      /\ up[u].convergent /\ up[v].convergent /\ up[u].was = up[v].was
      /\ get_all_encoding_parameters(up[u]) = get_all_encoding_parameters(up[v]))

(* The plaintext leaves are the segments of the file, as far as it was     *)
(* read, across chunks and skips (_update_segment_hash).                   *)
LeavesAreSegments ==
  \A u \in Uploads : LET r == up[u] seg == get_all_encoding_parameters(r) IN
    (r.key # NoKey /\ r.contents = r.was) =>
      /\ \A i \in 1..Len(r.leaves) : r.leaves[i] = SubSeq(r.was, (i - 1) * seg + 1, i * seg)
      /\ r.open = SubSeq(r.was, Len(r.leaves) * seg + 1, r.read)

UploadsExact == CapLeadsToFile /\ Converge /\ LeavesAreSegments
=============================================================================
