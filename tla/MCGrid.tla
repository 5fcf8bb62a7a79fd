------------------------------- MODULE MCGrid -------------------------------
(***************************************************************************)
(* What holds a grid together, one component at a time: how files are      *)
(* written, read, laid out and checked, how clients hear of servers,       *)
(* connect to them and may use them, the HTTP storage protocol and the     *)
(* crawlers of a server.  The variable part, which never changes, says     *)
(* which of the fifteen small instances a behaviour is about.              *)
(***************************************************************************)
EXTENDS Integers, Sequences, FiniteSets

CONSTANT NoShare

VARIABLES part,
  shares, read, readers, remaining, active, answers, current, written, paused, stopped,
  phase, corrupt, marked, advised, pauses,
  kind, share, w, latest,
  grid, up, verify, buckets, verdict, cr, prr, step, wasGood, wasBad, left,
  structure, tree, sp, wanted, ds, cells,
  sdmf, mdmf, recent, updating, want, stale, rerun, update_left,
  chk_file, wbp, bucket, rbp, lost,
  uploads, placed, incoming, edited,
  slots, ck

retrieveVars   == <<shares, read, readers, remaining, active, answers, current, written, paused,
                    stopped, phase, corrupt, marked, advised, pauses>>
mutableVars    == <<kind, share, w, latest>>
checkVars      == <<grid, up, verify, buckets, verdict, cr, prr, step, wasGood, wasBad, left>>
structureVars  == <<structure, tree, sp, wanted, ds, cells>>
updateVars     == <<sdmf, mdmf, recent, updating, want, stale, rerun, update_left>>
layoutVars     == <<chk_file, wbp, bucket, rbp, lost>>
uploadableVars == <<uploads, placed, incoming, edited>>
mcheckVars     == <<slots, ck>>
filesVars      == <<part, retrieveVars, mutableVars, checkVars, structureVars, updateVars,
                    layoutVars, uploadableVars, mcheckVars>>

-----------------------------------------------------------------------------
(* Ranges of a mutable file of two segments, the second full or short; a   *)
(* 2-of-N file, up to two shares of which turn out bad.                    *)
Range(length, offset, size) == [length |-> length, offset |-> offset, size |-> size]
Ranges == {r \in {Range(l, o, z) : l \in {5, 6}, o \in {0, 1, 4}, z \in {1, 3, 4, 5, 6}} :
             r.offset + r.size <= r.length}
Read == INSTANCE Retrieve WITH
  Placements <- {{<<0, "a">>, <<1, "b">>, <<2, "c">>}, {<<0, "a">>, <<1, "a">>, <<2, "b">>, <<3, "c">>},
                 {<<0, "a">>, <<1, "b">>, <<0, "c">>, <<2, "c">>}},
  required_shares <- 2, segment_size <- 3, Reads <- Ranges, MaxBad <- 2, MaxPauses <- 1

(* Two writes to an SDMF or MDMF file of up to three segments and a bit,   *)
(* one of which meets another writer.                                      *)
Update == INSTANCE MutableUpdate WITH
  segment_size <- 3, Sizes <- {0, 1, 4}, MaxLength <- 10, MaxWrites <- 2, MaxCollisions <- 1,
  file <- mdmf, up <- updating, left <- update_left

(* SDMF and MDMF shares of files that end within their second segment,     *)
(* with fields of one or two cells, written in any order and then updated. *)
Layout == INSTANCE MutableLayout WITH
  required_shares <- 2, segment_size <- 4, Lengths <- {5, 7}, Sizes <- {1, 2}, MaxCalls <- 7, MaxVersions <- 2

(* Immutable shares of one to three blocks, the last full or short, in the *)
(* fields of version 1 and of version 2; batches that end within a field.  *)
ChkFiles == [data_size : {3, 6, 9}, block_size : {3, 4}, num_share_hashes : {2}, uri_extension_size : {2}]
Chk == INSTANCE ImmutableLayout WITH
  Files <- ChkFiles, batch_size <- 5, FieldLimit <- 20, MaxLost <- 1, f <- chk_file

(* Two uploads, of the same or of two files that begin alike, by clients   *)
(* with different segment sizes, directly or through a helper.             *)
Bytes == {<<1>>, <<1, 2, 3>>, <<1, 2, 4>>, <<1, 2, 3, 4, 5>>}
Source == INSTANCE Uploadables WITH
  Uploads <- {1, 2}, Servers <- {"a", "b"}, TotalShares <- 2, Files <- Bytes, SegmentSizes <- {2, 4},
  k <- 2, CHUNKSIZE <- 3, FetchSize <- 2, URI_LIT_SIZE_THRESHOLD <- 1,
  up <- uploads, grid <- placed

(* Two servers, two shares of which one is needed; at first one or two are *)
(* good and at most one is damaged.                                        *)
Damages == {"version", "ueb", "share hashes", "block hashes", "crypttext hashes", "block"}
Hold(g, what) == {p \in {"a", "b"} \X {0, 1} : g[p[1]][p[2]] \in what}
Grids == {g \in [{"a", "b"} -> [{0, 1} -> {"", "good", "version", "crypttext hashes"}]] :
            /\ Cardinality(Hold(g, Damages)) <= 1
            /\ Cardinality(Hold(g, {"good"})) \in {1, 2}}

(* A 2-of-2 mutable file of up to two versions, a share of which is bad.   *)
Held(n, good) == [version |-> [seq |-> n, hash |-> 1], good |-> good]

Check == INSTANCE Checkers WITH
  Servers <- {"a", "b"}, total_shares <- 2, needed_shares <- 1, Shares0 <- Grids,
  MaxRot <- 1, MaxLost <- 1, shares <- grid, phase <- step,
  serverlist <- <<"a", "b">>, required_shares <- 2,
  Shares <- {Held(1, TRUE), Held(1, FALSE), Held(2, TRUE)}, MaxLosses <- 1, grid <- slots

Parts == INSTANCE Structures WITH
  NumLeaves <- 3, MaxHashes <- 3, LastByte <- 7, LastCell <- 4, MaxChunk <- 3, Byte <- {0, 1},
  part <- structure

-----------------------------------------------------------------------------
FileParts == {"retrieve", "update", "mutable layout", "layout", "uploadables", "checker",
              "mutable check", "structures"}

FilesInit ==
  /\ IF part = "retrieve" THEN Read!RetrieveInit
     ELSE /\ shares = 0 /\ read = 0 /\ readers = 0 /\ remaining = 0 /\ active = 0 /\ answers = 0
          /\ current = 0 /\ written = 0 /\ paused = 0 /\ stopped = 0 /\ phase = 0 /\ corrupt = 0
          /\ marked = 0 /\ advised = 0 /\ pauses = 0
  /\ IF part = "update" THEN Update!UpdateInit
     ELSE /\ sdmf = 0 /\ mdmf = 0 /\ recent = 0 /\ updating = 0 /\ want = 0 /\ stale = 0
          /\ rerun = 0 /\ update_left = 0
  /\ IF part = "mutable layout" THEN Layout!LayoutInit
     ELSE /\ kind = 0 /\ share = 0 /\ w = 0 /\ latest = 0
  /\ IF part = "layout" THEN Chk!LayoutInit
     ELSE /\ chk_file = 0 /\ wbp = 0 /\ bucket = 0 /\ rbp = 0 /\ lost = 0
  /\ IF part = "uploadables" THEN Source!UploadsInit
     ELSE /\ uploads = 0 /\ placed = 0 /\ incoming = 0 /\ edited = 0
  /\ IF part = "checker" THEN Check!CheckInit
     ELSE /\ grid = 0 /\ up = 0 /\ verify = 0 /\ buckets = 0 /\ verdict = 0 /\ cr = 0 /\ prr = 0
          /\ step = 0 /\ wasGood = 0 /\ wasBad = 0 /\ left = 0
  /\ IF part = "mutable check" THEN Check!MutableCheckInit ELSE slots = 0 /\ ck = 0
  /\ IF part = "structures" THEN Parts!Init
     ELSE /\ structure = 0 /\ tree = 0 /\ sp = 0 /\ wanted = 0 /\ ds = 0 /\ cells = 0

(* The other components of this module stay as they are.                   *)
FilesExcept(p) ==
  /\ part = p /\ UNCHANGED part
  /\ IF p = "retrieve" THEN TRUE ELSE UNCHANGED retrieveVars
  /\ IF p = "update" THEN TRUE ELSE UNCHANGED updateVars
  /\ IF p = "mutable layout" THEN TRUE ELSE UNCHANGED mutableVars
  /\ IF p = "layout" THEN TRUE ELSE UNCHANGED layoutVars
  /\ IF p = "uploadables" THEN TRUE ELSE UNCHANGED uploadableVars
  /\ IF p = "checker" THEN TRUE ELSE UNCHANGED checkVars
  /\ IF p = "mutable check" THEN TRUE ELSE UNCHANGED mcheckVars
  /\ IF p = "structures" THEN TRUE ELSE UNCHANGED structureVars

FilesNext ==
  \/ FilesExcept("retrieve") /\ Read!RetrieveNext
  \/ FilesExcept("update") /\ Update!UpdateNext
  \/ FilesExcept("mutable layout") /\ Layout!LayoutNext
  \/ FilesExcept("layout") /\ Chk!LayoutNext
  \/ FilesExcept("uploadables") /\ Source!UploadsNext
  \/ FilesExcept("checker") /\ Check!CheckNext
  \/ FilesExcept("mutable check") /\ Check!MutableCheckNext
  \/ FilesExcept("structures") /\ Parts!Next

-----------------------------------------------------------------------------
(* Reading and updating a mutable file touch exactly the range asked for.  *)
(* Retrieve: a consumer gets the bytes of its range, in order and without  *)
(* gaps, however often the download is paused and whichever shares turn    *)
(* out bad (ExactlyTheRange: _set_segment), and NotEnoughSharesError is    *)
(* raised only when fewer than k good shares are left (FailsOnlyWhenShort: *)
(* _activate_enough_servers).  MutableUpdate: an update that ends well     *)
(* leaves the bytes outside its range alone, and its hash tree is that of  *)
(* the segments (UpdatesExactly: TransformingUploadable, Publish.update).  *)
RangesExact ==
  /\ part = "retrieve" => Read!ExactlyTheRange /\ Read!FailsOnlyWhenShort
  /\ part = "update" => Update!UpdatesExactly

(* A reader that Retrieve has marked bad is not used again in the same     *)
(* download, as the docstring of _mark_bad_share says (MarkedNotUsed of    *)
(* Retrieve); it is when another server holds a share of that number.      *)
MarkedNotUsed == part = "retrieve" => Read!MarkedNotUsed

(* What is written to shares is read from them.  MutableLayout: what the   *)
(* write proxies put, in whatever order the calls were allowed, the read   *)
(* proxy finds in each field, also after an update (ReadsBack).            *)
(* ImmutableLayout: the same for WriteBucketProxy, whose writes are        *)
(* batched, and ReadBucketProxy (SharesReadBack).  Uploadables: the shares *)
(* that an upload leaves decrypt to the file under the cap it returns,     *)
(* also when uploads of one file meet on a server or at the helper         *)
(* (UploadsExact).                                                         *)
SharesReadBack ==
  /\ part = "mutable layout" => Layout!ReadsBack
  /\ part = "layout" => Chk!SharesReadBack
  /\ part = "uploadables" => Source!UploadsExact

(* The structures under a download: an IncompleteHashTree holds no hash    *)
(* that is not the true one (OnlyTrueHashes), Spans and DataSpans are the  *)
(* sets and the bytes they stand for (SpansExact, DataExact).              *)
StructuresExact ==
  part = "structures" => Parts!OnlyTrueHashes /\ Parts!SpansExact /\ Parts!DataExact

-----------------------------------------------------------------------------
(* The servers, and what clients know of them.                             *)
VARIABLES
  pub, cli, intro, link, alive, wire, late, back, intro_left,
  servers, descs, high, listeners, fired, trigger, breaks,
  config, configured, certs, announced, now, issued,
  upload, stored, cl, net, push_left,
  mutable, http_share, http_read, got, read_left,
  slot, advice, call, slot_seen, applied, calls, slot_breaks,
  crawler, disk, mem, state_file, running, seen, stable, used

introVars   == <<pub, cli, intro, link, alive, wire, late, back, intro_left>>
farmVars    == <<servers, descs, high, listeners, fired, trigger, breaks>>
gmVars      == <<config, configured, certs, announced, now, issued>>
pushVars    == <<upload, stored, cl, net, push_left>>
pullVars    == <<mutable, http_share, http_read, got, read_left>>
slotVars    == <<slot, advice, call, slot_seen, applied, calls, slot_breaks>>
crawlerVars == <<crawler, disk, mem, state_file, running, seen, stable, used>>
mcVars      == <<filesVars, introVars, farmVars, gmVars, pushVars, pullVars, slotVars, crawlerVars>>

-----------------------------------------------------------------------------
(* One server that publishes twice, one client; connections are lost and   *)
(* each of the three processes may be restarted.                           *)
Intro == INSTANCE Introducer WITH
  Publishers <- {"a"}, Subscriber <- "c", MaxSeqnum <- 2, MaxLosses <- 2, MaxRestarts <- 1,
  left <- intro_left

(* Three servers, one of them static; announcements change the protocol.   *)
(* A trusted and another grid manager, one name that changes its key.      *)
Ann(s, n, p) == [server |-> s, contents |-> n, protocol |-> p]
Farm == INSTANCE StorageFarm WITH
  Servers <- {"a", "b", "c"}, Static <- {"c"}, NURLs <- {1, 2}, Thresholds <- {1, 2},
  Announcements <- {Ann("a", 1, "http"), Ann("a", 2, "foolscap"), Ann("b", 1, "http"),
                    Ann("b", 2, "none"), Ann("c", 1, "http")},
  MaxDescs <- 3, MaxBreaks <- 2,
  Names <- {"n"}, Keys <- {"j", "k"}, Managers <- {"m", "u"}, Trusted <- {"m"}, Days <- {1},
  MaxCerts <- 2, MaxDay <- 2, files <- configured, disk <- certs

(* Two clients upload the same share in two chunks; calls are cut off.     *)
(* Reads that end within, at and beyond the end of a share, which a        *)
(* mutable one may reach meanwhile.                                        *)
Http == INSTANCE HttpImmutable WITH
  Clients <- {"x", "y"}, Chunks <- {1, 2}, MaxBreaks <- 2, left <- push_left,
  ReadSize <- 2, Contents <- {<<1>>, <<2, 2, 2>>, <<3, 3, 3, 3>>},
  Ranges <- {[offset |-> 0, length |-> 3], [offset |-> 1, length |-> 4], [offset |-> 3, length |-> 1]},
  MaxReadBreaks <- 1, MaxChanges <- 2, share <- http_share, read <- http_read, seen <- got

(* Three calls of two clients on a slot of up to two shares, with the      *)
(* right write enabler or another; one connection breaks.                  *)
Slots == INSTANCE HttpSlot WITH
  Clients <- {"x", "y"}, Shnums <- {0, 1}, Enablers <- {"w", "v"}, MaxCalls <- 3, MaxBreaks <- 1,
  advised <- advice, seen <- slot_seen, breaks <- slot_breaks

(* Two prefixes with two buckets each, two cycles, stops and a kill.       *)
Crawl == INSTANCE Crawler WITH
  Kinds <- {"plain", "count", "lease"}, NumPrefixes <- 2, Buckets <- {11, 12, 21, 22},
  InitialBuckets <- {11, 12, 21}, MaxCycles <- 2, MaxStops <- 2, MaxKills <- 1, MaxChanges <- 1,
  kind <- crawler, file <- state_file, up <- running

-----------------------------------------------------------------------------
MCInit ==
  /\ part \in FileParts \cup {"introducer", "farm", "manager", "http upload", "http read", "http slot", "crawler"}
  /\ FilesInit
  /\ IF part = "introducer" THEN Intro!IntroInit
     ELSE /\ pub = 0 /\ cli = 0 /\ intro = 0 /\ link = 0 /\ alive = 0 /\ wire = 0
          /\ late = 0 /\ back = 0 /\ intro_left = 0
  /\ IF part = "farm" THEN Farm!FarmInit
     ELSE /\ servers = 0 /\ descs = 0 /\ high = 0 /\ listeners = 0 /\ fired = 0 /\ trigger = 0 /\ breaks = 0
  /\ IF part = "manager" THEN Farm!GMInit
     ELSE /\ config = 0 /\ configured = 0 /\ certs = 0 /\ announced = 0 /\ now = 0 /\ issued = 0
  /\ IF part = "http upload" THEN Http!HttpUploadInit
     ELSE /\ upload = 0 /\ stored = 0 /\ cl = 0 /\ net = 0 /\ push_left = 0
  /\ IF part = "http read" THEN Http!HttpReadInit
     ELSE /\ mutable = 0 /\ http_share = 0 /\ http_read = 0 /\ got = 0 /\ read_left = 0
  /\ IF part = "http slot" THEN Slots!SlotInit
     ELSE /\ slot = 0 /\ advice = 0 /\ call = 0 /\ slot_seen = 0 /\ applied = 0 /\ calls = 0 /\ slot_breaks = 0
  /\ IF part = "crawler" THEN Crawl!CrawlerInit
     ELSE /\ crawler = 0 /\ disk = 0 /\ mem = 0 /\ state_file = 0 /\ running = 0
          /\ seen = 0 /\ stable = 0 /\ used = 0

(* The other components stay as they are.                                  *)
GridExcept(p) ==
  /\ IF p = "introducer" THEN TRUE ELSE UNCHANGED introVars
  /\ IF p = "farm" THEN TRUE ELSE UNCHANGED farmVars
  /\ IF p = "manager" THEN TRUE ELSE UNCHANGED gmVars
  /\ IF p = "http upload" THEN TRUE ELSE UNCHANGED pushVars
  /\ IF p = "http read" THEN TRUE ELSE UNCHANGED pullVars
  /\ IF p = "http slot" THEN TRUE ELSE UNCHANGED slotVars
  /\ IF p = "crawler" THEN TRUE ELSE UNCHANGED crawlerVars
Only(p) == FilesExcept(p) /\ GridExcept(p)

MCNext ==
  \/ FilesNext /\ GridExcept(part)
  \/ Only("introducer") /\ Intro!IntroNext
  \/ Only("farm") /\ Farm!FarmNext
  \/ Only("manager") /\ Farm!GMNext
  \/ Only("http upload") /\ Http!HttpUploadNext
  \/ Only("http read") /\ Http!HttpReadNext
  \/ Only("http slot") /\ Slots!SlotNext
  \/ Only("crawler") /\ Crawl!CrawlerNext

MCSpec == MCInit /\ [][MCNext]_mcVars

-----------------------------------------------------------------------------
(* Clients know the servers there are, and use those they may.             *)
(* Introducer: when the connections are up and nothing is on the wire, the *)
(* client has the last announcement of every server, however connections   *)
(* were lost and processes restarted (Converged: publish, _got_introducer, *)
(* add_subscriber).  StorageFarm: who waits for enough servers is told     *)
(* when there are enough (ThresholdsFire: _check_connected_high_water_     *)
(* mark), and no connection of a replaced descriptor goes on               *)
(* (OnlyCurrentTry: stop_connecting).  Grid managers: uploads go only to     *)
(* servers that a trusted grid manager has signed, while the certificate   *)
(* lasts (PermittedOnlyWhileSigned: validate_grid_manager_certificate),    *)
(* and sign finds every certificate it issued (CertificatesFound).         *)
ServersKnown ==
  /\ part = "introducer" => Intro!Converged
  /\ part = "farm" => Farm!ThresholdsFire /\ Farm!OnlyCurrentTry
  /\ part = "manager" => Farm!PermittedOnlyWhileSigned /\ Farm!CertificatesFound

(* What was learnt, handed out, done or issued is not taken back by a      *)
(* later step.  Introducer: a subscriber never goes back to an older       *)
(* announcement (NoRollback: _process_announcement, _publish).             *)
(* StorageFarm: a server object that was handed out stays usable after     *)
(* _lost (NeverTakenAway).  Grid managers: no certificate is overwritten     *)
(* (NoneOverwritten: sign).  Crawler: a finished cycle has processed every *)
(* bucket that was there, each once unless the process was killed          *)
(* (OncePerCycle: process_prefixdir, save_state).                          *)
NothingTakenBack ==
  [][/\ part = "introducer" => Intro!NoRollback
     /\ part = "farm" => Farm!NeverTakenAway
     /\ part = "manager" => Farm!NoneOverwritten
     /\ part = "crawler" => Crawl!OncePerCycle]_mcVars

(* A client of the HTTP storage protocol learns what is so.  Uploading: a  *)
(* share it was told is complete, or a chunk accepted, is so on the server *)
(* (ToldTheTruth: write_share_data and abort_share_upload racing).         *)
(* Reading: read_share_chunk returns exactly what the share holds of the   *)
(* range, or fails (ReadIsExact: read_range and its producer).  HttpSlot:  *)
(* a test-and-write applies its vectors or none, and its answer, like that *)
(* of a read, is what the slot held at some time since it was asked        *)
(* (SlotCallsExact: mutable_read_test_write, slot_readv).                  *)
HttpExact ==
  /\ part = "http upload" => Http!ToldTheTruth
  /\ part = "http read" => Http!ReadIsExact
  /\ part = "http slot" => Slots!SlotCallsExact

(* What is reported of the shares is true.  Checkers: what a check or a    *)
(* repair reports of a share was so on the server it names                 *)
(* (ReportsTheTruth: _format_results), and a repair reports all that the   *)
(* check had found (RepairAdds: _gather_repair_results);                   *)
(* the same for mutable files, and a repair that was said to succeed left  *)
(* a healthy file (MutableCheckTrue: _make_checker_results).  Crawler: a   *)
(* bucket count that is reported counts each prefix of one cycle           *)
(* (CountIsWhole: BucketCountingCrawler.finished_cycle).                   *)
ChecksTrue ==
  /\ part = "checker" => Check!ReportsTheTruth /\ Check!RepairAdds
  /\ part = "mutable check" => Check!MutableCheckTrue
  /\ part = "crawler" => Crawl!CountIsWhole
=============================================================================
