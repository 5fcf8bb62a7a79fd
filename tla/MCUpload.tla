------------------------------ MODULE MCUpload ------------------------------
(* Two ways to upload a file: directly to three servers, of which a may be *)
(* full or unable to take the share and some may hold shares already; and  *)
(* through a helper that two clients ask for the same file.                *)
EXTENDS ChkUpload, UploadHelper

CONSTANTS a, b, d

VARIABLE way
all == <<way, uploadVars, helperVars>>

MCIds    == <<a, b, d>>
MCOrders == {<<a, b, d>>, <<d, a, b>>}

Holds(x, y, z) == (a :> x) @@ (b :> y) @@ (d :> z)
Begun(holds, room, write, happy) ==
  [holds |-> holds, write |-> write, happy |-> happy,
   room  |-> [s \in Server |-> IF s = a THEN room ELSE total_shares]]
Fresh == Begun(Holds({}, {}, {}), total_shares, {a, b, d}, 3)

\* a takes shares, is full, or cannot take shares of this size.
MCStarts ==
  {Begun(holds, how[1], how[2], happy) :
     holds \in {Holds({}, {}, {}), Holds({}, {0, 1}, {0}), Holds({1}, {0}, {0, 1})},
     how   \in {<<total_shares, {a, b, d}>>, <<0, {a, b, d}>>, <<total_shares, {b, d}>>},
     happy \in {2, 3}}

MCInit ==
  /\ UploadInit /\ HelperInit
  /\ way = "direct" \/ (way = "helper" /\ start = Fresh)

MCNext ==
  \/ way = "direct" /\ Next /\ UNCHANGED <<way, helperVars>>
  \/ way = "helper" /\ HelperNext /\ UNCHANGED <<way, uploadVars>>

MCSpec ==
  /\ MCInit /\ [][MCNext]_all
  /\ way = "direct" => Fairness
  /\ WF_all(way = "helper" /\ HelperNext /\ UNCHANGED <<way, uploadVars>>)

(* However an upload comes to its end: a success has left min_happiness    *)
(* (DoneIsHappy of ChkUpload: _remove_shareholder), no server keeps an     *)
(* open bucket (NothingLeftOpen: get_shareholders, Encoder.err), and the   *)
(* state of both ways stays well typed.                                    *)
UploadOutcome == TypeOK /\ HelperTypeOK /\ DoneIsHappy /\ NothingLeftOpen

(* Every direct upload ends: the rounds of get_shareholders do not go on   *)
(* for ever with servers that keep refusing, and no step of the encoder    *)
(* waits for a share that has been removed.                                *)
UploadEnds == way = "direct" => Ends
=============================================================================
