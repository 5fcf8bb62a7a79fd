-------------------------------- MODULE Caps --------------------------------
(***************************************************************************)
(* Capability strings, the nodes made of them and their way through a      *)
(* directory: uri.py (kinds of caps, from_string), nodemaker.py            *)
(* (create_from_cap), unknown.py (UnknownNode, strip_prefix_for_ro) and    *)
(* the entries that dirnode.py packs and unpacks.                          *)
(*                                                                         *)
(* A cap string is its prefix ("ro.", "imm." or none) and its kind; which  *)
(* keys it holds is left out, since every conversion below stays with one  *)
(* object.  A malformed cap (BadURIError) behaves as an unknown one with   *)
(* an error and is left out too.                                           *)
(*                                                                         *)
(* One behaviour: a node is made of the caps somebody gives, packed into a *)
(* directory, and unpacked by a holder of the directory's write cap or     *)
(* read cap.                                                               *)
(***************************************************************************)
EXTENDS Naturals

VARIABLES given,   \* [rw, ro]: what create_from_cap is called with
          node,    \* the node made of it
          dir,     \* the directory it is put into: "mutable" or "immutable"
          entry,   \* the packed entry
          reader,  \* who unpacks: "writecap" or "readcap" of the directory
          child,   \* the node unpacked, or NoNode when it is left out
          phase

capVars == <<given, node, dir, entry, reader, child, phase>>

None == [pre |-> "", kind |-> ""]
Cap(kind) == [pre |-> "", kind |-> kind]

-----------------------------------------------------------------------------
(* uri.py.  A kind of cap: can it write, is its object mutable, its        *)
(* read-only form and its verify form.                                     *)
Kind(rw, mut, ro, ver) == [writeable |-> rw, mutable |-> mut, readonly |-> ro, verify |-> ver]

CHKCaps == [k \in {"CHK", "CHK-Verifier", "LIT"} |->
              Kind(FALSE, FALSE, k, IF k = "LIT" THEN "" ELSE "CHK-Verifier")]

SSKCaps == [k \in {"SSK", "SSK-RO", "SSK-Verifier"} |->
              Kind(k = "SSK", k # "SSK-Verifier",
                   IF k = "SSK-Verifier" THEN k ELSE "SSK-RO", "SSK-Verifier")]

MDMFCaps == [k \in {"MDMF", "MDMF-RO", "MDMF-Verifier"} |->
               Kind(k = "MDMF", k # "MDMF-Verifier",
                    IF k = "MDMF-Verifier" THEN k ELSE "MDMF-RO", "MDMF-Verifier")]

DirectoryCaps ==
  [k \in {"DIR2", "DIR2-RO", "DIR2-CHK", "DIR2-LIT"} |->
     CASE k = "DIR2" -> Kind(TRUE, TRUE, "DIR2-RO", "DIR2-Verifier")
       [] k = "DIR2-RO" -> Kind(FALSE, TRUE, k, "DIR2-Verifier")
       [] k = "DIR2-CHK" -> Kind(FALSE, FALSE, k, "DIR2-CHK-Verifier")
       [] k = "DIR2-LIT" -> Kind(FALSE, FALSE, k, "")]

MDMFDirectoryCaps ==
  [k \in {"DIR2-MDMF", "DIR2-MDMF-RO"} |->
     Kind(k = "DIR2-MDMF", TRUE, "DIR2-MDMF-RO", "DIR2-MDMF-Verifier")]

DirectoryVerifiers ==
  [k \in {"DIR2-Verifier", "DIR2-CHK-Verifier", "DIR2-MDMF-Verifier"} |->
     Kind(FALSE, FALSE, k, k)]

(* Caps of formats to come: from_string knows how the two test kinds       *)
(* behave in a read-only or an immutable context, and nothing of the rest. *)
FutureKinds == {"future-writeable", "future-mutable", "future"}

KnownKind(k) ==
  CASE k \in DOMAIN CHKCaps -> CHKCaps[k]
    [] k \in DOMAIN SSKCaps -> SSKCaps[k]
    [] k \in DOMAIN MDMFCaps -> MDMFCaps[k]
    [] k \in DOMAIN DirectoryCaps -> DirectoryCaps[k]
    [] k \in DOMAIN MDMFDirectoryCaps -> MDMFDirectoryCaps[k]
    [] k \in DOMAIN DirectoryVerifiers -> DirectoryVerifiers[k]

KnownKinds == DOMAIN CHKCaps \cup DOMAIN SSKCaps \cup DOMAIN MDMFCaps
  \cup DOMAIN DirectoryCaps \cup DOMAIN MDMFDirectoryCaps \cup DOMAIN DirectoryVerifiers

(* from_string: "known", or "unknown" for an UnknownURI without an error,  *)
(* or the error it carries.                                                *)
from_string(c, deep_immutable) ==
  LET can_be_mutable == ~deep_immutable /\ c.pre # "imm."
      can_be_writeable == can_be_mutable /\ c.pre # "ro."
      needs_write == IF c.kind \in KnownKinds THEN KnownKind(c.kind).writeable
                     ELSE c.kind = "future-writeable"
      needs_mutable == IF c.kind \in KnownKinds THEN KnownKind(c.kind).mutable
                       ELSE c.kind = "future-mutable"
  IN IF (needs_write /\ ~can_be_writeable) \/ (needs_mutable /\ ~can_be_mutable)
     THEN IF can_be_mutable THEN "MustBeReadonlyError" ELSE "MustBeDeepImmutableError"
     ELSE IF c.kind \in KnownKinds THEN "known" ELSE "unknown"

-----------------------------------------------------------------------------
(* Nodes: a known one has the kind of its cap; an UnknownNode its caps and *)
(* its error.                                                              *)
NoNode == [kind |-> "no node", rw |-> None, ro |-> None, error |-> ""]
Opaque(e) == [kind |-> "unknown", rw |-> None, ro |-> None, error |-> e]

(* UnknownNode's strengthening of its ro_uri.                              *)
UnknownRo(ro, deep_immutable) ==
  CASE ro = None -> None
    [] ro.pre = "imm." -> ro
    [] OTHER -> [ro EXCEPT !.pre = IF deep_immutable THEN "imm." ELSE "ro."]

UnknownNode(given_rw, given_ro, deep_immutable) ==
  LET alone == given_rw # None /\ given_ro = None
      rw == IF alone THEN None ELSE given_rw
      ro == IF alone THEN given_rw ELSE given_ro
      read == IF ro = None THEN "unknown" ELSE from_string(ro, deep_immutable)
  IN CASE alone /\ deep_immutable /\ given_rw.pre # "imm." -> Opaque("MustNotBeUnknownRWError")
       [] alone /\ given_rw.pre = "" -> Opaque("MustNotBeUnknownRWError")
       [] ~alone /\ given_rw # None /\ deep_immutable -> Opaque("MustBeDeepImmutableError")
       [] ~alone /\ given_rw # None /\ given_ro.pre = "imm." -> Opaque("MustBeDeepImmutableError")
       [] read \notin {"known", "unknown"} -> Opaque(read)
       [] OTHER -> [kind |-> "unknown", rw |-> rw, ro |-> UnknownRo(ro, deep_immutable), error |-> ""]

(* _create_from_single_cap: verify caps other than CHK's make no node.  A  *)
(* known node's caps are to_string of its own, so a prefix is gone.        *)
SingleCap(c) ==
  [kind |-> c.kind,
   rw |-> IF KnownKind(c.kind).writeable THEN Cap(c.kind) ELSE None,
   ro |-> Cap(KnownKind(c.kind).readonly), error |-> ""]

NodeKinds == KnownKinds \ ({"SSK-Verifier", "MDMF-Verifier"} \cup DOMAIN DirectoryVerifiers)

(* NodeMaker.create_from_cap.                                              *)
create_from_cap(writecap, readcap, deep_immutable) ==
  LET bigcap == IF writecap # None THEN writecap ELSE readcap
  IN IF bigcap = None THEN UnknownNode(None, None, FALSE)
     ELSE IF from_string(bigcap, deep_immutable) = "known" /\ bigcap.kind \in NodeKinds
          THEN SingleCap(bigcap)
          ELSE UnknownNode(writecap, readcap, deep_immutable)

is_allowed_in_immutable_directory(n) ==
  IF n.kind = "unknown" THEN n.error = "" /\ n.rw = None ELSE ~KnownKind(n.kind).mutable

-----------------------------------------------------------------------------
strip_any_prefix(ro_uri, deep_immutable) == [ro_uri EXCEPT !.pre = ""]

strip_prefix_for_ro(ro_uri, deep_immutable) ==
  IF ro_uri.pre = "imm." /\ ~deep_immutable THEN ro_uri ELSE [ro_uri EXCEPT !.pre = ""]

(* _pack_normalized_children refuses a node with an error and, in an       *)
(* immutable directory, one that is not allowed there.  A CHK-Verifier's   *)
(* node cannot be packed at all: it has no get_write_uri.                  *)
MayPack(n, d) ==
  /\ n.error = "" /\ n.kind # "CHK-Verifier"
  /\ d = "immutable" => is_allowed_in_immutable_directory(n)

Packed(n, d) ==
  [rw |-> IF d = "mutable" THEN n.rw ELSE None,
   ro |-> strip_prefix_for_ro(n.ro, d = "immutable")]

(* One entry of _unpack_contents: the write cap is only for holders of the *)
(* directory's, and a child that breaks a constraint is left out.          *)
Unpacked(e, d, who) ==
  LET n == create_from_cap(IF who = "writecap" THEN e.rw ELSE None, e.ro, d = "immutable")
  IN IF n.error # "" \/ (d = "immutable" /\ ~is_allowed_in_immutable_directory(n))
     THEN NoNode ELSE n

-----------------------------------------------------------------------------
Prefixes == {"", "ro.", "imm."}
AllCaps == [pre : Prefixes, kind : KnownKinds \cup FutureKinds]

(* Two caps given together are of one object, the second its read cap.     *)
Together(rw, ro) ==
  \/ ro = None
  \/ rw.kind \in KnownKinds /\ ro.kind = KnownKind(rw.kind).readonly
  \/ rw.kind \in FutureKinds /\ ro.kind \in FutureKinds /\ ro # Cap("future-writeable")
  \/ rw = None /\ ro # Cap("future-writeable")
               /\ (ro.kind \in KnownKinds => ~KnownKind(ro.kind).writeable \/ ro.pre # "")

CapInit ==
  /\ given \in [rw : AllCaps \cup {None}, ro : AllCaps \cup {None}]
  /\ Together(given.rw, given.ro)
  /\ dir \in {"mutable", "immutable"} /\ reader \in {"writecap", "readcap"}
  /\ dir = "immutable" => reader = "readcap"
  /\ node = NoNode /\ child = NoNode /\ entry = [rw |-> None, ro |-> None]
  /\ phase = "given"

(* set_uri, or convert_children_json for the children of a new directory.  *)
Create ==
  /\ phase = "given" /\ phase' = "made"
  /\ node' = create_from_cap(given.rw, given.ro, FALSE)
  /\ UNCHANGED <<given, dir, entry, reader, child>>

Pack ==
  /\ phase = "made" /\ MayPack(node, dir)
  /\ phase' = "packed" /\ entry' = Packed(node, dir)
  /\ UNCHANGED <<given, node, dir, reader, child>>

Unpack ==
  /\ phase = "packed" /\ phase' = "unpacked"
  /\ child' = Unpacked(entry, dir, reader)
  /\ UNCHANGED <<given, node, dir, entry, reader>>

CapNext == Create \/ Pack \/ Unpack

CapSpec == CapInit /\ [][CapNext]_capVars

-----------------------------------------------------------------------------
(* A child comes out of a directory as it went in: no node that could be   *)
(* packed is left out of the listing afterwards, or loses or gains a cap   *)
(* for those who hold the directory's write cap; in an immutable directory *)
(* an unknown read cap is taken at its word and alleged immutable.         *)
ComesOutAsItWentIn ==
  phase = "unpacked" =>
    /\ child # NoNode \/ (dir = "immutable" /\ node.ro = [pre |-> "ro.", kind |-> "future-mutable"])
    /\ child # NoNode => child.ro.kind = node.ro.kind
    /\ child.kind = "unknown" /\ child.ro # None =>
         child.ro.pre = IF dir = "immutable" THEN "imm." ELSE node.ro.pre
    /\ reader = "writecap" => child = node

(* Who holds only the read cap of a directory gets no write cap of its     *)
(* children, and what is in an immutable directory is nothing that can     *)
(* change as far as from_string can tell.                                  *)
ReadOnlyIsTransitive ==
  phase = "unpacked" =>
    /\ reader = "readcap" => child.rw = None
    /\ child.kind \in KnownKinds /\ reader = "readcap" => ~KnownKind(child.kind).writeable
    /\ dir = "immutable" /\ child.kind \in KnownKinds => ~KnownKind(child.kind).mutable
=============================================================================
