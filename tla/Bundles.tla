-------------------------------- MODULE Bundles --------------------------------
(***************************************************************************)
(* The plain text of a stored document (EnclaveUtils.cpp), a sequence of   *)
(* cells as in Wire: its format, its version, its index and its body, and  *)
(* padding up to the one size all documents have.  Only the second version *)
(* of the format is written; the older ones can still be read.             *)
(*                                                                         *)
(* Nothing compares what is written with the size of the string it is      *)
(* written to.  Beyond it the memory of the enclave is overwritten: either *)
(* the enclave ends, or the string keeps what lies within it.              *)
(***************************************************************************)
EXTENDS Wire, FiniteSetsExt

CONSTANT MAX_FILE_SIZE

(* A document with an empty index and an empty body can be written.        *)
ASSUME BundlesAssumption == MAX_FILE_SIZE \in Uint32 /\ 13 <= MAX_FILE_SIZE

DOC_BUNDLE_MAGIC_LEGACY == 0
DOC_BUNDLE_MAGIC_V1 == 1
DOC_BUNDLE_MAGIC_V2 == 2

NUL == 0

Padded(s, cell) == s \o [i \in 1..(MAX_FILE_SIZE - Len(s)) |-> cell]
Crashed == <<"crashed">>

(* What may become of s in a string of MAX_FILE_SIZE cells.                *)
Written(s, cell) ==
  IF Len(s) <= MAX_FILE_SIZE THEN {Padded(s, cell)} ELSE {Take(s, MAX_FILE_SIZE), Crashed}

(* Format, version and lengths take 13 cells.                              *)
Overruns(keywords, body) == 13 + Len(keywords) + Len(body) > MAX_FILE_SIZE

(* A tombstone has an empty index and an empty body.                       *)
pack_doc_bundle_v2(keywords, body, slot_version) ==
  Written(U8(DOC_BUNDLE_MAGIC_V2) \o U32(slot_version) \o Long(keywords) \o Long(body), "pad")

pack_doc_bundle_v1(keywords, body) ==
  Written(U8(DOC_BUNDLE_MAGIC_V1) \o Long(keywords) \o Long(body), NUL)

pack_doc_bundle_legacy(content) ==
  Padded(U8(DOC_BUNDLE_MAGIC_LEGACY) \o Take(content, Min({Len(content), MAX_FILE_SIZE - 1})), NUL)

(* The index and the body in s; where one of them would not end within it  *)
(* the whole plain text is taken for the body.                             *)
Fields(plain, s, version) ==
  LET body == AfterLong(s)
      Unparsed(found) == [slot_version |-> version, index |-> found, body |-> plain]
  IN  IF Len(s) < 8 \/ 4 + ReadU32(s) > Len(s) THEN Unparsed(<<>>)
      ELSE IF Len(body) < 4 \/ 4 + ReadU32(body) > Len(body) THEN Unparsed(ReadLong(s))
      ELSE [slot_version |-> version, index |-> ReadLong(s), body |-> ReadLong(body)]

(* parse_doc_bundle_ex.  The oldest format is all index, up to a NUL.      *)
parse_doc_bundle(plain) ==
  CASE plain[1] = DOC_BUNDLE_MAGIC_V2 -> Fields(plain, Drop(plain, 5), ReadU32(Tail(plain)))
    [] plain[1] = DOC_BUNDLE_MAGIC_V1 -> Fields(plain, Tail(plain), 0)
    [] plain[1] = DOC_BUNDLE_MAGIC_LEGACY ->
         LET end == SelectInSeq(Tail(plain), LAMBDA c : c = NUL)
         IN  [slot_version |-> 0, body |-> <<>>,
              index |-> IF end = 0 THEN Tail(plain) ELSE Take(Tail(plain), end - 1)]
    [] OTHER -> [slot_version |-> 0, index |-> <<>>, body |-> plain]

trim_trailing_null(s) == Take(s, SelectLastInSeq(s, LAMBDA c : c # NUL))

(* What an update may store of what it was sent, and what is read of that. *)
Stored(keywords, body, slot_version) ==
  pack_doc_bundle_v2(trim_trailing_null(keywords), trim_trailing_null(body), slot_version)

ReadSlot(plain) ==
  LET b == parse_doc_bundle(plain)
  IN  [b EXCEPT !.index = trim_trailing_null(@), !.body = trim_trailing_null(@)]
=============================================================================
