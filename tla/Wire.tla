--------------------------------- MODULE Wire ---------------------------------
(***************************************************************************)
(* The binary form of requests and responses (RPC.cpp, net.cpp), a         *)
(* sequence of cells.  A cell is a byte of a number, or one unit of data   *)
(* (of a keyword, a document, a key), which is not looked into.            *)
(***************************************************************************)
EXTENDS Integers, Sequences, SequencesExt

CONSTANTS MAX_TERMS, MAX_INDEX_SIZE, MAX_DOC_SIZE, MAX_RESULT_DOCS

Uint8 == 0..255
Uint32 == {v \in Nat : v \div 65536 < 65536}   \* uint32_t

MAX_KEYWORD_LEN == 32   \* cells of EncTerm.data
BOOL_EXPR_SIZE == 128   \* cells of SelectRequest.bool_expr

ASSUME WireAssumption ==
  {MAX_TERMS, MAX_INDEX_SIZE, MAX_DOC_SIZE, MAX_RESULT_DOCS} \subseteq Uint32

INIT == 0
SELECT == 1
UPDATE == 2
SHUTDOWN == 3

INIT_MODE_CREATE == 0
INIT_MODE_RESUME == 1
UPDATE_LEGACY == 0
UPDATE_SPLIT == 1
UPDATE_WIRE_V1 == 1
UPDATE_WIRE_LEGACY_SINGLE == 2

INIT_RESULT == 0
SELECT_RESULT == 1
UPDATE_RESULT == 2
SHUTDOWN_RESULT == 3

OK == 0
ERROR == 1

(* Mutant: the two middle bytes are swapped.                               *)
U32_Swapped(v) ==
  <<v % 256, (v \div 65536) % 256, (v \div 256) % 256, (v \div 16777216) % 256>>

(* Little endian, as the bytes of the number lie in memory.                *)
U8(v) == <<v % 256>>
U32(v) ==
  <<v % 256, (v \div 256) % 256, (v \div 65536) % 256, (v \div 16777216) % 256>>
ReadU32(s) == s[1] + 256 * s[2] + 65536 * s[3] + 16777216 * s[4]

Take(s, n) == SubSeq(s, 1, n)
Drop(s, n) == SubSeq(s, n + 1, Len(s))

(* A length and as many cells, with the length in one byte or in four.     *)
Short(data) == U8(Len(data)) \o data
Long(data) == U32(Len(data)) \o data
ReadLong(s) == Take(Drop(s, 4), ReadU32(s))
AfterLong(s) == Drop(s, 4 + ReadU32(s))

-----------------------------------------------------------------------------
RequestBody(r) ==
  CASE r.type = INIT -> <<r.key>> \o U8(r.mode) \o U32(r.target_edb_id)
    [] r.type = SHUTDOWN -> U8(r.reserved)
    [] r.type = SELECT ->
         U32(Len(r.terms)) \o FlattenSeq([i \in DOMAIN r.terms |-> Short(r.terms[i])])
           \o Long(r.bool_expr) \o U8(r.select_type)
    [] r.type = UPDATE ->
         U8(r.op) \o U32(r.doc_id) \o
         IF r.flags = UPDATE_SPLIT
         THEN U8(UPDATE_WIRE_V1) \o U8(r.flags) \o Long(r.index_content) \o Long(r.doc_content)
         ELSE U8(UPDATE_WIRE_LEGACY_SINGLE) \o Long(r.doc_content)

serialize_encdb_request(r) ==
  U8(r.client_id) \o U32(r.type) \o Long(RequestBody(r))

(* An exception leaves the reading of a request.                           *)
Malformed == [type |-> "malformed"]

(* A field of a request gets more than it has room for: what follows it is *)
(* overwritten, and nothing is known of the request.                       *)
Overrun == [type |-> "overrun"]

(* INIT without a mode, or without a database, is from older clients.      *)
ReadInit(id, s) ==
  [client_id |-> id, type |-> INIT, key |-> s[1],
   mode |-> IF Len(s) > 1 THEN s[2] ELSE INIT_MODE_CREATE,
   target_edb_id |-> IF Len(s) >= 6 THEN ReadU32(Drop(s, 2)) ELSE 0]

(* n terms, each after its length.  One that is longer than its field      *)
(* spoils the request: ReadSelect.                                         *)
ReadTerms(s, n) ==
  LET read[i \in 0..n] ==
        IF i = 0 THEN [terms |-> <<>>, rest |-> s]
        ELSE LET r == read[i - 1].rest
             IN  [terms |-> Append(read[i - 1].terms, Take(Tail(r), r[1])),
                  rest |-> Drop(r, 1 + r[1])]
  IN  read[n]

ReadSelect(id, s) ==
  IF ReadU32(s) > MAX_TERMS THEN Malformed
  ELSE LET t == ReadTerms(Drop(s, 4), ReadU32(s))
       IN  IF \/ \E i \in DOMAIN t.terms : Len(t.terms[i]) > MAX_KEYWORD_LEN
              \/ ReadU32(t.rest) > BOOL_EXPR_SIZE
           THEN Overrun
           ELSE [client_id |-> id, type |-> SELECT, terms |-> t.terms,
                 bool_expr |-> ReadLong(t.rest), select_type |-> Head(AfterLong(t.rest))]

Updated(id, s, flags, keywords, doc) ==
  IF Len(keywords) > MAX_INDEX_SIZE \/ Len(doc) > MAX_DOC_SIZE THEN Malformed
  ELSE [client_id |-> id, type |-> UPDATE, op |-> s[1], doc_id |-> ReadU32(Tail(s)),
        flags |-> flags, index_content |-> keywords, doc_content |-> doc]

(* After the number of the document comes a tag; a first byte that is none *)
(* is the length of the document from an older client.                     *)
ReadUpdate(id, s) ==
  LET u == Drop(s, 5) IN
  CASE u[1] = UPDATE_WIRE_V1 ->
         LET v == Drop(u, 2)
         IN  Updated(id, s, u[2], ReadLong(v), ReadLong(AfterLong(v)))
    [] u[1] = UPDATE_WIRE_LEGACY_SINGLE ->
         Updated(id, s, UPDATE_LEGACY, <<>>, ReadLong(Tail(u)))
    [] OTHER -> Updated(id, s, UPDATE_LEGACY, <<>>, ReadLong(u))

deserialize_encdb_request(s) ==
  LET id == s[1]
      type == ReadU32(Tail(s))
      body == ReadLong(Drop(s, 5))
  IN  CASE type = INIT -> ReadInit(id, body)
        [] type = SELECT -> ReadSelect(id, body)
        [] type = UPDATE -> ReadUpdate(id, body)
        [] type = SHUTDOWN -> [client_id |-> id, type |-> SHUTDOWN,
                               reserved |-> IF body = <<>> THEN 0 ELSE body[1]]

-----------------------------------------------------------------------------
(* Responses.  The content of a document is one cell (it travels with all  *)
(* its MAX_DOC_SIZE bytes), and all numbers come before all contents.      *)
ResponseBody(r) ==
  CASE r.type = INIT_RESULT -> U8(r.edb_id)
    [] r.type = SELECT_RESULT ->
         U32(Len(r.doc_ids)) \o FlattenSeq([i \in DOMAIN r.doc_ids |-> U32(r.doc_ids[i])])
           \o r.doc_contents
    [] r.type = UPDATE_RESULT -> U32(r.success) \o U32(r.doc_id)
    [] r.type = SHUTDOWN_RESULT -> U8(r.success)

serialize_encdb_response(r) == U32(r.status) \o U32(r.type) \o Long(ResponseBody(r))

ReadSelectResult(s) ==
  LET n == ReadU32(s) IN
  IF n > MAX_RESULT_DOCS THEN Malformed
  ELSE [status |-> OK, type |-> SELECT_RESULT,
        doc_ids |-> [i \in 1..n |-> ReadU32(Drop(s, 4 * i))],
        doc_contents |-> [i \in 1..n |-> s[4 + 4 * n + i]]]

(* The length of the body is read and not used.                            *)
deserialize_encdb_response(s) ==
  LET status == ReadU32(s)
      type == ReadU32(Drop(s, 4))
      body == Drop(s, 12)
  IN  CASE type = INIT_RESULT -> [status |-> status, type |-> type, edb_id |-> body[1]]
        [] type = SELECT_RESULT -> [ReadSelectResult(body) EXCEPT !.status = status]
        [] type = UPDATE_RESULT -> [status |-> status, type |-> type,
                                    success |-> ReadU32(body), doc_id |-> ReadU32(Drop(body, 4))]
        [] type = SHUTDOWN_RESULT -> [status |-> status, type |-> type, success |-> body[1]]

(* send_buffer and recv_buffer: the length in front, most significant byte *)
(* first.                                                                  *)
send_buffer(s) == Reverse(U32(Len(s))) \o s
recv_buffer(s) == Take(Drop(s, 4), ReadU32(Reverse(Take(s, 4))))

(* The way of a request from client to enclave, and back.                  *)
Transported(r) == deserialize_encdb_request(recv_buffer(send_buffer(serialize_encdb_request(r))))
Answered(r) == deserialize_encdb_response(recv_buffer(send_buffer(serialize_encdb_response(r))))
=============================================================================
