------------------------------ MODULE GatewayWire ------------------------------
(***************************************************************************)
(* The binary form of requests and responses in the web gateway            *)
(* (encdb_rpc.py, sql_builder.py).  It repeats RPC.cpp, but for what an    *)
(* update and an answer to SELECT look like.                               *)
(***************************************************************************)
EXTENDS Bundles

(* The first n cells, or all if there are fewer: s[:n].                    *)
Cut(s, n) == Take(s, Min({n, Len(s)}))

(* An index ends in a NUL, within MAX_INDEX_SIZE, because the enclave cuts *)
(* it into words with strtok.                                              *)
normalize_index_bytes(keywords) ==
  LET trimmed == Cut(keywords, MAX_INDEX_SIZE - 1)
  IN  IF keywords = <<>> \/ Last(trimmed) = NUL THEN trimmed ELSE Append(trimmed, NUL)

build_update_request(id, op, doc_id, keywords, doc) ==
  [client_id |-> id, type |-> UPDATE, op |-> op, doc_id |-> doc_id, flags |-> UPDATE_SPLIT,
   index_content |-> normalize_index_bytes(keywords), doc_content |-> Cut(doc, MAX_DOC_SIZE)]

(* What is too long is cut; otherwise as in RPC.cpp.                       *)
serialize_request(r) ==
  serialize_encdb_request(
    IF r.type # UPDATE THEN r
    ELSE [r EXCEPT !.index_content = Cut(@, MAX_INDEX_SIZE),
                   !.doc_content = Cut(@, MAX_DOC_SIZE)])

(* The number of documents is taken as it comes.                           *)
deserialize_response(s) ==
  LET type == ReadU32(Drop(s, 4))
      body == Drop(s, 12)
      n == ReadU32(body)
  IN  IF type # SELECT_RESULT THEN deserialize_encdb_response(s)
      ELSE [status |-> ReadU32(s), type |-> type,
            doc_ids |-> [i \in 1..n |-> ReadU32(Drop(body, 4 * i))],
            doc_contents |-> [i \in 1..n |-> body[4 + 4 * n + i]]]

(* The way of a request of the gateway to the enclave, and back.           *)
GatewayTransported(r) == deserialize_encdb_request(recv_buffer(send_buffer(serialize_request(r))))
GatewayAnswered(r) == deserialize_response(recv_buffer(send_buffer(serialize_encdb_response(r))))
=============================================================================
