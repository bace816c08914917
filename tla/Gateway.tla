------------------------------- MODULE Gateway -------------------------------
(***************************************************************************)
(* Queries through the web gateway: its own parser (sql_builder.py) and    *)
(* its own view of a reply (response_util.py).  They repeat QueryCodec.h   *)
(* and Client.cpp with small differences, which are what is modelled here. *)
(***************************************************************************)
EXTENDS Queries, GatewayWire

(* Operators are words in any case.                                        *)
GatewayExpr(tokens) == Parsed(Start(tokens, TRUE))

GatewaySelectType(text) ==
  IF text # <<>> /\ Contains(Aggregates, Upper(text[1]))
  THEN SelectInSeq(Aggregates, LAMBDA a : a = Upper(text[1])) ELSE 0

GatewaySelect(text) ==
  LET type == GatewaySelectType(text)
      p == GatewayExpr(IF type = 0 THEN text ELSE Tail(text))
  IN  [ok |-> p.ok, type |-> type, terms |-> p.keywords, bool_expr |-> p.bool_expr]

(* Of an aggregate everything is read from the text, also the value.  The  *)
(* contents in use here are not empty; for an empty one the gateway shows  *)
(* a file of its own.                                                      *)
format_select_response(type, resp) ==
  IF type = 0
  THEN [i \in DOMAIN resp.doc_ids |-> <<resp.doc_ids[i], resp.doc_contents[i]>>]
  ELSE [matched |-> resp.doc_contents[1].match_count, value |-> resp.doc_contents[1].value]
=============================================================================
