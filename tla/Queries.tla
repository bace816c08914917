------------------------------- MODULE Queries -------------------------------
(***************************************************************************)
(* SELECT, from the client's text to the client's view of the answer, but  *)
(* for the transport (Wire): the parser that turns a Boolean expression    *)
(* into postfix code (QueryCodec.h, Client.cpp), the aggregates of what    *)
(* its evaluation finds (handle_select; the evaluation is in Evaluation),  *)
(* the assembly of the reply (Server::process) and what the client reads   *)
(* from it.                                                                *)
(*                                                                         *)
(* A text is the sequence of its tokens after SELECT, a bitmap the set of  *)
(* its documents, the content of a document its number.                    *)
(***************************************************************************)
EXTENDS Evaluation, FiniteSets, SequencesExt, FiniteSetsExt

CONSTANT retrieval_limit   \* a SELECT without aggregate returns this many

-----------------------------------------------------------------------------
(* BoolExprParser with encode_bool_expr.  The tree is emitted in postorder *)
(* and its nodes are made in that order, so the code is written at once.   *)

(* upper is for the gateway's parser, which takes operators in any case.   *)
Start(tokens, upper) ==
  [tokens |-> tokens, upper |-> upper, pos |-> 1, keywords |-> <<>>, bool_expr |-> <<>>,
   ok |-> TRUE]

InUpper == [and |-> "AND", or |-> "OR", not |-> "NOT", select |-> "SELECT",
            max |-> "MAX", min |-> "MIN", sum |-> "SUM", avg |-> "AVG"]
Upper(t) == IF t \in DOMAIN InUpper THEN InUpper[t] ELSE t

Match(p, t) ==
  /\ p.ok /\ p.pos <= Len(p.tokens)
  /\ t = IF p.upper THEN Upper(p.tokens[p.pos]) ELSE p.tokens[p.pos]
Skip(p) == [p EXCEPT !.pos = @ + 1]
Emit(p, code) == [p EXCEPT !.bool_expr = @ \o code]
Expect(p, t) == IF Match(p, t) THEN Skip(p) ELSE [p EXCEPT !.ok = FALSE]

(* A keyword is listed once and named by its place, counted from 0.        *)
ParseWord(p) ==
  IF p.pos > Len(p.tokens) \/ ~p.ok THEN [p EXCEPT !.ok = FALSE]
  ELSE LET word == p.tokens[p.pos]
           keywords == IF Contains(p.keywords, word) THEN p.keywords
                       ELSE Append(p.keywords, word)
       IN  Emit([Skip(p) EXCEPT !.keywords = keywords],
                <<OP_TERM, SelectInSeq(keywords, LAMBDA k : k = word) - 1>>)

(* What a function calls once it has passed a token is its argument f: the *)
(* same functions, for parsers with that token behind them.                *)
ParseFactor(f, p) ==
  IF Match(p, "(") THEN Expect(f.expr[Skip(p)], ")") ELSE ParseWord(p)

ParseUnary(f, p) ==
  IF Match(p, "NOT") THEN Emit(f.unary[Skip(p)], <<OP_NOT>>) ELSE ParseFactor(f, p)

(* Mutant: the right operand of AND is a whole expression.                 *)
AndTail_Greedy(f, p) ==
  IF Match(p, "AND") THEN Emit(f.expr[Skip(p)], <<OP_AND>>) ELSE p

AndTail(f, p) ==
  IF Match(p, "AND") THEN f.and_tail[Emit(f.unary[Skip(p)], <<OP_AND>>)] ELSE p

ParseTerm(f, p) == AndTail(f, ParseUnary(f, p))

OrTail(f, p) ==
  IF Match(p, "OR") THEN f.or_tail[Emit(f.term[Skip(p)], <<OP_OR>>)] ELSE p

ParseExpr(f, p) == OrTail(f, ParseTerm(f, p))

(* The states of a parser of these tokens, and its functions n calls deep: *)
(* every call comes after a token, so no call is deeper than the text.     *)
Parsers(p) ==
  [tokens : {p.tokens}, upper : {p.upper}, pos : 1..(Len(p.tokens) + 1), ok : BOOLEAN,
   keywords : Seq({p.tokens[i] : i \in DOMAIN p.tokens}), bool_expr : Seq(Nat)]

Calls(f, Q) ==
  [expr |-> [q \in Q |-> ParseExpr(f, q)], term |-> [q \in Q |-> ParseTerm(f, q)],
   unary |-> [q \in Q |-> ParseUnary(f, q)],
   and_tail |-> [q \in Q |-> AndTail(f, q)], or_tail |-> [q \in Q |-> OrTail(f, q)]]

Depths(n, Q) ==
  LET depth[i \in 0..n] == IF i = 0 THEN <<>> ELSE Calls(depth[i - 1], Q) IN depth

Parsed(p) ==
  LET n == Len(p.tokens) IN ParseExpr(Depths(n, Parsers(p))[n], p)

(* build_select_request.  Tokens left over after the expression are not    *)
(* looked at.                                                              *)
Aggregates == <<"MAX", "MIN", "SUM", "AVG">>
SelectType(text) ==
  IF text # <<>> /\ Contains(Aggregates, text[1])
  THEN SelectInSeq(Aggregates, LAMBDA a : a = text[1]) ELSE 0

ClientSelect(text) ==
  LET type == SelectType(text)
      p == Parsed(Start(IF type = 0 THEN text ELSE Tail(text), FALSE))
  IN  [ok |-> p.ok, type |-> type, terms |-> p.keywords, bool_expr |-> p.bool_expr]

-----------------------------------------------------------------------------
(* What the enclave leaves in result_doc: the documents of a plain SELECT, *)
(* or the value of an aggregate and the number of matches.                 *)
Ascending(S) ==
  CHOOSE ids \in [1..Cardinality(S) -> S] : \A i, j \in DOMAIN ids : i < j => ids[i] < ids[j]
Limited(ids) == IF Len(ids) > retrieval_limit THEN SubSeq(ids, 1, retrieval_limit) ELSE ids

(* Mutant: the limit is taken before the aggregate.                        *)
ResultDoc_Limited(type, S) ==
  LET ids == Limited(Ascending(S))
      sum == FoldLeft(LAMBDA a, i : a + i, 0, ids)
  IN  IF type = 0 THEN [doc_id |-> ids, doc_count |-> Len(ids)]
      ELSE [doc_id |-> <<IF ids = <<>> THEN 0
                       ELSE CASE type = 1 -> Last(ids)
                              [] type = 2 -> Head(ids)
                              [] type = 3 -> sum
                              [] type = 4 -> sum \div Len(ids), Len(ids)>>,
            doc_count |-> 1]

ResultDoc(type, S) ==
  LET ids == Ascending(S)
      sum == FoldLeft(LAMBDA a, i : a + i, 0, ids)
  IN  IF type = 0
      THEN [doc_id |-> Limited(ids), doc_count |-> Len(Limited(ids))]
      ELSE [doc_id |-> <<IF ids = <<>> THEN 0
                       ELSE CASE type = 1 -> Last(ids)
                              [] type = 2 -> Head(ids)
                              [] type = 3 -> sum
                              [] type = 4 -> sum \div Len(ids), Len(ids)>>,
            doc_count |-> 1]

(* Server::process.  The content of an aggregate's only row is the text    *)
(* "ENCDB_AGG|op=...|match_count=...|value=...".                           *)
Meta(type, count, value) == [op |-> Aggregates[type], match_count |-> count, value |-> value]

SelectResponse(type, res) ==
  IF type = 0
  THEN [doc_ids |-> SubSeq(res.doc_id, 1, res.doc_count),
        doc_contents |-> SubSeq(res.doc_id, 1, res.doc_count)]
  ELSE [doc_ids |-> <<res.doc_id[1]>>,
        doc_contents |-> <<Meta(type, res.doc_id[2], res.doc_id[1])>>]

(* print_select_response: the client takes the type from its own request   *)
(* and the number of matches from the text.                                *)
ClientView(type, resp) ==
  IF type = 0
  THEN [i \in DOMAIN resp.doc_ids |-> <<resp.doc_ids[i], resp.doc_contents[i]>>]
  ELSE [matched |-> resp.doc_contents[1].match_count, value |-> resp.doc_ids[1]]
=============================================================================
