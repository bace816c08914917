------------------------------- MODULE Requests -------------------------------
(***************************************************************************)
(* One database from a client's side: its updates run as in DocUpdates, a  *)
(* SELECT text is compiled by the client or the gateway, travels in its    *)
(* binary form, is evaluated over the index as it stands, and the reply    *)
(* travels back.                                                           *)
(*                                                                         *)
(* The reference is an expression with its meaning, read off the documents *)
(* themselves.                                                             *)
(***************************************************************************)
EXTENDS DocUpdates, Gateway

CONSTANTS Client_id, OtherClient_id

(* What a text holds besides keywords.                                     *)
Symbols == {"(", ")", "AND", "OR", "NOT"}
Reserved == Symbols \cup DOMAIN InUpper \cup {InUpper[t] : t \in DOMAIN InUpper}

Lower == [AND |-> "and", OR |-> "or", NOT |-> "not",
          MAX |-> "max", MIN |-> "min", SUM |-> "sum", AVG |-> "avg"]

(* No keyword is spelled like an operator or an aggregate, in any case.    *)
(* The ids of clients and the places of keywords are bytes.  The code has  *)
(* MAX_TERMS 16, 4096 for both limits on lengths, and 100 for what a query *)
(* retrieves and for what a response has room for.                         *)
ASSUME RequestsAssumption ==
  /\ Words \cap Reserved = {}
  /\ {Client_id, OtherClient_id} \subseteq Uint8
  /\ 3 <= MAX_TERMS /\ MAX_TERMS <= 256
  /\ \A n \in {MAX_INDEX_SIZE, MAX_DOC_SIZE} : 300 <= n /\ n <= 65536
  /\ retrieval_limit \in Nat /\ retrieval_limit <= MAX_RESULT_DOCS
  /\ 1 <= MAX_RESULT_DOCS /\ MAX_RESULT_DOCS <= 65536

-----------------------------------------------------------------------------
(* Expressions: the text, how tightly its outermost operator binds (OR 1,  *)
(* AND 2, everything else 3), and the sets of keywords that satisfy it.  A *)
(* text has parentheses where it needs them, and where somebody puts them. *)
Word(w) == [text |-> <<w>>, level |-> 3, sat |-> {K \in SUBSET Words : w \in K}]
Paren(x) == [x EXCEPT !.text = <<"(">> \o @ \o <<")">>, !.level = 3]
Operand(x, level) == IF x.level < level THEN Paren(x) ELSE x
Not(x) ==
  [text |-> <<"NOT">> \o Operand(x, 3).text, level |-> 3, sat |-> (SUBSET Words) \ x.sat]
And(x, y) ==
  [text |-> Operand(x, 2).text \o <<"AND">> \o Operand(y, 3).text, level |-> 2,
   sat |-> x.sat \cap y.sat]
Or(x, y) ==
  [text |-> x.text \o <<"OR">> \o Operand(y, 2).text, level |-> 1,
   sat |-> x.sat \cup y.sat]

Simple == {Word(w) : w \in Words}
Nots == {Not(x) : x \in Simple}
Ands == {And(x, y) : x \in Simple, y \in Simple}
Ors == {Or(x, y) : x \in Simple, y \in Simple}
Exprs ==
  Simple \cup Nots \cup Ands \cup Ors \cup {Not(x) : x \in Nots \cup Ands \cup Ors}
  \cup {And(x, y) : x \in Simple, y \in Nots \cup Ors}
  \cup {Or(x, y) : x \in Nots \cup Ands, y \in Simple}

(* A document satisfies an expression by its own keywords.                 *)
Holds(x, d) == slots[d] # NoDoc /\ Index(d) \in x.sat

-----------------------------------------------------------------------------
(* Keywords are one cell.                                                  *)
SelectRequest(q) ==
  [client_id |-> Client_id, type |-> SELECT, select_type |-> q.type,
   terms |-> [i \in DOMAIN q.terms |-> <<q.terms[i]>>], bool_expr |-> q.bool_expr]

InLower(text) ==
  [i \in DOMAIN text |-> IF text[i] \in DOMAIN Lower THEN Lower[text[i]] ELSE text[i]]

(* The programs that arrive for a text.                                    *)
Received(r) ==
  [terms |-> [i \in DOMAIN r.terms |-> r.terms[i][1]], bool_expr |-> r.bool_expr]

Arriving(text) ==
  {Received(Transported(SelectRequest(ClientSelect(text)))),
   Received(GatewayTransported(SelectRequest(GatewaySelect(InLower(text)))))}

Arrived == [text \in {x.text : x \in Exprs} |-> Arriving(text)]

Reply(type, S) ==
  LET resp == SelectResponse(type, ResultDoc(type, S))
  IN  [status |-> OK, type |-> SELECT_RESULT,
       doc_ids |-> resp.doc_ids, doc_contents |-> resp.doc_contents]

(* What client and gateway see if S are the matches.                       *)
Seen(type, S) ==
  {ClientView(type, Answered(Reply(type, S))),
   format_select_response(type, GatewayAnswered(Reply(type, S)))}

(* A query answers with the documents that satisfy it: a document whose    *)
(* postings are not known to be wrong is among the matches exactly if its  *)
(* own keywords satisfy the expression that was written, in the client or  *)
(* in the gateway.                                                         *)
AnswersExact ==
  session # "down" =>
    \A x \in Exprs :
      \A r \in Arrived[x.text] : LET found == Matches(r, postings, all_docs)
      IN  \A d \in Docs : Tracked(d) => (d \in found <=> Holds(x, d))

(* What follows does not depend on the state: it is evaluated in the       *)
(* states before the first update only.                                    *)
Fresh == updates = 0

(* What client and gateway see of a set of matches is the aggregate of all *)
(* of them, or the first retrieval_limit of them with the content of each. *)
ReplyExact(S) ==
  /\ \A rows \in Seen(0, S) :
       LET n == Cardinality(S)
       IN  /\ Len(rows) = IF n < retrieval_limit THEN n ELSE retrieval_limit
           /\ \A i \in DOMAIN rows :
                /\ rows[i] = <<rows[i][1], rows[i][1]>>
                /\ rows[i][1] \in S
                /\ Cardinality({d \in S : d < rows[i][1]}) = i - 1
  /\ LET sum == SumSet(S) IN \A type \in 1..4 :
       Seen(type, S) =
         {[matched |-> Cardinality(S),
           value |-> IF S = {} THEN 0
                     ELSE <<Max(S), Min(S), sum, sum \div Cardinality(S)>>[type]]}

(* No reply to a query is cut short, reordered or summed up wrongly,       *)
(* whatever matches.                                                       *)
RepliesExact == Fresh => \A S \in SUBSET (1..4) : ReplyExact(S)

Letter == 65   \* any byte but NUL
TooLong == [i \in 1..(MAX_INDEX_SIZE + MAX_DOC_SIZE) |-> Letter]
Data == {[i \in 1..n |-> Letter] : n \in {0, 1, 2, 255, 256, 300}}
InitSamples ==
  [client_id : {Client_id, OtherClient_id}, type : {INIT}, key : {"key"},
   mode : {INIT_MODE_CREATE, INIT_MODE_RESUME}, target_edb_id : {0, 1, 255, 256, 70000}]
ShutdownSamples == [client_id : {Client_id}, type : {SHUTDOWN}, reserved : {0}]
Ops == 0..2
DocIds == {1, 256, 65536}
SplitSamples ==
  [client_id : {Client_id}, type : {UPDATE}, op : Ops, doc_id : DocIds,
   flags : {UPDATE_SPLIT}, index_content : Data, doc_content : Data]
LegacySamples ==
  [client_id : {Client_id}, type : {UPDATE}, op : Ops, doc_id : DocIds,
   flags : {UPDATE_LEGACY}, index_content : {<<>>}, doc_content : Data]
Samples == InitSamples \cup ShutdownSamples \cup SplitSamples \cup LegacySamples

InitAnswers == [status : {OK, ERROR}, type : {INIT_RESULT}, edb_id : {0, 1, 255}]
UpdateAnswers ==
  [status : {OK, ERROR}, type : {UPDATE_RESULT}, success : {0, 1}, doc_id : DocIds]
ShutdownAnswers == [status : {OK, ERROR}, type : {SHUTDOWN_RESULT}, success : {0, 1}]
Answers == InitAnswers \cup UpdateAnswers \cup ShutdownAnswers

(* A request and its answer arrive as they were sent: kind, numbers, and   *)
(* every keyword and content with its length, for ids of one byte (those   *)
(* of clients, and of databases in the answer to INIT, are no wider).  The *)
(* gateway compiles a query like the client, and cuts an update that is    *)
(* too long before the server refuses it.                                  *)
WireRoundTrip ==
  Fresh =>
  /\ \A r \in Samples : Transported(r) = r /\ GatewayTransported(r) = r
  /\ \A r \in Answers : Answered(r) = r /\ GatewayAnswered(r) = r
  /\ \A x \in Exprs, type \in 0..4 :
       LET text == (IF type = 0 THEN <<>> ELSE <<Aggregates[type]>>) \o x.text
           q == ClientSelect(text)
       IN  /\ q.ok /\ q.type = type /\ GatewaySelect(InLower(text)) = q
           /\ Transported(SelectRequest(q)) = SelectRequest(q)
  /\ \A keywords, doc \in Data \cup {TooLong} :
       LET r == build_update_request(Client_id, 1, 1, keywords, doc) IN
       /\ GatewayTransported(r) = r
       /\ trim_trailing_null(r.index_content) = Cut(keywords, MAX_INDEX_SIZE - 1)

(* A document is read as it was stored, whatever the lengths of index and  *)
(* body, the padding and the format it was stored in, and without the NUL  *)
(* a client sends behind it.                                               *)
WithNul(data) == data \o <<NUL>>
KeptWhole(keywords, body, v) ==
  LET slot == [slot_version |-> v, index |-> keywords, body |-> body] IN
  /\ \A plain \in Stored(keywords, WithNul(body), v) \cup Stored(WithNul(keywords), body, v) :
       Len(plain) = MAX_FILE_SIZE /\ ReadSlot(plain) = slot
  /\ \A plain \in pack_doc_bundle_v1(keywords, body) :
       ReadSlot(plain) = [slot EXCEPT !.slot_version = 0]

(* Of one that is too long for its string no more is lost than the body    *)
(* and, if it is too long itself, the index: never the version.            *)
KeptInPart(keywords, body, v) ==
  \A plain \in Stored(keywords, body, v) \ {Crashed} :
    /\ Len(plain) = MAX_FILE_SIZE
    /\ ReadSlot(plain) =
         [slot_version |-> v, body |-> trim_trailing_null(plain),
          index |-> IF 9 + Len(keywords) <= MAX_FILE_SIZE THEN keywords ELSE <<>>]

SlotVersions == {1, 256, 70000}
BundleRoundTrip ==
  Fresh => \A keywords, body \in Data :
    /\ \A v \in SlotVersions :
         IF Overruns(keywords, body) THEN KeptInPart(keywords, body, v)
         ELSE KeptWhole(keywords, body, v)
    /\ 2 + Len(keywords) <= MAX_FILE_SIZE =>
         ReadSlot(pack_doc_bundle_legacy(WithNul(keywords)))
           = [slot_version |-> 0, index |-> keywords, body |-> <<>>]

(* Nothing is lost or moved on any way data takes in binary form: between  *)
(* client and server, and, but for what a string of MAX_FILE_SIZE has no   *)
(* room for, between the enclave and the stored slots.                     *)
RoundTrips == WireRoundTrip /\ BundleRoundTrip
=============================================================================
