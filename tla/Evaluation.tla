------------------------------ MODULE Evaluation ------------------------------
(***************************************************************************)
(* The stack machine that evaluates the postfix code of a query over the   *)
(* bitmaps of its terms (CryptoEnclave.cpp: handle_select).  A bitmap is   *)
(* the set of its documents.                                               *)
(***************************************************************************)
EXTENDS Integers, Sequences

OP_TERM == 1
OP_AND == 2
OP_OR == 3
OP_NOT == 4

(* One turn of the loop.  The top of the stack is its head; after OP_TERM  *)
(* comes the place of the term, counted from 0, and postings[w] is what    *)
(* Search(w) finds.  A token that is none of these is passed over.         *)
Step(req, m, postings, all_docs) ==
  LET token == req.bool_expr[m.pos]
      push(n, bm, stk) == [pos |-> m.pos + n, stk |-> <<bm>> \o stk]
  IN  IF m.pos > Len(req.bool_expr) THEN m
      ELSE CASE token = OP_TERM ->
                  push(2, postings[req.terms[req.bool_expr[m.pos + 1] + 1]], m.stk)
             [] token = OP_AND -> push(1, m.stk[2] \cap m.stk[1], Tail(Tail(m.stk)))
             [] token = OP_OR -> push(1, m.stk[2] \cup m.stk[1], Tail(Tail(m.stk)))
             [] token = OP_NOT -> push(1, all_docs \ m.stk[1], Tail(m.stk))
             [] OTHER -> [m EXCEPT !.pos = @ + 1]

(* The bitmap that is left: no code takes more turns than it has tokens.   *)
Matches(req, postings, all_docs) ==
  LET n == Len(req.bool_expr)
      run[i \in 0..n] ==
        IF i = 0 THEN [pos |-> 1, stk |-> <<>>]
        ELSE Step(req, run[i - 1], postings, all_docs)
  IN  Head(run[n].stk)
=============================================================================
