---------------------------- MODULE RequestsProofs ----------------------------
(***************************************************************************)
(* That a query answers with the documents that satisfy it: the parser     *)
(* turns the text of an expression into a program whose bitmap is, for     *)
(* every index, the documents the expression holds of.  That nothing is    *)
(* lost on the wire or in the stored slots, and that replies are exact.    *)
(***************************************************************************)
EXTENDS Requests, DocUpdatesProofs, WireProofs, FiniteSetTheorems

-----------------------------------------------------------------------------
(* The functions of a parser.  IsCalls: a table of them, as Depths builds. *)
Letters == Words \cup Reserved

IsCalls(f, n, Q) ==
  f = [i \in 0..n |-> IF i = 0 THEN <<>> ELSE Calls(f[i - 1], Q)]

LEMMA CallsExist ==
  ASSUME NEW Q, NEW n \in Nat
  PROVE  \E f : IsCalls(f, n, Q)
<1> DEFINE Bad == {m \in 0..n : ~\E f : IsCalls(f, m, Q)}
<1> SUFFICES ASSUME Bad # {} PROVE FALSE
  OBVIOUS
<1>0. Bad \subseteq Nat
  OBVIOUS
<1> HIDE DEF Bad
<1>1. PICK m \in Bad : \A k \in Bad : m <= k
  BY <1>0, Least
<1>a. m \in 0..n /\ ~\E f : IsCalls(f, m, Q)
  BY <1>1 DEF Bad
<1>2. CASE m = 0
  <2>1. IsCalls([i \in 0..0 |-> <<>>], 0, Q)
    BY DEF IsCalls
  <2> QED BY <1>a, <1>2, <2>1
<1>3. CASE m # 0
  <2>0. m - 1 \in 0..n /\ ~(m <= m - 1)
    BY <1>a, <1>3
  <2>1. m - 1 \notin Bad
    BY <1>1, <2>0
  <2>2. PICK f : IsCalls(f, m - 1, Q)
    BY <2>0, <2>1 DEF Bad
  <2>3. f = [i \in 0..(m - 1) |-> IF i = 0 THEN <<>> ELSE Calls(f[i - 1], Q)]
    BY <2>2 DEF IsCalls
  <2> DEFINE g == [i \in 0..m |-> IF i = 0 THEN <<>> ELSE Calls(f[i - 1], Q)]
             h == [i \in 0..m |-> IF i = 0 THEN <<>> ELSE Calls(g[i - 1], Q)]
  <2>4. \A i \in 0..(m - 1) : g[i] = f[i]
    <3>1. \A i \in 0..(m - 1) : f[i] = IF i = 0 THEN <<>> ELSE Calls(f[i - 1], Q)
      BY <2>3, Zenon
    <3>2. \A i \in 0..(m - 1) : g[i] = IF i = 0 THEN <<>> ELSE Calls(f[i - 1], Q)
      <4>1. \A i \in 0..(m - 1) : i \in 0..m
        BY <1>a
      <4> QED BY <4>1, Zenon
    <3> QED BY <3>1, <3>2, Zenon
  <2>5. \A i \in 0..m : i # 0 => g[i - 1] = f[i - 1]
    <3>1. \A i \in 0..m : i # 0 => i - 1 \in 0..(m - 1)
      BY <1>a
    <3> QED BY <3>1, <2>4
  <2>6. g = h
    BY <2>5, Zenon
  <2>7. IsCalls(g, m, Q)
    BY <2>6, Zenon DEF IsCalls
  <2> QED BY <1>a, <2>7
<1> QED BY <1>2, <1>3

LEMMA Deepened ==
  ASSUME NEW Q, NEW n \in Nat, NEW k \in 1..n
  PROVE  Depths(n, Q)[k] = Calls(Depths(n, Q)[k - 1], Q)
<1> DEFINE c == CHOOSE f : IsCalls(f, n, Q)
<1>1. IsCalls(c, n, Q)
  BY CallsExist, Zenon
<1>2. Depths(n, Q) = c
  BY Zenon DEF Depths, IsCalls
<1> HIDE DEF c
<1>3. c[k] = IF k = 0 THEN <<>> ELSE Calls(c[k - 1], Q)
  <2>1. k \in 0..n
    OBVIOUS
  <2> QED BY <1>1, <2>1, Zenon DEF IsCalls
<1>4. k # 0
  OBVIOUS
<1> QED BY <1>2, <1>3, <1>4, Zenon

(* A parser, and what it does with its functions k calls deep.             *)
Parser(p) == p \in Parsers(p) /\ p.tokens \in Seq(Letters)
Depth(p, k) == Depths(Len(p.tokens), Parsers(p))[k]
ExprAt(p, k) == ParseExpr(Depth(p, k), p)
TermAt(p, k) == ParseTerm(Depth(p, k), p)
UnaryAt(p, k) == ParseUnary(Depth(p, k), p)
AndsAt(p, k) == AndTail(Depth(p, k), p)
OrsAt(p, k) == OrTail(Depth(p, k), p)

LEMMA ParserOf ==
  ASSUME NEW p, Parser(p), NEW q \in Parsers(p)
  PROVE  /\ Parser(q) /\ Parsers(q) = Parsers(p)
         /\ q.tokens = p.tokens /\ q.upper = p.upper /\ Len(p.tokens) \in Nat
         /\ q.pos \in 1..(Len(p.tokens) + 1) /\ q.ok \in BOOLEAN /\ q.bool_expr \in Seq(Nat)
         /\ \A k : Depth(q, k) = Depth(p, k)
<1>1. q.tokens = p.tokens /\ q.upper = p.upper
  BY DEF Parsers
<1>2. Parsers(q) = Parsers(p)
  BY <1>1, Zenon DEF Parsers
<1>3. Parser(q)
  BY <1>1, <1>2, Zenon DEF Parser
<1>4. Len(p.tokens) \in Nat
  BY DEF Parser
<1>5. q.pos \in 1..(Len(p.tokens) + 1) /\ q.ok \in BOOLEAN /\ q.bool_expr \in Seq(Nat)
  BY DEF Parsers
<1>6. \A k : Depth(q, k) = Depth(p, k)
  BY <1>1, <1>2, Zenon DEF Depth
<1> QED BY <1>1, <1>2, <1>3, <1>4, <1>5, <1>6

LEMMA Called ==
  ASSUME NEW p, Parser(p), NEW q \in Parsers(p), NEW k \in 1..Len(p.tokens)
  PROVE  /\ Depth(p, k).expr[q] = ExprAt(q, k - 1) /\ Depth(p, k).term[q] = TermAt(q, k - 1)
         /\ Depth(p, k).unary[q] = UnaryAt(q, k - 1)
         /\ Depth(p, k).and_tail[q] = AndsAt(q, k - 1) /\ Depth(p, k).or_tail[q] = OrsAt(q, k - 1)
<1> DEFINE f == Depth(p, k - 1)
           Q == Parsers(p)
<1>1. Depth(p, k) = Calls(f, Q)
  BY Deepened, ParserOf DEF Depth
<1>2. f = Depth(q, k - 1)
  BY ParserOf
<1> HIDE DEF f, Q
<1>3. /\ Calls(f, Q).expr = [r \in Q |-> ParseExpr(f, r)]
      /\ Calls(f, Q).term = [r \in Q |-> ParseTerm(f, r)]
      /\ Calls(f, Q).unary = [r \in Q |-> ParseUnary(f, r)]
      /\ Calls(f, Q).and_tail = [r \in Q |-> AndTail(f, r)]
      /\ Calls(f, Q).or_tail = [r \in Q |-> OrTail(f, r)]
  BY Zenon DEF Calls
<1>4. q \in Q
  BY DEF Q
<1>5. /\ Calls(f, Q).expr[q] = ParseExpr(f, q)
      /\ Calls(f, Q).term[q] = ParseTerm(f, q)
      /\ Calls(f, Q).unary[q] = ParseUnary(f, q)
      /\ Calls(f, Q).and_tail[q] = AndTail(f, q)
      /\ Calls(f, Q).or_tail[q] = OrTail(f, q)
  BY <1>3, <1>4, Zenon
<1> QED BY <1>1, <1>2, <1>5, Zenon DEF ExprAt, TermAt, UnaryAt, AndsAt, OrsAt

-----------------------------------------------------------------------------
(* A parser that has gone on by n tokens, with the keywords kw, and has    *)
(* written the program c.                                                  *)
Moved(p, q, n, kw, c) ==
  /\ q \in Parsers(p) /\ q.ok /\ q.pos = p.pos + n
  /\ q.keywords = kw /\ q.bool_expr = p.bool_expr \o c

LEMMA SkipMoved ==
  ASSUME NEW p, Parser(p), p.ok, p.pos <= Len(p.tokens)
  PROVE  Moved(p, Skip(p), 1, p.keywords, <<>>)
<1>1. Len(p.tokens) \in Nat /\ p.pos \in 1..(Len(p.tokens) + 1) /\ p.bool_expr \in Seq(Nat)
  BY ParserOf DEF Parser
<1>2. p.pos + 1 \in 1..(Len(p.tokens) + 1)
  BY <1>1
<1>3. p.bool_expr = p.bool_expr \o <<>>
  BY <1>1
<1>4. Skip(p) \in Parsers(p)
  BY <1>2 DEF Parser, Parsers, Skip
<1>5. /\ Skip(p).ok = p.ok /\ Skip(p).pos = p.pos + 1
      /\ Skip(p).keywords = p.keywords /\ Skip(p).bool_expr = p.bool_expr
  BY DEF Parser, Parsers, Skip
<1> QED BY <1>3, <1>4, <1>5, Zenon DEF Moved

LEMMA EmitMoved ==
  ASSUME NEW p, Parser(p), NEW q, NEW n, NEW kw, NEW c \in Seq(Nat), Moved(p, q, n, kw, c),
         NEW d \in Seq(Nat)
  PROVE  Moved(p, Emit(q, d), n, kw, c \o d)
<1>1. p.bool_expr \in Seq(Nat)
  BY ParserOf DEF Parser
<1>2. q \in Parsers(p) /\ q.bool_expr = p.bool_expr \o c
  BY DEF Moved
<1>3. q.bool_expr \o d = p.bool_expr \o (c \o d)
  <2>1. Cat(Cat(p.bool_expr, c), d) = Cat(p.bool_expr, Cat(c, d))
    BY <1>1, CatAssoc
  <2> QED BY <1>2, <2>1, Zenon DEF Cat
<1>4. p.bool_expr \o (c \o d) \in Seq(Nat)
  BY <1>1
<1>5. Emit(q, d) \in Parsers(p)
  BY <1>2, <1>3, <1>4 DEF Parsers, Emit
<1>6. /\ Emit(q, d).ok = q.ok /\ Emit(q, d).pos = q.pos
      /\ Emit(q, d).keywords = q.keywords /\ Emit(q, d).bool_expr = q.bool_expr \o d
  BY <1>2 DEF Parsers, Emit
<1> QED BY <1>3, <1>5, <1>6, Zenon DEF Moved

LEMMA MovedOn ==
  ASSUME NEW p, Parser(p), NEW q, NEW r, NEW m \in Nat, NEW n \in Nat, NEW kw, NEW kw2,
         NEW b \in Seq(Nat), NEW c \in Seq(Nat), Moved(p, q, m, kw, b), Moved(q, r, n, kw2, c)
  PROVE  Moved(p, r, m + n, kw2, b \o c)
<1>1. /\ q \in Parsers(p) /\ q.pos = p.pos + m /\ q.bool_expr = p.bool_expr \o b
      /\ r \in Parsers(q) /\ r.ok /\ r.pos = q.pos + n
      /\ r.keywords = kw2 /\ r.bool_expr = q.bool_expr \o c
  BY DEF Moved
<1>2. p.bool_expr \in Seq(Nat) /\ p.pos \in Nat /\ Parsers(q) = Parsers(p)
  BY <1>1, ParserOf DEF Parser
<1>3. r.bool_expr = p.bool_expr \o (b \o c)
  <2>1. Cat(Cat(p.bool_expr, b), c) = Cat(p.bool_expr, Cat(b, c))
    BY <1>2, CatAssoc
  <2> QED BY <1>1, <2>1, Zenon DEF Cat
<1>4. r.pos = p.pos + (m + n)
  BY <1>1, <1>2
<1> QED BY <1>1, <1>2, <1>3, <1>4, Zenon DEF Moved

-----------------------------------------------------------------------------
(* The tokens from where a parser stands spell a text: an operator as the  *)
(* parser sees it, a keyword as it is.                                     *)
Texts == Seq(Words \cup Symbols)
TokenAt(p, i) == IF p.upper THEN Upper(p.tokens[i]) ELSE p.tokens[i]

SpelledAt(p, t, i) ==
  /\ i <= Len(p.tokens)
  /\ IF t \in Words THEN p.tokens[i] = t ELSE TokenAt(p, i) = t

Spells(p, text) == \A i \in 1..Len(text) : SpelledAt(p, text[i], p.pos + i - 1)

(* Enough calls are left for the tokens that are left.                     *)
Deep(p, k) == k \in 0..Len(p.tokens) /\ k + p.pos > Len(p.tokens)

Fit(p, text, kw, k) ==
  Parser(p) /\ p.ok /\ p.keywords = kw /\ Spells(p, text) /\ Deep(p, k)

LEMMA WordsPlain ==
  ASSUME NEW w \in Words
  PROVE  w \notin Symbols /\ w \notin Reserved /\ Upper(w) = w
<1>1. w \notin Reserved
  BY RequestsAssumption
<1>2. w \notin Symbols /\ w \notin DOMAIN InUpper
  BY <1>1, Zenon DEF Reserved
<1> QED BY <1>1, <1>2 DEF Upper

LEMMA TokenSpelled ==
  ASSUME NEW p, NEW i, NEW t \in Words \cup Symbols, SpelledAt(p, t, i)
  PROVE  TokenAt(p, i) = t /\ (t \in Words => p.tokens[i] = t)
BY WordsPlain, Zenon DEF SpelledAt, TokenAt

LEMMA MatchToken ==
  ASSUME NEW p, p.ok, NEW t
  PROVE  Match(p, t) <=> p.pos <= Len(p.tokens) /\ t = TokenAt(p, p.pos)
BY Zenon DEF Match, TokenAt

LEMMA FirstToken ==
  ASSUME NEW p, NEW kw, NEW k, NEW text \in Texts, text # <<>>, Fit(p, text, kw, k)
  PROVE  /\ p.pos <= Len(p.tokens) /\ k \in 1..Len(p.tokens)
         /\ \A t : Match(p, t) <=> t = text[1]
         /\ text[1] \in Words => p.tokens[p.pos] = text[1]
<1>1. 1 \in 1..Len(text) /\ text[1] \in Words \cup Symbols
  BY DEF Texts
<1>2. Len(p.tokens) \in Nat /\ p.pos \in 1..(Len(p.tokens) + 1)
  BY ParserOf DEF Fit, Parser
<1>3. SpelledAt(p, text[1], p.pos)
  <2>1. SpelledAt(p, text[1], p.pos + 1 - 1)
    BY <1>1, Zenon DEF Fit, Spells
  <2>2. p.pos + 1 - 1 = p.pos
    BY <1>2
  <2> QED BY <2>1, <2>2
<1>4. p.pos <= Len(p.tokens)
  BY <1>3 DEF SpelledAt
<1>5. k \in 1..Len(p.tokens)
  BY <1>2, <1>4 DEF Fit, Deep
<1>6. TokenAt(p, p.pos) = text[1] /\ (text[1] \in Words => p.tokens[p.pos] = text[1])
  BY <1>1, <1>3, TokenSpelled
<1>7. p.ok
  BY DEF Fit
<1>8. \A t : Match(p, t) <=> t = text[1]
  <2> TAKE t
  <2>1. Match(p, t) <=> p.pos <= Len(p.tokens) /\ t = TokenAt(p, p.pos)
    BY <1>7, MatchToken
  <2> QED BY <2>1, <1>4, <1>6, Zenon
<1> QED BY <1>4, <1>5, <1>6, <1>8, Zenon

LEMMA TextsJoined ==
  ASSUME NEW s \in Texts, NEW t \in Texts
  PROVE  /\ Cat(s, t) \in Texts /\ Len(Cat(s, t)) = Len(s) + Len(t)
         /\ \A i \in 1..Len(s) : i \in 1..Len(Cat(s, t)) /\ Cat(s, t)[i] = s[i]
         /\ \A i \in 1..Len(t) :
              Len(s) + i \in 1..Len(Cat(s, t)) /\ Cat(s, t)[Len(s) + i] = t[i]
<1>1. s \in Seq(Words \cup Symbols) /\ t \in Seq(Words \cup Symbols)
  BY DEF Texts
<1>2. /\ Cat(s, t) \in Seq(Words \cup Symbols) /\ Len(Cat(s, t)) = Len(s) + Len(t)
      /\ \A i \in 1..Len(s) : Cat(s, t)[i] = s[i]
      /\ \A i \in 1..Len(t) : Cat(s, t)[Len(s) + i] = t[i]
  BY <1>1, Joined DEF Cat
<1>3. Len(s) \in Nat /\ Len(t) \in Nat
  BY <1>1
<1> QED BY <1>2, <1>3 DEF Texts

LEMMA TextLength ==
  ASSUME NEW s \in Texts, NEW t \in Texts
  PROVE  Cat(s, t) \in Texts /\ Len(Cat(s, t)) = Len(s) + Len(t) /\ Len(s) \in Nat
BY TextsJoined DEF Texts

LEMMA TextsAssoc ==
  ASSUME NEW s \in Texts, NEW t \in Texts, NEW u \in Texts
  PROVE  Cat(Cat(s, t), u) = Cat(s, Cat(t, u))
BY CatAssoc DEF Texts

LEMMA SymbolText ==
  ASSUME NEW t \in Symbols
  PROVE  <<t>> \in Texts /\ Len(<<t>>) = 1
BY DEF Texts

(* The rest of a text, for a parser that has gone on to it.                *)
LEMMA FitOn ==
  ASSUME NEW p, NEW q, NEW s \in Texts, NEW t \in Texts, NEW kw, NEW kw2, NEW c,
         NEW k, NEW j, Fit(p, Cat(s, t), kw, k), Moved(p, q, Len(s), kw2, c), Deep(q, j)
  PROVE  Fit(q, t, kw2, j)
<1>1. /\ q \in Parsers(p) /\ q.ok /\ q.pos = p.pos + Len(s) /\ q.keywords = kw2
  BY DEF Moved
<1>2. Parser(p) /\ Parser(q) /\ q.tokens = p.tokens /\ q.upper = p.upper
  BY <1>1, ParserOf DEF Fit
<1>3. Len(p.tokens) \in Nat /\ p.pos \in Nat /\ Len(s) \in Nat
  BY <1>2, ParserOf DEF Parser, Texts
<1>5. Spells(q, t)
  <2> SUFFICES ASSUME NEW i \in 1..Len(t) PROVE SpelledAt(q, t[i], q.pos + i - 1)
    BY DEF Spells
  <2>1. Len(s) + i \in 1..Len(Cat(s, t)) /\ Cat(s, t)[Len(s) + i] = t[i]
    BY TextsJoined
  <2>2. SpelledAt(p, t[i], p.pos + (Len(s) + i) - 1)
    BY <2>1, Zenon DEF Fit, Spells
  <2>3. p.pos + (Len(s) + i) - 1 = q.pos + i - 1
    BY <1>1, <1>3
  <2>4. SpelledAt(p, t[i], q.pos + i - 1)
    BY <2>2, <2>3
  <2> QED BY <2>4, <1>2, Zenon DEF SpelledAt, TokenAt
<1> QED BY <1>1, <1>2, <1>5, Zenon DEF Fit

LEMMA FitFront ==
  ASSUME NEW p, NEW s \in Texts, NEW t \in Texts, NEW kw, NEW k, Fit(p, Cat(s, t), kw, k)
  PROVE  Fit(p, s, kw, k)
<1>1. Spells(p, s)
  <2> SUFFICES ASSUME NEW i \in 1..Len(s) PROVE SpelledAt(p, s[i], p.pos + i - 1)
    BY DEF Spells
  <2>1. i \in 1..Len(Cat(s, t)) /\ Cat(s, t)[i] = s[i]
    BY TextsJoined
  <2> QED BY <2>1, Zenon DEF Fit, Spells
<1> QED BY <1>1, Zenon DEF Fit

LEMMA DeepOn ==
  ASSUME NEW p, Parser(p), NEW k, Deep(p, k), NEW q, NEW n \in Nat, NEW kw, NEW c,
         Moved(p, q, n, kw, c)
  PROVE  Deep(q, k) /\ (n # 0 /\ k # 0 => Deep(q, k - 1))
<1>1. /\ q.pos = p.pos + n /\ q.tokens = p.tokens
      /\ Len(p.tokens) \in Nat /\ p.pos \in Nat
  BY ParserOf DEF Moved, Parser
<1> QED BY <1>1, SMTT(60) DEF Deep

(* A symbol at the front of a text is matched, and passed.                 *)
LEMMA FitSymbol ==
  ASSUME NEW p, NEW kw, NEW k, NEW t \in Symbols, NEW text \in Texts,
         Fit(p, Cat(<<t>>, text), kw, k)
  PROVE  /\ \A u : Match(p, u) <=> u = t
         /\ p.pos <= Len(p.tokens) /\ k \in 1..Len(p.tokens) /\ Deep(Skip(p), k - 1)
         /\ Moved(p, Skip(p), 1, kw, <<>>) /\ Fit(Skip(p), text, kw, k - 1)
<1> DEFINE s == <<t>>
<1>1. s \in Texts /\ Len(s) = 1 /\ s # <<>> /\ s[1] = t
  BY DEF Texts
<1> HIDE DEF s
<1>2. Fit(p, Cat(s, text), kw, k)
  BY DEF s
<1>3. Fit(p, s, kw, k)
  BY <1>1, <1>2, FitFront
<1>4. p.pos <= Len(p.tokens) /\ k \in 1..Len(p.tokens) /\ \A u : Match(p, u) <=> u = t
  BY <1>1, <1>3, FirstToken
<1>5. Parser(p) /\ p.ok /\ p.keywords = kw /\ Deep(p, k)
  BY <1>3 DEF Fit
<1>6. Moved(p, Skip(p), 1, kw, <<>>)
  BY <1>4, <1>5, SkipMoved
<1>7. k # 0 /\ 1 \in Nat /\ 1 # 0
  BY <1>4
<1>8. Deep(Skip(p), k - 1)
  BY <1>5, <1>6, <1>7, DeepOn, Zenon
<1>9. Moved(p, Skip(p), Len(s), kw, <<>>)
  BY <1>1, <1>6, Zenon
<1>10. Fit(Skip(p), text, kw, k - 1)
  <2>1. ASSUME NEW q, Moved(p, q, Len(s), kw, <<>>), NEW j, Deep(q, j)
        PROVE  Fit(q, text, kw, j)
    BY <1>1, <1>2, <2>1, FitOn
  <2> QED BY <1>8, <1>9, <2>1
<1> QED BY <1>4, <1>6, <1>8, <1>10

-----------------------------------------------------------------------------
(* What the functions make of a text: c, the keywords kw2 if they had kw.  *)
(* A term, and an expression, goes on with the tokens behind its first     *)
(* operands; what stands behind an expression binds no tighter.            *)
ReadsUnary(text, kw, kw2, c) ==
  \A p, k : Fit(p, text, kw, k) => Moved(p, UnaryAt(p, k), Len(text), kw2, c)

ReadsTerm(text, kw, kw2, c) ==
  \A p, k : Fit(p, text, kw, k) =>
    \E q, j : Moved(p, q, Len(text), kw2, c) /\ Deep(q, j) /\ TermAt(p, k) = AndsAt(q, j)

Follows(p, n, t) == p.pos + n <= Len(p.tokens) /\ TokenAt(p, p.pos + n) = t

ReadsExpr(text, kw, kw2, c) ==
  \A p, k : Fit(p, text, kw, k) /\ ~Follows(p, Len(text), "AND") =>
    \E q, j : Moved(p, q, Len(text), kw2, c) /\ Deep(q, j) /\ ExprAt(p, k) = OrsAt(q, j)

LEMMA UnaryIsTerm ==
  ASSUME NEW text \in Texts, NEW kw, NEW kw2, NEW c, ReadsUnary(text, kw, kw2, c)
  PROVE  ReadsTerm(text, kw, kw2, c)
<1> SUFFICES ASSUME NEW p, NEW k, Fit(p, text, kw, k)
             PROVE  \E q, j : /\ Moved(p, q, Len(text), kw2, c) /\ Deep(q, j)
                              /\ TermAt(p, k) = AndsAt(q, j)
  BY DEF ReadsTerm
<1> DEFINE q == UnaryAt(p, k)
<1>1. Moved(p, q, Len(text), kw2, c)
  BY Zenon DEF ReadsUnary
<1>2. TermAt(p, k) = AndTail(Depth(p, k), q)
  BY Zenon DEF TermAt, UnaryAt, ParseTerm
<1> HIDE DEF q
<1>3. Parser(p) /\ Deep(p, k) /\ Len(text) \in Nat
  BY DEF Fit, Texts
<1>4. Depth(q, k) = Depth(p, k)
  BY <1>1, <1>3, ParserOf DEF Moved
<1>5. Deep(q, k)
  BY <1>1, <1>3, DeepOn
<1> QED BY <1>1, <1>2, <1>4, <1>5, Zenon DEF AndsAt

LEMMA AndsEnd ==
  ASSUME NEW p, Parser(p), NEW q, NEW n, NEW kw, NEW c, Moved(p, q, n, kw, c),
         ~Follows(p, n, "AND"), NEW j
  PROVE  AndsAt(q, j) = q
<1>1. q \in Parsers(p) /\ q.ok /\ q.pos = p.pos + n
  BY Zenon DEF Moved
<1>2. q.tokens = p.tokens /\ q.upper = p.upper
  BY <1>1, ParserOf
<1>3. Match(q, "AND") <=> q.pos <= Len(q.tokens) /\ "AND" = TokenAt(q, q.pos)
  BY <1>1, MatchToken
<1>4. ~Match(q, "AND")
  BY <1>1, <1>2, <1>3, Zenon DEF Follows, TokenAt
<1> QED BY <1>4, Zenon DEF AndsAt, AndTail

LEMMA TermIsExpr ==
  ASSUME NEW text \in Texts, NEW kw, NEW kw2, NEW c, ReadsTerm(text, kw, kw2, c)
  PROVE  ReadsExpr(text, kw, kw2, c)
<1> SUFFICES ASSUME NEW p, NEW k, Fit(p, text, kw, k), ~Follows(p, Len(text), "AND")
             PROVE  \E q, j : /\ Moved(p, q, Len(text), kw2, c) /\ Deep(q, j)
                              /\ ExprAt(p, k) = OrsAt(q, j)
  BY DEF ReadsExpr
<1>1. PICK q, j : /\ Moved(p, q, Len(text), kw2, c) /\ Deep(q, j)
                  /\ TermAt(p, k) = AndsAt(q, j)
  BY Zenon DEF ReadsTerm
<1>2. Parser(p) /\ Deep(p, k) /\ Len(text) \in Nat
  BY DEF Fit, Texts
<1>3. TermAt(p, k) = q
  BY <1>1, <1>2, AndsEnd
<1>4. ExprAt(p, k) = OrTail(Depth(p, k), q)
  BY <1>3, Zenon DEF ExprAt, TermAt, ParseExpr
<1>5. Depth(q, k) = Depth(p, k)
  BY <1>1, <1>2, ParserOf DEF Moved
<1>6. Deep(q, k)
  BY <1>1, <1>2, DeepOn
<1> QED BY <1>1, <1>4, <1>5, <1>6, Zenon DEF OrsAt

-----------------------------------------------------------------------------
(* How a parser reads each kind of text.                                   *)
LEMMA NotReads ==
  ASSUME NEW text \in Texts, NEW kw, NEW kw2, NEW c \in Seq(Nat), ReadsUnary(text, kw, kw2, c)
  PROVE  ReadsUnary(Cat(<<"NOT">>, text), kw, kw2, Cat(c, <<OP_NOT>>))
<1> DEFINE n == Len(Cat(<<"NOT">>, text))
<1> SUFFICES ASSUME NEW p, NEW k, Fit(p, Cat(<<"NOT">>, text), kw, k)
             PROVE  Moved(p, UnaryAt(p, k), n, kw2, Cat(c, <<OP_NOT>>))
  BY DEF ReadsUnary
<1> DEFINE r == Skip(p)
           u == UnaryAt(r, k - 1)
<1>1. "NOT" \in Symbols /\ <<"NOT">> \in Texts /\ Len(<<"NOT">>) = 1 /\ Len(text) \in Nat
  BY DEF Symbols, Texts
<1>2. n = 1 + Len(text)
  BY <1>1, TextsJoined
<1>3. /\ Match(p, "NOT") /\ k \in 1..Len(p.tokens)
      /\ Moved(p, r, 1, kw, <<>>) /\ Fit(r, text, kw, k - 1)
  BY <1>1, FitSymbol
<1>4. Parser(p) /\ r \in Parsers(p)
  BY <1>3 DEF Fit, Moved
<1>5. UnaryAt(p, k) = Emit(u, <<OP_NOT>>)
  <2>1. Depth(p, k).unary[r] = u
    BY <1>3, <1>4, Called
  <2> QED BY <1>3, <2>1, Zenon DEF UnaryAt, ParseUnary
<1>6. Moved(r, u, Len(text), kw2, c)
  BY <1>3, Zenon DEF ReadsUnary
<1> HIDE DEF u, r, n
<1>7. Moved(p, u, n, kw2, c)
  <2>1. 1 \in Nat /\ <<>> \in Seq(Nat) /\ <<>> \o c = c
    OBVIOUS
  <2>2. Moved(p, u, 1 + Len(text), kw2, <<>> \o c)
    BY <1>1, <1>3, <1>4, <1>6, <2>1, MovedOn, Zenon
  <2> QED BY <1>2, <2>1, <2>2, Zenon
<1>8. <<OP_NOT>> \in Seq(Nat)
  BY DEF OP_NOT
<1> QED BY <1>4, <1>5, <1>7, <1>8, EmitMoved, Zenon DEF Cat

LEMMA CodesJoined ==
  ASSUME NEW b \in Seq(Nat), NEW c \in Seq(Nat), NEW d \in Seq(Nat)
  PROVE  Cat(c, d) \in Seq(Nat) /\ Cat(Cat(b, c), d) = Cat(b, Cat(c, d))
BY CatSeq, CatAssoc

LEMMA AndReads ==
  ASSUME NEW s \in Texts, NEW t \in Texts, NEW kw, NEW kw1, NEW kw2,
         NEW b \in Seq(Nat), NEW c \in Seq(Nat),
         ReadsTerm(s, kw, kw1, b), ReadsUnary(t, kw1, kw2, c)
  PROVE  ReadsTerm(Cat(s, Cat(<<"AND">>, t)), kw, kw2, Cat(Cat(b, c), <<OP_AND>>))
<1> DEFINE text == Cat(s, Cat(<<"AND">>, t))
           code == Cat(Cat(b, c), <<OP_AND>>)
<1> SUFFICES ASSUME NEW p, NEW k, Fit(p, text, kw, k)
             PROVE  \E q, j : /\ Moved(p, q, Len(text), kw2, code) /\ Deep(q, j)
                              /\ TermAt(p, k) = AndsAt(q, j)
  BY DEF ReadsTerm
<1>1. /\ "AND" \in Symbols /\ <<"AND">> \in Texts /\ Len(<<"AND">>) = 1
      /\ Len(s) \in Nat /\ Len(t) \in Nat
  BY DEF Symbols, Texts
<1>2. Cat(<<"AND">>, t) \in Texts /\ Len(Cat(<<"AND">>, t)) = 1 + Len(t)
  BY <1>1, TextsJoined
<1>3. Len(text) = Len(s) + (1 + Len(t))
  BY <1>2, TextsJoined
<1>4. Parser(p) /\ Fit(p, s, kw, k)
  BY <1>2, FitFront DEF Fit
<1>5. PICK q, j : Moved(p, q, Len(s), kw1, b) /\ Deep(q, j) /\ TermAt(p, k) = AndsAt(q, j)
  BY <1>4, Zenon DEF ReadsTerm
<1>6. Fit(q, Cat(<<"AND">>, t), kw1, j)
  BY <1>2, <1>5, FitOn
<1> HIDE DEF text
<1> DEFINE r == Skip(q)
           u == UnaryAt(r, j - 1)
           v == Emit(u, <<OP_AND>>)
<1>7. /\ Match(q, "AND") /\ j \in 1..Len(q.tokens) /\ Parser(q)
      /\ Moved(q, r, 1, kw1, <<>>) /\ Fit(r, t, kw1, j - 1) /\ Deep(r, j - 1)
  BY <1>1, <1>6, FitSymbol DEF Fit
<1>8. Moved(r, u, Len(t), kw2, c)
  BY <1>7, Zenon DEF ReadsUnary
<1>9. Moved(q, u, 1 + Len(t), kw2, c) /\ r \in Parsers(q)
  <2>1. 1 \in Nat /\ <<>> \in Seq(Nat) /\ <<>> \o c = c
    OBVIOUS
  <2> HIDE DEF r, u
  <2>2. Moved(q, u, 1 + Len(t), kw2, <<>> \o c)
    BY <1>1, <1>7, <1>8, <2>1, MovedOn, Zenon
  <2> QED BY <1>7, <2>1, <2>2, Zenon DEF Moved
<1>10. Moved(q, v, 1 + Len(t), kw2, Cat(c, <<OP_AND>>)) /\ <<OP_AND>> \in Seq(Nat)
  <2>1. <<OP_AND>> \in Seq(Nat)
    BY DEF OP_AND
  <2> HIDE DEF r, u
  <2> QED BY <1>7, <1>9, <2>1, EmitMoved, Zenon DEF Cat
<1>11. AndsAt(q, j) = AndsAt(v, j - 1)
  <2>1. Depth(q, j).unary[r] = u
    BY <1>7, <1>9, Called
  <2>2. Depth(q, j).and_tail[v] = AndsAt(v, j - 1)
    BY <1>7, <1>10, Called DEF Moved
  <2> QED BY <1>7, <2>1, <2>2, Zenon DEF AndsAt, AndTail
<1> HIDE DEF r, u, v
<1>12. 1 + Len(t) \in Nat /\ 1 + Len(t) # 0 /\ j # 0
  BY <1>1, <1>7
<1>13. Deep(v, j - 1)
  BY <1>5, <1>7, <1>10, <1>12, DeepOn, Zenon
<1>14. Moved(p, v, Len(text), kw2, code)
  <2>1. Cat(c, <<OP_AND>>) \in Seq(Nat) /\ Cat(Cat(b, c), <<OP_AND>>) = Cat(b, Cat(c, <<OP_AND>>))
    BY <1>10, CodesJoined, Zenon
  <2>2. Moved(p, v, Len(s) + (1 + Len(t)), kw2, Cat(b, Cat(c, <<OP_AND>>)))
    BY <1>1, <1>4, <1>5, <1>10, <1>12, <2>1, MovedOn, Zenon DEF Cat
  <2> QED BY <1>3, <2>1, <2>2, Zenon
<1> QED BY <1>5, <1>11, <1>13, <1>14, Zenon

LEMMA OrReads ==
  ASSUME NEW s \in Texts, NEW t \in Texts, NEW kw, NEW kw1, NEW kw2,
         NEW b \in Seq(Nat), NEW c \in Seq(Nat),
         ReadsExpr(s, kw, kw1, b), ReadsTerm(t, kw1, kw2, c)
  PROVE  ReadsExpr(Cat(s, Cat(<<"OR">>, t)), kw, kw2, Cat(Cat(b, c), <<OP_OR>>))
<1> DEFINE text == Cat(s, Cat(<<"OR">>, t))
           code == Cat(Cat(b, c), <<OP_OR>>)
<1> SUFFICES ASSUME NEW p, NEW k, Fit(p, text, kw, k), ~Follows(p, Len(text), "AND")
             PROVE  \E q, j : /\ Moved(p, q, Len(text), kw2, code) /\ Deep(q, j)
                              /\ ExprAt(p, k) = OrsAt(q, j)
  BY DEF ReadsExpr
<1>1. /\ "OR" \in Symbols /\ <<"OR">> \in Texts /\ Len(<<"OR">>) = 1 /\ "OR" # "AND"
      /\ 1 \in 1..Len(<<"OR">>) /\ <<"OR">>[1] = "OR"
      /\ Len(s) \in Nat /\ Len(t) \in Nat
  BY DEF Symbols, Texts
<1>2. Cat(<<"OR">>, t) \in Texts /\ Len(Cat(<<"OR">>, t)) = 1 + Len(t)
      /\ 1 \in 1..Len(Cat(<<"OR">>, t)) /\ Cat(<<"OR">>, t)[1] = "OR"
  <2> DEFINE o == <<"OR">>
  <2> HIDE DEF o
  <2>1. o \in Texts /\ Len(o) = 1 /\ 1 \in 1..Len(o) /\ o[1] = "OR"
    BY <1>1 DEF o
  <2>2. /\ Cat(o, t) \in Texts /\ Len(Cat(o, t)) = Len(o) + Len(t)
        /\ \A i \in 1..Len(o) : i \in 1..Len(Cat(o, t)) /\ Cat(o, t)[i] = o[i]
    BY <2>1, TextsJoined, Zenon
  <2>3. /\ Cat(o, t) \in Texts /\ Len(Cat(o, t)) = 1 + Len(t)
        /\ 1 \in 1..Len(Cat(o, t)) /\ Cat(o, t)[1] = "OR"
    BY <2>1, <2>2, Zenon
  <2> QED BY <2>3 DEF o
<1>3. Len(text) = Len(s) + (1 + Len(t))
  BY <1>2, TextsJoined
<1>4. Parser(p) /\ Fit(p, s, kw, k) /\ p.pos \in Nat
  BY <1>2, FitFront, ParserOf DEF Fit, Parser
<1>5. ~Follows(p, Len(s), "AND")
  <2>1. SpelledAt(p, "OR", p.pos + Len(s))
    <3>1. Len(s) + 1 \in 1..Len(text) /\ text[Len(s) + 1] = "OR"
      BY <1>2, TextsJoined
    <3>2. SpelledAt(p, "OR", p.pos + (Len(s) + 1) - 1)
      BY <3>1, Zenon DEF Fit, Spells
    <3> QED BY <1>1, <1>4, <3>2
  <2>2. TokenAt(p, p.pos + Len(s)) = "OR"
    BY <1>1, <2>1, TokenSpelled
  <2> QED BY <1>1, <2>2 DEF Follows
<1>6. PICK q, j : Moved(p, q, Len(s), kw1, b) /\ Deep(q, j) /\ ExprAt(p, k) = OrsAt(q, j)
  BY <1>4, <1>5, Zenon DEF ReadsExpr
<1>7. Fit(q, Cat(<<"OR">>, t), kw1, j)
  BY <1>2, <1>6, FitOn
<1> HIDE DEF text
<1> DEFINE r == Skip(q)
           u == TermAt(r, j - 1)
           v == Emit(u, <<OP_OR>>)
<1>8. /\ Match(q, "OR") /\ j \in 1..Len(q.tokens) /\ Parser(q)
      /\ Moved(q, r, 1, kw1, <<>>) /\ Fit(r, t, kw1, j - 1) /\ Deep(r, j - 1)
  <2>1. "OR" \in Symbols /\ Parser(q)
    BY <1>7, Zenon DEF Fit, Symbols
  <2>2. /\ Match(q, "OR") /\ j \in 1..Len(q.tokens)
        /\ Moved(q, r, 1, kw1, <<>>) /\ Fit(r, t, kw1, j - 1) /\ Deep(r, j - 1)
    BY <1>1, <1>7, <2>1, FitSymbol
  <2> QED BY <2>1, <2>2
<1>9. Moved(r, u, Len(t), kw2, c)
  <2>1. PICK w, i : Moved(r, w, Len(t), kw2, c) /\ u = AndsAt(w, i)
    BY <1>8, Zenon DEF ReadsTerm
  <2>2. ~Follows(r, Len(t), "AND")
    <3>1. q.pos = p.pos + Len(s) /\ q \in Parsers(p) /\ r.pos = q.pos + 1 /\ r \in Parsers(q)
      BY <1>6, <1>8, Zenon DEF Moved
    <3>2. r.tokens = p.tokens /\ r.upper = p.upper
      <4>1. q.tokens = p.tokens /\ q.upper = p.upper
        BY <3>1, <1>4, ParserOf
      <4>2. r.tokens = q.tokens /\ r.upper = q.upper
        BY <3>1, <1>8, ParserOf
      <4> QED BY <4>1, <4>2
    <3>3. r.pos + Len(t) = p.pos + Len(text)
      BY <3>1, <1>1, <1>3, <1>4
    <3> HIDE DEF r
    <3> QED BY <3>2, <3>3, Zenon DEF Follows, TokenAt
  <2>3. Parser(r)
    BY <1>8 DEF Fit
  <2>4. AndsAt(w, i) = w
    BY <2>1, <2>2, <2>3, AndsEnd
  <2> QED BY <2>1, <2>4, Zenon
<1>10. Moved(q, u, 1 + Len(t), kw2, c) /\ r \in Parsers(q)
  <2>1. 1 \in Nat /\ <<>> \in Seq(Nat) /\ <<>> \o c = c
    OBVIOUS
  <2> HIDE DEF r, u
  <2>2. Moved(q, u, 1 + Len(t), kw2, <<>> \o c)
    BY <1>1, <1>8, <1>9, <2>1, MovedOn, Zenon
  <2> QED BY <1>8, <2>1, <2>2, Zenon DEF Moved
<1>11. Moved(q, v, 1 + Len(t), kw2, Cat(c, <<OP_OR>>)) /\ <<OP_OR>> \in Seq(Nat)
  <2>1. <<OP_OR>> \in Seq(Nat)
    BY DEF OP_OR
  <2> HIDE DEF r, u
  <2> QED BY <1>8, <1>10, <2>1, EmitMoved, Zenon DEF Cat
<1>12. OrsAt(q, j) = OrsAt(v, j - 1)
  <2>1. Depth(q, j).term[r] = u
    BY <1>8, <1>10, Called
  <2>2. Depth(q, j).or_tail[v] = OrsAt(v, j - 1)
    BY <1>8, <1>11, Called DEF Moved
  <2> QED BY <1>8, <2>1, <2>2, Zenon DEF OrsAt, OrTail
<1> HIDE DEF r, u, v
<1>13. 1 + Len(t) \in Nat /\ 1 + Len(t) # 0 /\ j # 0
  BY <1>1, <1>8
<1>14. Deep(v, j - 1)
  BY <1>6, <1>8, <1>11, <1>13, DeepOn, Zenon
<1>15. Moved(p, v, Len(text), kw2, code)
  <2>1. Cat(c, <<OP_OR>>) \in Seq(Nat) /\ Cat(Cat(b, c), <<OP_OR>>) = Cat(b, Cat(c, <<OP_OR>>))
    BY <1>11, CodesJoined, Zenon
  <2>2. Moved(p, v, Len(s) + (1 + Len(t)), kw2, Cat(b, Cat(c, <<OP_OR>>)))
    BY <1>1, <1>4, <1>6, <1>11, <1>13, <2>1, MovedOn, Zenon DEF Cat
  <2> QED BY <1>3, <2>1, <2>2, Zenon
<1> QED BY <1>6, <1>12, <1>14, <1>15, Zenon

LEMMA ParenReads ==
  ASSUME NEW text \in Texts, NEW kw, NEW kw2, NEW c \in Seq(Nat), ReadsExpr(text, kw, kw2, c)
  PROVE  ReadsUnary(Cat(<<"(">>, Cat(text, <<")">>)), kw, kw2, c)
<1> DEFINE rest == Cat(text, <<")">>)
           n == Len(Cat(<<"(">>, rest))
<1> SUFFICES ASSUME NEW p, NEW k, Fit(p, Cat(<<"(">>, rest), kw, k)
             PROVE  Moved(p, UnaryAt(p, k), n, kw2, c)
  BY DEF ReadsUnary
<1>1. /\ "(" \in Symbols /\ "(" # "NOT" /\ ")" # "OR" /\ ")" # "AND"
      /\ <<"(">> \in Texts /\ Len(<<"(">>) = 1 /\ <<")">> \in Texts /\ Len(<<")">>) = 1
      /\ <<")">> # <<>> /\ 1 \in 1..Len(<<")">>) /\ <<")">>[1] = ")" /\ Len(text) \in Nat
  BY DEF Symbols, Texts
<1>2. rest \in Texts /\ Len(rest) = Len(text) + 1 /\ n = 1 + (Len(text) + 1)
  <2>1. rest \in Texts /\ Len(rest) = Len(text) + 1
    BY <1>1, TextsJoined
  <2> HIDE DEF rest
  <2>2. n = Len(<<"(">>) + Len(rest)
    BY <1>1, <2>1, TextsJoined, Zenon
  <2> QED BY <1>1, <2>1, <2>2, Zenon
<1> HIDE DEF n, rest
<1> DEFINE r == Skip(p)
           e == ExprAt(r, k - 1)
<1>3. /\ Match(p, "(") /\ ~Match(p, "NOT") /\ k \in 1..Len(p.tokens)
      /\ Moved(p, r, 1, kw, <<>>) /\ Fit(r, rest, kw, k - 1)
  <2>1. /\ \A u : Match(p, u) <=> u = "("
        /\ k \in 1..Len(p.tokens) /\ Moved(p, r, 1, kw, <<>>) /\ Fit(r, rest, kw, k - 1)
    BY <1>1, <1>2, FitSymbol
  <2> QED BY <1>1, <2>1
<1>4. Parser(p) /\ r \in Parsers(p) /\ Parser(r) /\ r.pos \in Nat
  BY <1>3, ParserOf DEF Fit, Moved
<1>5. UnaryAt(p, k) = Expect(e, ")")
  <2>1. Depth(p, k).expr[r] = e
    BY <1>3, <1>4, Called
  <2> QED BY <1>3, <2>1, Zenon DEF UnaryAt, ParseUnary, ParseFactor
<1> HIDE DEF r, e
<1>6. ~Follows(r, Len(text), "AND")
  <2>1. SpelledAt(r, ")", r.pos + Len(text))
    <3> DEFINE x == <<")">>
    <3>1. x \in Texts /\ 1 \in 1..Len(x) /\ x[1] = ")"
      BY <1>1
    <3> HIDE DEF x
    <3>2. Len(text) + 1 \in 1..Len(Cat(text, x)) /\ Cat(text, x)[Len(text) + 1] = ")"
      BY <3>1, TextsJoined
    <3>3. SpelledAt(r, ")", r.pos + (Len(text) + 1) - 1)
      BY <1>3, <3>2, Zenon DEF Fit, Spells, x, rest
    <3> QED BY <1>1, <1>4, <3>3
  <2>2. ")" \in Symbols
    BY DEF Symbols
  <2>3. TokenAt(r, r.pos + Len(text)) = ")"
    BY <2>1, <2>2, TokenSpelled
  <2> QED BY <1>1, <2>3 DEF Follows
<1>7. Fit(r, text, kw, k - 1)
  BY <1>1, <1>3, FitFront DEF rest
<1>8. PICK q, j : /\ Moved(r, q, Len(text), kw2, c) /\ Deep(q, j)
                  /\ ExprAt(r, k - 1) = OrsAt(q, j)
  BY <1>6, <1>7, Zenon DEF ReadsExpr
<1>9. Fit(q, <<")">>, kw2, j)
  BY <1>1, <1>3, <1>8, FitOn DEF rest
<1>10. q.pos <= Len(q.tokens) /\ Match(q, ")") /\ ~Match(q, "OR")
  <2>1. q.pos <= Len(q.tokens) /\ \A t : Match(q, t) <=> t = <<")">>[1]
    BY <1>1, <1>9, FirstToken
  <2> QED BY <1>1, <2>1
<1>11. UnaryAt(p, k) = Skip(q)
  <2>1. e = q
    BY <1>8, <1>10, Zenon DEF OrsAt, OrTail, e
  <2> QED BY <1>5, <1>10, <2>1, Zenon DEF Expect
<1>12. Parser(q) /\ q.ok /\ q.keywords = kw2
  BY <1>9 DEF Fit
<1>13. Moved(q, Skip(q), 1, kw2, <<>>)
  BY <1>10, <1>12, SkipMoved
<1>14. Moved(p, Skip(q), n, kw2, c)
  <2>1. 1 \in Nat /\ <<>> \in Seq(Nat) /\ <<>> \o c = c /\ c \o <<>> = c /\ Len(text) + 1 \in Nat
    BY <1>1
  <2> DEFINE s == Skip(q)
  <2> HIDE DEF s
  <2>2. Moved(r, s, Len(text) + 1, kw2, c \o <<>>)
    BY <1>1, <1>4, <1>8, <1>13, <2>1, MovedOn, Zenon DEF s
  <2>3. Moved(r, s, Len(text) + 1, kw2, c)
    BY <2>1, <2>2, Zenon
  <2>4. Moved(p, s, 1 + (Len(text) + 1), kw2, <<>> \o c)
    BY <1>3, <1>4, <2>1, <2>3, MovedOn, Zenon
  <2> QED BY <1>2, <2>1, <2>4, Zenon DEF s
<1> QED BY <1>11, <1>14, Zenon

(* A keyword is added to the list unless it is there, and named by its     *)
(* first place.                                                            *)
Listing(kw, w) == IF Contains(kw, w) THEN kw ELSE Append(kw, w)
Place(kw, w) == SelectInSeq(Listing(kw, w), LAMBDA k : k = w)

Extends(l, kw) == Len(kw) <= Len(l) /\ \A i \in 1..Len(kw) : l[i] = kw[i]

LEMMA Placed ==
  ASSUME NEW S, NEW kw \in Seq(S), NEW w \in S
  PROVE  LET l == Listing(kw, w)
         IN  /\ l \in Seq(S) /\ Len(l) <= Len(kw) + 1 /\ Extends(l, kw)
             /\ Place(kw, w) \in 1..Len(l) /\ l[Place(kw, w)] = w
<1> DEFINE l == Listing(kw, w)
           I == {i \in 1..Len(l) : l[i] = w}
<1>1. /\ l \in Seq(S) /\ Len(l) <= Len(kw) + 1 /\ Extends(l, kw) /\ I # {}
  <2>1. CASE Contains(kw, w)
    <3>1. l = kw
      BY <2>1, Zenon DEF Listing
    <3> HIDE DEF l
    <3> QED BY <2>1, <3>1 DEF Contains, Extends
  <2>2. CASE ~Contains(kw, w)
    <3>1. l = Append(kw, w)
      BY <2>2, Zenon DEF Listing
    <3> HIDE DEF l
    <3>2. /\ l \in Seq(S) /\ Len(l) = Len(kw) + 1 /\ l[Len(kw) + 1] = w
          /\ \A i \in 1..Len(kw) : l[i] = kw[i]
      BY <3>1
    <3>3. Len(kw) \in Nat
      OBVIOUS
    <3>4. Len(kw) + 1 \in I
      BY <3>2, <3>3
    <3> QED BY <3>2, <3>3, <3>4 DEF Extends
  <2> QED BY <2>1, <2>2
<1>2. Place(kw, w) = Min(I)
  <2>1. Place(kw, w) = IF I # {} THEN Min(I) ELSE 0
    BY Zenon DEF Place, SelectInSeq
  <2> QED BY <1>1, <2>1
<1> HIDE DEF l
<1>3. I \subseteq Nat
  BY <1>1
<1>4. PICK m \in I : \A i \in I : m <= i
  BY <1>1, <1>3, Least
<1>5. Min(I) = m
  BY <1>3, <1>4, LeastIs
<1> QED BY <1>1, <1>2, <1>4, <1>5 DEF l

LEMMA WordReads ==
  ASSUME NEW w \in Words, NEW kw \in Seq(Words)
  PROVE  ReadsUnary(<<w>>, kw, Listing(kw, w), <<OP_TERM, Place(kw, w) - 1>>)
<1> DEFINE kw2 == Listing(kw, w)
           code == <<OP_TERM, Place(kw, w) - 1>>
<1> SUFFICES ASSUME NEW p, NEW k, Fit(p, <<w>>, kw, k)
             PROVE  Moved(p, UnaryAt(p, k), Len(<<w>>), kw2, code)
  BY DEF ReadsUnary
<1>0. Place(kw, w) \in 1..Len(kw2)
  BY Placed
<1>1. <<w>> \in Texts /\ <<w>> # <<>> /\ <<w>>[1] = w /\ Len(<<w>>) = 1
  BY DEF Texts
<1>2. w # "NOT" /\ w # "("
  BY WordsPlain DEF Symbols
<1>3. /\ p.pos <= Len(p.tokens) /\ p.tokens[p.pos] = w
      /\ ~Match(p, "NOT") /\ ~Match(p, "(")
  BY <1>1, <1>2, FirstToken
<1>4. Parser(p) /\ p.ok /\ p.keywords = kw
  BY DEF Fit
<1>5. Len(p.tokens) \in Nat /\ p.pos \in 1..(Len(p.tokens) + 1)
  BY <1>4, ParserOf DEF Parser
<1> DEFINE q == [Skip(p) EXCEPT !.keywords = kw2]
           S == {p.tokens[i] : i \in DOMAIN p.tokens}
<1>6. UnaryAt(p, k) = Emit(q, code)
  <2>1. ~(p.pos > Len(p.tokens) \/ ~p.ok)
    BY <1>3, <1>4, <1>5
  <2>2. ParseWord(p) = Emit(q, code)
    BY <1>3, <1>4, <2>1, Zenon DEF ParseWord, Listing, Place, SelectInSeq
  <2> QED BY <1>3, <2>2, Zenon DEF UnaryAt, ParseUnary, ParseFactor
<1>7. kw2 \in Seq(S)
  <2>1. w \in S
    <3>1. DOMAIN p.tokens = 1..Len(p.tokens)
      BY <1>4 DEF Parser
    <3> QED BY <1>3, <1>5, <3>1
  <2>2. kw \in Seq(S)
    BY <1>4 DEF Parser, Parsers
  <2> QED BY <2>1, <2>2, Placed
<1>8. Moved(p, Skip(p), 1, kw, <<>>)
  BY <1>3, <1>4, SkipMoved
<1> DEFINE r == Skip(p)
<1> HIDE DEF r, kw2, code, S
<1>9. q = [r EXCEPT !.keywords = kw2]
  BY DEF r
<1> HIDE DEF q
<1>10. r \in Parsers(p) /\ r.ok /\ r.pos = p.pos + 1 /\ r.bool_expr = p.bool_expr \o <<>>
  BY <1>8 DEF Moved, r
<1>11. q \in Parsers(p)
  BY <1>7, <1>9, <1>10 DEF Parsers, S
<1>12. q.ok = r.ok /\ q.pos = r.pos /\ q.bool_expr = r.bool_expr /\ q.keywords = kw2
  BY <1>9, <1>10 DEF Parsers
<1>13. Moved(p, q, 1, kw2, <<>>)
  BY <1>10, <1>11, <1>12, Zenon DEF Moved
<1>14. code \in Seq(Nat) /\ <<>> \in Seq(Nat) /\ <<>> \o code = code
  <2>1. Place(kw, w) \in Nat \ {0}
    BY <1>0
  <2>2. code \in Seq(Nat)
    BY <2>1 DEF code, OP_TERM
  <2> QED BY <2>2
<1>15. Moved(p, Emit(q, code), 1, kw2, <<>> \o code)
  BY <1>4, <1>13, <1>14, EmitMoved, Zenon
<1> QED BY <1>1, <1>6, <1>14, <1>15, Zenon

-----------------------------------------------------------------------------
(* A parser that starts on a text reads all of it.                         *)
LEMMA ReadsAll ==
  ASSUME NEW text \in Texts, NEW kw, NEW kw2, NEW c, ReadsExpr(text, kw, kw2, c),
         NEW p, Fit(p, text, kw, Len(p.tokens)), p.pos = 1, Len(text) = Len(p.tokens)
  PROVE  Moved(p, Parsed(p), Len(text), kw2, c)
<1>1. Len(p.tokens) \in Nat
  BY ParserOf DEF Fit, Parser
<1>2. ~Follows(p, Len(text), "AND")
  BY <1>1 DEF Follows
<1>3. PICK q, j : /\ Moved(p, q, Len(text), kw2, c) /\ Deep(q, j)
                  /\ ExprAt(p, Len(p.tokens)) = OrsAt(q, j)
  BY <1>2, Zenon DEF ReadsExpr
<1>4. Parsed(p) = ExprAt(p, Len(p.tokens))
  BY Zenon DEF Parsed, ExprAt, Depth
<1>5. q \in Parsers(p) /\ q.pos = 1 + Len(text)
  BY <1>3, Zenon DEF Moved
<1>6. q.tokens = p.tokens
  BY <1>5, ParserOf DEF Fit
<1>7. ~(q.pos <= Len(q.tokens))
  BY <1>1, <1>5, <1>6
<1>8. OrsAt(q, j) = q
  BY <1>7, Zenon DEF OrsAt, OrTail, Match
<1> QED BY <1>3, <1>4, <1>8, Zenon

-----------------------------------------------------------------------------
(* What the program of an expression finds, run for any list of keywords   *)
(* that goes on from kw, over an index that is right about the documents D *)
(* (P and A are its postings and documents, K the keywords each document   *)
(* of E has): the documents whose keywords satisfy the expression.         *)
RightOn(D, P, A, K, E) ==
  (\A w \in Words : SameOn(D, P[w], {d \in E : w \in K[d]})) /\ SameOn(D, A, E)

Satisfying(sat, K, E) == {d \in E : K[d] \in sat}

Finds(c, kw, sat) ==
  \A terms \in Seq(Words), P \in [Words -> SUBSET Docs], A \in SUBSET Docs,
     D \in SUBSET Docs, K \in [Docs -> SUBSET Words], E \in SUBSET Docs :
    Extends(terms, kw) /\ RightOn(D, P, A, K, E) =>
      Pushes(c, terms, P, A, D, Satisfying(sat, K, E))

LEMMA ExtendsOn ==
  ASSUME NEW S, NEW k \in Seq(S), NEW l \in Seq(S), NEW m \in Seq(S), Extends(l, k), Extends(m, l)
  PROVE  Extends(m, k)
<1>1. Len(k) \in Nat /\ Len(l) \in Nat /\ Len(m) \in Nat
  OBVIOUS
<1> QED BY <1>1 DEF Extends

LEMMA FindsWord ==
  ASSUME NEW w \in Words, NEW kw \in Seq(Words)
  PROVE  Finds(<<OP_TERM, Place(kw, w) - 1>>, Listing(kw, w), Word(w).sat)
<1> DEFINE l == Listing(kw, w)
           n == Place(kw, w)
<1>1. l \in Seq(Words) /\ n \in 1..Len(l) /\ l[n] = w
  BY Placed
<1>2. Word(w).sat = {k \in SUBSET Words : w \in k}
  BY DEF Word
<1> HIDE DEF l, n
<1> SUFFICES ASSUME NEW terms \in Seq(Words), NEW P \in [Words -> SUBSET Docs],
                    NEW A \in SUBSET Docs, NEW D \in SUBSET Docs,
                    NEW K \in [Docs -> SUBSET Words], NEW E \in SUBSET Docs,
                    Extends(terms, l), RightOn(D, P, A, K, E)
             PROVE  Pushes(<<OP_TERM, n - 1>>, terms, P, A, D, Satisfying(Word(w).sat, K, E))
  BY DEF Finds, l, n
<1>3. n \in 1..Len(terms) /\ terms[n] = w
  <2>1. Len(l) \in Nat /\ Len(terms) \in Nat
    BY <1>1
  <2> QED BY <1>1, <2>1 DEF Extends
<1>4. Satisfying(Word(w).sat, K, E) = {d \in E : w \in K[d]}
  BY <1>2 DEF Satisfying
<1>5. SameOn(D, P[terms[n]], Satisfying(Word(w).sat, K, E))
  BY <1>3, <1>4 DEF RightOn
<1> QED BY <1>3, <1>5, PushWord

LEMMA FindsNot ==
  ASSUME NEW c \in Seq(Nat), NEW kw, NEW sat, Finds(c, kw, sat)
  PROVE  Finds(Cat(c, <<OP_NOT>>), kw, (SUBSET Words) \ sat)
<1> SUFFICES ASSUME NEW terms \in Seq(Words), NEW P \in [Words -> SUBSET Docs],
                    NEW A \in SUBSET Docs, NEW D \in SUBSET Docs,
                    NEW K \in [Docs -> SUBSET Words], NEW E \in SUBSET Docs,
                    Extends(terms, kw), RightOn(D, P, A, K, E)
             PROVE  Pushes(Cat(c, <<OP_NOT>>), terms, P, A, D,
                           Satisfying((SUBSET Words) \ sat, K, E))
  BY DEF Finds
<1> DEFINE S == Satisfying(sat, K, E)
<1>1. Pushes(c, terms, P, A, D, S)
  BY Zenon DEF Finds
<1>2. SameOn(D, A, E)
  BY DEF RightOn
<1>3. Satisfying((SUBSET Words) \ sat, K, E) = E \ S
  BY DEF Satisfying
<1> HIDE DEF S
<1>4. Pushes(c \o <<OP_NOT>>, terms, P, A, D, E \ S)
  BY <1>1, <1>2, PushNot
<1> QED BY <1>3, <1>4, Zenon DEF Cat

LEMMA FindsBoth ==
  ASSUME NEW b \in Seq(Nat), NEW c \in Seq(Nat), NEW kw1 \in Seq(Words), NEW kw2 \in Seq(Words),
         Extends(kw2, kw1), NEW s, NEW t, Finds(b, kw1, s), Finds(c, kw2, t)
  PROVE  /\ Finds(Cat(Cat(b, c), <<OP_AND>>), kw2, s \cap t)
         /\ Finds(Cat(Cat(b, c), <<OP_OR>>), kw2, s \cup t)
<1> DEFINE bc == Cat(b, c)
           both == Cat(bc, <<OP_AND>>)
           either == Cat(bc, <<OP_OR>>)
<1>1. ASSUME NEW terms \in Seq(Words), NEW P \in [Words -> SUBSET Docs],
             NEW A \in SUBSET Docs, NEW D \in SUBSET Docs,
             NEW K \in [Docs -> SUBSET Words], NEW E \in SUBSET Docs,
             Extends(terms, kw2), RightOn(D, P, A, K, E)
      PROVE  /\ Pushes(both, terms, P, A, D, Satisfying(s \cap t, K, E))
             /\ Pushes(either, terms, P, A, D, Satisfying(s \cup t, K, E))
  <2> DEFINE R == Satisfying(s, K, E)
             T == Satisfying(t, K, E)
  <2>1. Extends(terms, kw1)
    BY <1>1, ExtendsOn
  <2>2. Pushes(b, terms, P, A, D, R) /\ Pushes(c, terms, P, A, D, T)
    BY <1>1, <2>1, Zenon DEF Finds
  <2>3. Satisfying(s \cap t, K, E) = R \cap T /\ Satisfying(s \cup t, K, E) = R \cup T
    BY DEF Satisfying
  <2> HIDE DEF R, T
  <2>4. /\ Pushes((b \o c) \o <<OP_AND>>, terms, P, A, D, R \cap T)
        /\ Pushes((b \o c) \o <<OP_OR>>, terms, P, A, D, R \cup T)
    BY <2>2, PushBoth
  <2> QED BY <2>3, <2>4, Zenon DEF Cat
<1> HIDE DEF both, either
<1>2. Finds(both, kw2, s \cap t)
  BY <1>1, Zenon DEF Finds
<1>3. Finds(either, kw2, s \cup t)
  BY <1>1, Zenon DEF Finds
<1> QED BY <1>2, <1>3 DEF both, either

-----------------------------------------------------------------------------
(* An expression of m keywords is compiled: after any keywords kw there    *)
(* are a list kw2 and a program c as they should be.                       *)
ReadsAt(level, text, kw, kw2, c) ==
  IF level = 3 THEN ReadsUnary(text, kw, kw2, c)
  ELSE IF level = 2 THEN ReadsTerm(text, kw, kw2, c) ELSE ReadsExpr(text, kw, kw2, c)

Sets == [text : Texts, level : 1..3, sat : SUBSET SUBSET Words]

CompilesTo(x, m, kw, kw2, c) ==
  /\ ReadsAt(x.level, x.text, kw, kw2, c) /\ Finds(c, kw2, x.sat)
  /\ Extends(kw2, kw) /\ Len(kw2) <= Len(kw) + m /\ Len(c) <= 2 * Len(x.text)

Compiled(x, m) ==
  /\ x \in Sets /\ m \in Nat
  /\ \A kw \in Seq(Words) :
       \E kw2 \in Seq(Words), c \in Seq(Nat) : CompilesTo(x, m, kw, kw2, c)

LEMMA CodeLength ==
  ASSUME NEW op \in {OP_NOT, OP_AND, OP_OR}, NEW b \in Seq(Nat), NEW c \in Seq(Nat)
  PROVE  /\ Cat(c, <<op>>) \in Seq(Nat) /\ Len(Cat(c, <<op>>)) = Len(c) + 1
         /\ Cat(Cat(b, c), <<op>>) \in Seq(Nat)
         /\ Len(Cat(Cat(b, c), <<op>>)) = Len(b) + Len(c) + 1
         /\ Len(b) \in Nat /\ Len(c) \in Nat
<1> DEFINE d == <<op>>
<1>1. d \in Seq(Nat) /\ Len(d) = 1
  BY DEF OP_NOT, OP_AND, OP_OR
<1> HIDE DEF d
<1>2. Cat(b, c) \in Seq(Nat) /\ Len(Cat(b, c)) = Len(b) + Len(c)
  BY CatSeq
<1>3. /\ Cat(c, d) \in Seq(Nat) /\ Len(Cat(c, d)) = Len(c) + Len(d)
      /\ Cat(Cat(b, c), d) \in Seq(Nat) /\ Len(Cat(Cat(b, c), d)) = Len(Cat(b, c)) + Len(d)
  BY <1>1, <1>2, CatSeq
<1> QED BY <1>1, <1>2, <1>3 DEF d

LEMMA ReadsLooser ==
  ASSUME NEW l \in 1..3, NEW level \in 1..3, l <= level, NEW text \in Texts,
         NEW kw, NEW kw2, NEW c, ReadsAt(level, text, kw, kw2, c)
  PROVE  ReadsAt(l, text, kw, kw2, c)
<1>1. ReadsUnary(text, kw, kw2, c) => ReadsTerm(text, kw, kw2, c)
  BY UnaryIsTerm
<1>2. ReadsTerm(text, kw, kw2, c) => ReadsExpr(text, kw, kw2, c)
  BY TermIsExpr
<1>3. l \in {1, 2, 3} /\ level \in {1, 2, 3} /\ (l = 3 => level = 3) /\ (l = 2 => level \in {2, 3})
  OBVIOUS
<1> QED BY <1>1, <1>2, <1>3 DEF ReadsAt

LEMMA WordCompiled ==
  ASSUME NEW w \in Words
  PROVE  Compiled(Word(w), 1)
<1> DEFINE x == Word(w)
<1>1. x \in Sets /\ x.text = <<w>> /\ x.level = 3
  BY DEF Word, Sets, Texts
<1>2. ASSUME NEW kw \in Seq(Words)
      PROVE  \E kw2 \in Seq(Words), c \in Seq(Nat) : CompilesTo(x, 1, kw, kw2, c)
  <2> DEFINE kw2 == Listing(kw, w)
             c == <<OP_TERM, Place(kw, w) - 1>>
  <2>0. /\ kw2 \in Seq(Words) /\ Len(kw2) <= Len(kw) + 1 /\ Extends(kw2, kw)
        /\ Place(kw, w) \in 1..Len(kw2)
    BY Placed
  <2>1. /\ kw2 \in Seq(Words) /\ Extends(kw2, kw) /\ Len(kw2) <= Len(kw) + 1
        /\ Place(kw, w) \in Nat \ {0}
    BY <2>0
  <2>2. c \in Seq(Nat) /\ Len(c) = 2 /\ Len(<<w>>) = 1
    <3> DEFINE n == Place(kw, w) - 1
    <3>1. n \in Nat
      BY <2>1
    <3> HIDE DEF n
    <3>2. <<OP_TERM, n>> \in Seq(Nat) /\ Len(<<OP_TERM, n>>) = 2
      BY <3>1 DEF OP_TERM
    <3> QED BY <3>2 DEF n
  <2>3. ReadsUnary(<<w>>, kw, kw2, c) /\ Finds(c, kw2, x.sat)
    BY WordReads, FindsWord
  <2> HIDE DEF kw2, c, x
  <2>4. Len(c) <= 2 * Len(x.text)
    BY <1>1, <2>2
  <2>5. CompilesTo(x, 1, kw, kw2, c)
    BY <1>1, <2>1, <2>3, <2>4, Zenon DEF CompilesTo, ReadsAt
  <2> QED BY <2>1, <2>2, <2>5
<1> QED BY <1>1, <1>2 DEF Compiled

LEMMA ParenCompiled ==
  ASSUME NEW x, NEW m, Compiled(x, m)
  PROVE  /\ Compiled(Paren(x), m) /\ Paren(x).level = 3 /\ Paren(x).sat = x.sat
         /\ Paren(x).text = Cat(<<"(">>, Cat(x.text, <<")">>))
         /\ Len(Paren(x).text) = Len(x.text) + 2
<1> DEFINE y == Paren(x)
           text == Cat(<<"(">>, Cat(x.text, <<")">>))
<1>0. x \in Sets /\ m \in Nat /\ x.text \in Texts /\ x.level \in 1..3
  BY DEF Compiled, Sets
<1> DEFINE o == <<"(">>
           e == <<")">>
<1>1. o \in Texts /\ e \in Texts /\ Len(o) = 1 /\ Len(e) = 1
  BY SymbolText DEF Symbols
<1> HIDE DEF o, e
<1>2. Cat(x.text, e) \in Texts /\ Len(Cat(x.text, e)) = Len(x.text) + 1 /\ Len(x.text) \in Nat
  BY <1>0, <1>1, TextLength
<1>3. Cat(o, Cat(x.text, e)) \in Texts /\ Len(Cat(o, Cat(x.text, e))) = 1 + (Len(x.text) + 1)
  BY <1>1, <1>2, TextLength
<1>4. text \in Texts /\ Len(text) = 1 + (Len(x.text) + 1) /\ Len(x.text) \in Nat
  BY <1>2, <1>3 DEF o, e
<1>5. Cat(Cat(<<"(">>, x.text), <<")">>) = text
  <2>1. Cat(Cat(o, x.text), e) = Cat(o, Cat(x.text, e))
    BY <1>0, <1>1, TextsAssoc
  <2> QED BY <2>1 DEF o, e
<1> HIDE DEF text
<1>6. y = [x EXCEPT !.text = text, !.level = 3]
  BY <1>5, Zenon DEF Paren, Cat
<1> HIDE DEF y
<1>7. y \in Sets /\ y.level = 3 /\ y.sat = x.sat /\ y.text = text
  <2>1. y = [text |-> text, level |-> 3, sat |-> x.sat]
    BY <1>0, <1>6 DEF Sets
  <2>2. x.sat \in SUBSET SUBSET Words /\ 3 \in 1..3
    BY <1>0 DEF Sets
  <2> QED BY <1>4, <2>1, <2>2 DEF Sets
<1>8. ASSUME NEW kw \in Seq(Words)
      PROVE  \E kw2 \in Seq(Words), c \in Seq(Nat) : CompilesTo(y, m, kw, kw2, c)
  <2>1. PICK kw2 \in Seq(Words), c \in Seq(Nat) : CompilesTo(x, m, kw, kw2, c)
    BY DEF Compiled
  <2>2. /\ ReadsAt(x.level, x.text, kw, kw2, c) /\ Finds(c, kw2, x.sat)
        /\ Extends(kw2, kw) /\ Len(kw2) <= Len(kw) + m /\ Len(c) <= 2 * Len(x.text)
    BY <2>1, Zenon DEF CompilesTo
  <2>3. ReadsExpr(x.text, kw, kw2, c)
    <3>1. ReadsAt(1, x.text, kw, kw2, c)
      BY <1>0, <2>2, ReadsLooser
    <3> QED BY <3>1 DEF ReadsAt
  <2>4. ReadsUnary(text, kw, kw2, c)
    BY <1>0, <2>3, ParenReads DEF text
  <2>5. Len(c) <= 2 * Len(y.text)
    BY <1>4, <1>7, <2>2
  <2>6. CompilesTo(y, m, kw, kw2, c)
    BY <1>7, <2>2, <2>4, <2>5, Zenon DEF CompilesTo, ReadsAt
  <2> QED BY <2>6
<1>9. Compiled(y, m)
  BY <1>0, <1>7, <1>8 DEF Compiled
<1> QED BY <1>4, <1>7, <1>9 DEF y, text

LEMMA OperandCompiled ==
  ASSUME NEW x, NEW m, Compiled(x, m), NEW l \in 1..3
  PROVE  LET y == Operand(x, l)
         IN  Compiled(y, m) /\ l <= y.level /\ y.sat = x.sat
<1>1. x.level \in 1..3
  BY DEF Compiled, Sets
<1>2. CASE x.level < l
  BY <1>1, <1>2, ParenCompiled DEF Operand
<1>3. CASE ~(x.level < l)
  BY <1>1, <1>3 DEF Operand
<1> QED BY <1>2, <1>3

(* What an operand gives to the expression around it.                      *)
LEMMA OperandReads ==
  ASSUME NEW x, NEW m, Compiled(x, m), NEW l \in 1..3, NEW kw \in Seq(Words)
  PROVE  LET y == Operand(x, l) IN
         /\ y.text \in Texts /\ m \in Nat /\ x.sat \in SUBSET SUBSET Words
         /\ \E kw2 \in Seq(Words), c \in Seq(Nat) :
              /\ ReadsAt(l, y.text, kw, kw2, c) /\ Finds(c, kw2, x.sat)
              /\ Extends(kw2, kw) /\ Len(kw2) <= Len(kw) + m /\ Len(c) <= 2 * Len(y.text)
<1> DEFINE y == Operand(x, l)
<1>1. Compiled(y, m) /\ l <= y.level /\ y.sat = x.sat
  BY OperandCompiled
<1> HIDE DEF y
<1>2. y \in Sets /\ m \in Nat /\ y.text \in Texts /\ y.level \in 1..3 /\ y.sat \in SUBSET SUBSET Words
  BY <1>1 DEF Compiled, Sets
<1>3. PICK kw2 \in Seq(Words), c \in Seq(Nat) : CompilesTo(y, m, kw, kw2, c)
  BY <1>1 DEF Compiled
<1>4. /\ ReadsAt(y.level, y.text, kw, kw2, c) /\ Finds(c, kw2, y.sat)
      /\ Extends(kw2, kw) /\ Len(kw2) <= Len(kw) + m /\ Len(c) <= 2 * Len(y.text)
  BY <1>3, Zenon DEF CompilesTo
<1>5. ReadsAt(l, y.text, kw, kw2, c)
  BY <1>1, <1>2, <1>4, ReadsLooser
<1> QED BY <1>1, <1>2, <1>4, <1>5, Zenon DEF y

LEMMA NotCompiled ==
  ASSUME NEW x, NEW m, Compiled(x, m)
  PROVE  Compiled(Not(x), m)
<1> DEFINE t == Operand(x, 3).text
           y == Not(x)
           sat == (SUBSET Words) \ x.sat
           n == <<"NOT">>
<1>1. 3 \in 1..3 /\ <<>> \in Seq(Words)
  OBVIOUS
<1>2. t \in Texts /\ m \in Nat
  BY <1>1, OperandReads
<1>3. n \in Texts /\ Len(n) = 1
  BY SymbolText DEF Symbols
<1>4. ASSUME NEW kw \in Seq(Words)
      PROVE  \E kw2 \in Seq(Words), c \in Seq(Nat) :
               /\ ReadsAt(3, t, kw, kw2, c) /\ Finds(c, kw2, x.sat)
               /\ Extends(kw2, kw) /\ Len(kw2) <= Len(kw) + m /\ Len(c) <= 2 * Len(t)
  BY <1>1, OperandReads
<1>5. y = [text |-> Cat(n, t), level |-> 3, sat |-> sat]
  BY Zenon DEF Not, Cat
<1> HIDE DEF t, y, n
<1>6. Cat(n, t) \in Texts /\ Len(Cat(n, t)) = 1 + Len(t) /\ Len(t) \in Nat
  BY <1>2, <1>3, TextLength
<1>7. y \in Sets /\ y.text = Cat(n, t) /\ y.level = 3 /\ y.sat = sat
  BY <1>1, <1>5, <1>6 DEF Sets
<1> HIDE DEF sat
<1>8. ASSUME NEW kw \in Seq(Words)
      PROVE  \E kw2 \in Seq(Words), c \in Seq(Nat) : CompilesTo(y, m, kw, kw2, c)
  <2>1. PICK kw2 \in Seq(Words), c \in Seq(Nat) :
          /\ ReadsAt(3, t, kw, kw2, c) /\ Finds(c, kw2, x.sat)
          /\ Extends(kw2, kw) /\ Len(kw2) <= Len(kw) + m /\ Len(c) <= 2 * Len(t)
    BY <1>4
  <2> DEFINE d == Cat(c, <<OP_NOT>>)
  <2>2. ReadsUnary(t, kw, kw2, c)
    BY <2>1 DEF ReadsAt
  <2>3. ReadsUnary(Cat(n, t), kw, kw2, d)
    BY <1>2, <2>2, NotReads DEF n
  <2>4. Finds(d, kw2, sat)
    BY <2>1, FindsNot DEF sat
  <2>5. d \in Seq(Nat) /\ Len(d) = Len(c) + 1
    BY CodeLength
  <2> HIDE DEF d
  <2>6. Len(d) <= 2 * Len(y.text)
    BY <1>6, <1>7, <2>1, <2>5
  <2>7. CompilesTo(y, m, kw, kw2, d)
    BY <1>7, <2>1, <2>3, <2>4, <2>6, Zenon DEF CompilesTo, ReadsAt
  <2> QED BY <2>5, <2>7
<1>9. Compiled(y, m)
  BY <1>2, <1>7, <1>8 DEF Compiled
<1> QED BY <1>9 DEF y

LEMMA AndCompiled ==
  ASSUME NEW x, NEW m, Compiled(x, m), NEW y, NEW n, Compiled(y, n)
  PROVE  Compiled(And(x, y), m + n)
<1> DEFINE s == Operand(x, 2).text
           t == Operand(y, 3).text
           z == And(x, y)
           sat == x.sat \cap y.sat
           a == <<"AND">>
           text == Cat(s, Cat(a, t))
<1>1. 2 \in 1..3 /\ 3 \in 1..3 /\ <<>> \in Seq(Words)
  OBVIOUS
<1>2. s \in Texts /\ m \in Nat /\ x.sat \in SUBSET SUBSET Words
  BY <1>1, OperandReads
<1>3. t \in Texts /\ n \in Nat
  BY <1>1, OperandReads
<1>4. a \in Texts /\ Len(a) = 1
  BY SymbolText DEF Symbols
<1>5. ASSUME NEW kw \in Seq(Words)
      PROVE  \E kw1 \in Seq(Words), b \in Seq(Nat) :
               /\ ReadsAt(2, s, kw, kw1, b) /\ Finds(b, kw1, x.sat)
               /\ Extends(kw1, kw) /\ Len(kw1) <= Len(kw) + m /\ Len(b) <= 2 * Len(s)
  BY <1>1, OperandReads
<1>6. ASSUME NEW kw \in Seq(Words)
      PROVE  \E kw2 \in Seq(Words), c \in Seq(Nat) :
               /\ ReadsAt(3, t, kw, kw2, c) /\ Finds(c, kw2, y.sat)
               /\ Extends(kw2, kw) /\ Len(kw2) <= Len(kw) + n /\ Len(c) <= 2 * Len(t)
  BY <1>1, OperandReads
<1>7. z = [text |-> Cat(Cat(s, a), t), level |-> 2, sat |-> sat]
  BY Zenon DEF And, Cat
<1> HIDE DEF s, t, z, a
<1>8. /\ text \in Texts /\ Len(text) = Len(s) + (1 + Len(t)) /\ Len(s) \in Nat /\ Len(t) \in Nat
      /\ Cat(Cat(s, a), t) = text
  <2>1. Cat(a, t) \in Texts /\ Len(Cat(a, t)) = 1 + Len(t) /\ Len(t) \in Nat
    BY <1>3, <1>4, TextLength
  <2>2. text \in Texts /\ Len(text) = Len(s) + Len(Cat(a, t)) /\ Len(s) \in Nat
    BY <1>2, <2>1, TextLength
  <2> QED BY <1>2, <1>3, <1>4, <2>1, <2>2, TextsAssoc
<1> HIDE DEF text
<1>9. z \in Sets /\ z.text = text /\ z.level = 2 /\ z.sat = sat
  BY <1>1, <1>2, <1>7, <1>8 DEF Sets
<1> HIDE DEF sat
<1>10. ASSUME NEW kw \in Seq(Words)
       PROVE  \E kw2 \in Seq(Words), d \in Seq(Nat) : CompilesTo(z, m + n, kw, kw2, d)
  <2>1. PICK kw1 \in Seq(Words), b \in Seq(Nat) :
          /\ ReadsAt(2, s, kw, kw1, b) /\ Finds(b, kw1, x.sat)
          /\ Extends(kw1, kw) /\ Len(kw1) <= Len(kw) + m /\ Len(b) <= 2 * Len(s)
    BY <1>5
  <2>2. PICK kw2 \in Seq(Words), c \in Seq(Nat) :
          /\ ReadsAt(3, t, kw1, kw2, c) /\ Finds(c, kw2, y.sat)
          /\ Extends(kw2, kw1) /\ Len(kw2) <= Len(kw1) + n /\ Len(c) <= 2 * Len(t)
    BY <1>6
  <2> DEFINE d == Cat(Cat(b, c), <<OP_AND>>)
  <2>3. ReadsTerm(s, kw, kw1, b) /\ ReadsUnary(t, kw1, kw2, c)
    BY <2>1, <2>2 DEF ReadsAt
  <2>4. ReadsTerm(text, kw, kw2, d)
    BY <1>2, <1>3, <2>3, AndReads DEF text, a
  <2>5. Finds(d, kw2, sat)
    BY <2>1, <2>2, FindsBoth DEF sat
  <2>6. d \in Seq(Nat) /\ Len(d) = Len(b) + Len(c) + 1 /\ Len(b) \in Nat /\ Len(c) \in Nat
    BY CodeLength
  <2> HIDE DEF d
  <2>7. Len(d) <= 2 * Len(z.text)
    BY <1>8, <1>9, <2>1, <2>2, <2>6
  <2>8. Extends(kw2, kw)
    BY <2>1, <2>2, ExtendsOn
  <2>9. Len(kw2) <= Len(kw) + (m + n)
    <3>1. Len(kw) \in Nat /\ Len(kw1) \in Nat /\ Len(kw2) \in Nat
      OBVIOUS
    <3> QED BY <1>2, <1>3, <2>1, <2>2, <3>1
  <2>10. CompilesTo(z, m + n, kw, kw2, d)
    BY <1>9, <2>4, <2>5, <2>7, <2>8, <2>9 DEF CompilesTo, ReadsAt
  <2> QED BY <2>6, <2>10
<1>11. Compiled(z, m + n)
  BY <1>2, <1>3, <1>9, <1>10 DEF Compiled
<1> QED BY <1>11 DEF z

LEMMA OrCompiled ==
  ASSUME NEW x, NEW m, Compiled(x, m), NEW y, NEW n, Compiled(y, n)
  PROVE  Compiled(Or(x, y), m + n)
<1> DEFINE s == x.text
           t == Operand(y, 2).text
           z == Or(x, y)
           sat == x.sat \cup y.sat
           a == <<"OR">>
           text == Cat(s, Cat(a, t))
<1>1. 1 \in 1..3 /\ 2 \in 1..3 /\ <<>> \in Seq(Words)
  OBVIOUS
<1>2. s \in Texts /\ m \in Nat /\ x.sat \in SUBSET SUBSET Words /\ x.level \in 1..3 /\ x \in Sets
  BY DEF Compiled, Sets
<1>3. t \in Texts /\ n \in Nat /\ y.sat \in SUBSET SUBSET Words
  BY <1>1, OperandReads
<1>4. a \in Texts /\ Len(a) = 1
  BY SymbolText DEF Symbols
<1>5. ASSUME NEW kw \in Seq(Words)
      PROVE  \E kw1 \in Seq(Words), b \in Seq(Nat) :
               /\ ReadsAt(1, s, kw, kw1, b) /\ Finds(b, kw1, x.sat)
               /\ Extends(kw1, kw) /\ Len(kw1) <= Len(kw) + m /\ Len(b) <= 2 * Len(s)
  <2>1. Operand(x, 1) = x
    BY <1>2 DEF Operand
  <2> QED BY <1>1, <2>1, OperandReads
<1>6. ASSUME NEW kw \in Seq(Words)
      PROVE  \E kw2 \in Seq(Words), c \in Seq(Nat) :
               /\ ReadsAt(2, t, kw, kw2, c) /\ Finds(c, kw2, y.sat)
               /\ Extends(kw2, kw) /\ Len(kw2) <= Len(kw) + n /\ Len(c) <= 2 * Len(t)
  BY <1>1, OperandReads
<1>7. z = [text |-> Cat(Cat(s, a), t), level |-> 1, sat |-> sat]
  BY Zenon DEF Or, Cat
<1> HIDE DEF s, t, z, a
<1>8. /\ text \in Texts /\ Len(text) = Len(s) + (1 + Len(t)) /\ Len(s) \in Nat /\ Len(t) \in Nat
      /\ Cat(Cat(s, a), t) = text
  <2>1. Cat(a, t) \in Texts /\ Len(Cat(a, t)) = 1 + Len(t) /\ Len(t) \in Nat
    BY <1>3, <1>4, TextLength
  <2>2. text \in Texts /\ Len(text) = Len(s) + Len(Cat(a, t)) /\ Len(s) \in Nat
    BY <1>2, <2>1, TextLength
  <2> QED BY <1>2, <1>3, <1>4, <2>1, <2>2, TextsAssoc
<1> HIDE DEF text
<1>9. z \in Sets /\ z.text = text /\ z.level = 1 /\ z.sat = sat
  BY <1>1, <1>2, <1>3, <1>7, <1>8 DEF Sets
<1> HIDE DEF sat
<1>10. ASSUME NEW kw \in Seq(Words)
       PROVE  \E kw2 \in Seq(Words), d \in Seq(Nat) : CompilesTo(z, m + n, kw, kw2, d)
  <2>1. PICK kw1 \in Seq(Words), b \in Seq(Nat) :
          /\ ReadsAt(1, s, kw, kw1, b) /\ Finds(b, kw1, x.sat)
          /\ Extends(kw1, kw) /\ Len(kw1) <= Len(kw) + m /\ Len(b) <= 2 * Len(s)
    BY <1>5
  <2>2. PICK kw2 \in Seq(Words), c \in Seq(Nat) :
          /\ ReadsAt(2, t, kw1, kw2, c) /\ Finds(c, kw2, y.sat)
          /\ Extends(kw2, kw1) /\ Len(kw2) <= Len(kw1) + n /\ Len(c) <= 2 * Len(t)
    BY <1>6
  <2> DEFINE d == Cat(Cat(b, c), <<OP_OR>>)
  <2>3. ReadsExpr(s, kw, kw1, b) /\ ReadsTerm(t, kw1, kw2, c)
    BY <2>1, <2>2 DEF ReadsAt
  <2>4. ReadsExpr(text, kw, kw2, d)
    BY <1>2, <1>3, <2>3, OrReads DEF text, a
  <2>5. Finds(d, kw2, sat)
    BY <2>1, <2>2, FindsBoth DEF sat
  <2>6. d \in Seq(Nat) /\ Len(d) = Len(b) + Len(c) + 1 /\ Len(b) \in Nat /\ Len(c) \in Nat
    BY CodeLength
  <2> HIDE DEF d
  <2>7. Len(d) <= 2 * Len(z.text)
    BY <1>8, <1>9, <2>1, <2>2, <2>6
  <2>8. Extends(kw2, kw)
    BY <2>1, <2>2, ExtendsOn
  <2>9. Len(kw2) <= Len(kw) + (m + n)
    <3>1. Len(kw) \in Nat /\ Len(kw1) \in Nat /\ Len(kw2) \in Nat
      OBVIOUS
    <3> QED BY <1>2, <1>3, <2>1, <2>2, <3>1
  <2>10. CompilesTo(z, m + n, kw, kw2, d)
    BY <1>9, <2>4, <2>5, <2>7, <2>8, <2>9 DEF CompilesTo, ReadsAt
  <2> QED BY <2>6, <2>10
<1>11. Compiled(z, m + n)
  BY <1>2, <1>3, <1>9, <1>10 DEF Compiled
<1> QED BY <1>11 DEF z

(* A list of expressions, each a keyword or made of earlier ones, and how  *)
(* many keywords each of them has.                                         *)
Formed(q, n) ==
  \A i \in DOMAIN q :
    \/ \E w \in Words : q[i] = Word(w) /\ n[i] = 1
    \/ \E j \in 1..(i - 1) : q[i] \in {Not(q[j]), Paren(q[j])} /\ n[i] = n[j]
    \/ \E j, k \in 1..(i - 1) : q[i] \in {And(q[j], q[k]), Or(q[j], q[k])} /\ n[i] = n[j] + n[k]

LEMMA FormedCompiled ==
  ASSUME NEW l \in Nat, NEW q, DOMAIN q = 1..l, NEW n, Formed(q, n)
  PROVE  \A i \in 1..l : Compiled(q[i], n[i])
<1> DEFINE Bad == {i \in 1..l : ~Compiled(q[i], n[i])}
<1> SUFFICES ASSUME Bad # {} PROVE FALSE
  OBVIOUS
<1>0. Bad \subseteq Nat
  OBVIOUS
<1>1. PICK i \in Bad : \A j \in Bad : i <= j
  BY <1>0, Least
<1>2. i \in 1..l /\ ~Compiled(q[i], n[i])
  BY <1>1
<1>3. \A j \in 1..(i - 1) : Compiled(q[j], n[j])
  <2> TAKE j \in 1..(i - 1)
  <2>1. j \in 1..l /\ ~(i <= j)
    BY <1>2
  <2> QED BY <1>1, <2>1
<1> HIDE DEF Bad
<1>4. \/ \E w \in Words : q[i] = Word(w) /\ n[i] = 1
      \/ \E j \in 1..(i - 1) : q[i] \in {Not(q[j]), Paren(q[j])} /\ n[i] = n[j]
      \/ \E j, k \in 1..(i - 1) : q[i] \in {And(q[j], q[k]), Or(q[j], q[k])} /\ n[i] = n[j] + n[k]
  BY <1>2, Zenon DEF Formed
<1>5. CASE \E w \in Words : q[i] = Word(w) /\ n[i] = 1
  BY <1>2, <1>5, WordCompiled, Zenon
<1>6. CASE \E j \in 1..(i - 1) : q[i] \in {Not(q[j]), Paren(q[j])} /\ n[i] = n[j]
  <2>1. PICK j \in 1..(i - 1) : q[i] \in {Not(q[j]), Paren(q[j])} /\ n[i] = n[j]
    BY <1>6
  <2>2. Compiled(Not(q[j]), n[j]) /\ Compiled(Paren(q[j]), n[j])
    BY <1>3, NotCompiled, ParenCompiled, Zenon
  <2> QED BY <1>2, <2>1, <2>2, Zenon
<1>7. CASE \E j, k \in 1..(i - 1) : q[i] \in {And(q[j], q[k]), Or(q[j], q[k])} /\ n[i] = n[j] + n[k]
  <2>1. PICK j \in 1..(i - 1), k \in 1..(i - 1) :
          q[i] \in {And(q[j], q[k]), Or(q[j], q[k])} /\ n[i] = n[j] + n[k]
    BY <1>7
  <2>2. Compiled(And(q[j], q[k]), n[j] + n[k]) /\ Compiled(Or(q[j], q[k]), n[j] + n[k])
    BY <1>3, AndCompiled, OrCompiled, Zenon
  <2> QED BY <1>2, <2>1, <2>2, Zenon
<1> QED BY <1>4, <1>5, <1>6, <1>7

-----------------------------------------------------------------------------
LEMMA LowerTokens ==
  /\ \A w \in Words : w \notin DOMAIN Lower
  /\ \A t \in Symbols : LET l == IF t \in DOMAIN Lower THEN Lower[t] ELSE t
                       IN  l \in Reserved /\ Upper(l) = t
  /\ \A i \in 1..4 : /\ Aggregates[i] \in DOMAIN Lower
                     /\ Upper(Lower[Aggregates[i]]) = Aggregates[i]
<1>1. DOMAIN Lower = {"AND", "OR", "NOT", "MAX", "MIN", "SUM", "AVG"}
  BY DEF Lower
<1>2. DOMAIN InUpper = {"and", "or", "not", "select", "max", "min", "sum", "avg"}
  BY DEF InUpper
<1>3. /\ InUpper["and"] = "AND" /\ InUpper["or"] = "OR" /\ InUpper["not"] = "NOT"
      /\ InUpper["max"] = "MAX" /\ InUpper["min"] = "MIN" /\ InUpper["sum"] = "SUM"
      /\ InUpper["avg"] = "AVG"
  BY DEF InUpper
<1>4. /\ Lower["AND"] = "and" /\ Lower["OR"] = "or" /\ Lower["NOT"] = "not"
      /\ Lower["MAX"] = "max" /\ Lower["MIN"] = "min" /\ Lower["SUM"] = "sum"
      /\ Lower["AVG"] = "avg"
  BY DEF Lower
<1>5. DOMAIN Lower \subseteq Reserved
  <2>1. "MAX" \in Reserved /\ "MIN" \in Reserved /\ "SUM" \in Reserved /\ "AVG" \in Reserved
    BY <1>2, <1>3 DEF Reserved
  <2> QED BY <1>1, <2>1 DEF Reserved, Symbols
<1>6. \A w \in Words : w \notin DOMAIN Lower
  BY <1>5, WordsPlain
<1>7. \A t \in Symbols : LET l == IF t \in DOMAIN Lower THEN Lower[t] ELSE t
                       IN  l \in Reserved /\ Upper(l) = t
  <2> TAKE t \in Symbols
  <2>1. t \in {"(", ")", "AND", "OR", "NOT"}
    BY DEF Symbols
  <2>2. CASE t \in {"(", ")"}
    BY <1>1, <1>2, <2>2 DEF Upper, Reserved
  <2>3. CASE t \in {"AND", "OR", "NOT"}
    BY <1>1, <1>2, <1>3, <1>4, <2>3 DEF Upper, Reserved
  <2> QED BY <2>1, <2>2, <2>3
<1>8. \A i \in 1..4 : /\ Aggregates[i] \in DOMAIN Lower
                     /\ Upper(Lower[Aggregates[i]]) = Aggregates[i]
  <2> TAKE i \in 1..4
  <2>1. Aggregates[i] \in {"MAX", "MIN", "SUM", "AVG"}
    BY DEF Aggregates
  <2> QED BY <1>1, <1>2, <1>3, <1>4, <2>1 DEF Upper
<1> QED BY <1>6, <1>7, <1>8

(* Every token of low is seen as that of a text.                           *)
SeenAs(text, low, upper) ==
  \A i \in 1..Len(text) :
    /\ (IF upper THEN Upper(low[i]) ELSE low[i]) = text[i]
    /\ text[i] \in Words => low[i] = text[i]

(* A parser that starts at such tokens.                                    *)
LEMMA StartFits ==
  ASSUME NEW text \in Texts, NEW low \in Seq(Letters), Len(low) = Len(text), NEW upper \in BOOLEAN,
         SeenAs(text, low, upper)
  PROVE  LET p == Start(low, upper)
         IN  /\ Fit(p, text, <<>>, Len(p.tokens)) /\ p.pos = 1
             /\ Len(p.tokens) = Len(text) /\ p.bool_expr = <<>>
<1> DEFINE p == Start(low, upper)
<1>1. p = [tokens |-> low, upper |-> upper, pos |-> 1, keywords |-> <<>>, bool_expr |-> <<>>,
           ok |-> TRUE]
  BY Zenon DEF Start
<1> HIDE DEF p
<1>2. /\ p.tokens = low /\ p.pos = 1 /\ p.keywords = <<>> /\ p.bool_expr = <<>>
      /\ p.ok = TRUE /\ p.upper = upper
  BY <1>1
<1>3. Len(text) \in Nat
  BY DEF Texts
<1>4. Parser(p)
  <2>1. 1 \in 1..(Len(low) + 1)
    BY <1>3
  <2>2. p \in Parsers(p)
    BY <1>1, <1>2, <2>1 DEF Parsers
  <2> QED BY <1>2, <2>2 DEF Parser
<1>5. Spells(p, text)
  <2> SUFFICES ASSUME NEW i \in 1..Len(text) PROVE SpelledAt(p, text[i], p.pos + i - 1)
    BY DEF Spells
  <2>1. p.pos + i - 1 = i
    BY <1>2
  <2>2. i <= Len(p.tokens)
    BY <1>2
  <2>3. /\ (IF upper THEN Upper(low[i]) ELSE low[i]) = text[i]
        /\ text[i] \in Words => low[i] = text[i]
    BY DEF SeenAs
  <2>4. TokenAt(p, i) = text[i] /\ (text[i] \in Words => p.tokens[i] = text[i])
    BY <1>2, <2>3 DEF TokenAt
  <2> QED BY <2>1, <2>2, <2>4, Zenon DEF SpelledAt
<1>6. Deep(p, Len(p.tokens))
  BY <1>2, <1>3 DEF Deep
<1>7. Fit(p, text, <<>>, Len(p.tokens))
  BY <1>2, <1>4, <1>5, <1>6, Zenon DEF Fit
<1> QED BY <1>2, <1>7 DEF p

LEMMA LowerText ==
  ASSUME NEW text \in Texts
  PROVE  LET low == InLower(text)
         IN  /\ low \in Seq(Letters) /\ Len(low) = Len(text)
             /\ \A i \in 1..Len(text) : /\ Upper(low[i]) = text[i]
                                        /\ text[i] \in Words => low[i] = text[i]
<1> DEFINE low == InLower(text)
<1>0. text \in Seq(Words \cup Symbols) /\ Len(text) \in Nat /\ DOMAIN text = 1..Len(text)
  BY DEF Texts
<1>3. \A i \in 1..Len(text) : low[i] = IF text[i] \in DOMAIN Lower THEN Lower[text[i]] ELSE text[i]
  BY <1>0, Zenon DEF InLower
<1>4. \A i \in 1..Len(text) : low[i] \in Letters /\ Upper(low[i]) = text[i]
                              /\ (text[i] \in Words => low[i] = text[i])
  <2> TAKE i \in 1..Len(text)
  <2>1. text[i] \in Words \cup Symbols
    BY <1>0
  <2>2. CASE text[i] \in Words
    BY <1>3, <2>2, LowerTokens, WordsPlain DEF Letters
  <2>3. CASE text[i] \notin Words
    <3>1. text[i] \in Symbols
      BY <2>1, <2>3
    <3> QED BY <1>3, <2>3, <3>1, LowerTokens DEF Letters
  <2> QED BY <2>2, <2>3
<1>5. low \in Seq(Letters) /\ Len(low) = Len(text)
  <2>1. low = [i \in 1..Len(text) |-> low[i]]
    BY <1>0, <1>3, Zenon DEF InLower
  <2> HIDE DEF low
  <2>2. low \in [1..Len(text) -> Letters]
    BY <1>4, <2>1
  <2> QED BY <1>0, <2>2
<1> QED BY <1>4, <1>5

-----------------------------------------------------------------------------
(* The text of a query: the name of an aggregate, if it has one, and an    *)
(* expression.                                                             *)
Asked(type, text) == (IF type = 0 THEN <<>> ELSE <<Aggregates[type]>>) \o text

LEMMA AggregateAt ==
  /\ \A t \in Words \cup Symbols : ~Contains(Aggregates, t)
  /\ \A i \in 1..4 : \A t : t = Aggregates[i] =>
       Contains(Aggregates, t) /\ SelectInSeq(Aggregates, LAMBDA a : a = t) = i
<1> DEFINE A == Aggregates
<1>1. Len(A) = 4 /\ A[1] = "MAX" /\ A[2] = "MIN" /\ A[3] = "SUM" /\ A[4] = "AVG"
  BY DEF Aggregates
<1>2. \A i \in 1..4 : A[i] \in DOMAIN Lower
  BY LowerTokens
<1>3. \A t \in Words : t \notin DOMAIN Lower
  BY LowerTokens
<1> HIDE DEF A
<1>4. \A t : Contains(A, t) <=> \E i \in 1..4 : A[i] = t
  BY <1>1 DEF Contains
<1>5. \A t \in Words \cup Symbols : ~Contains(A, t)
  <2>1. \A t \in Symbols : \A i \in 1..4 : A[i] # t
    BY <1>1 DEF Symbols
  <2> QED BY <1>2, <1>3, <1>4, <2>1
<1>6. ASSUME NEW i \in 1..4, NEW t, t = A[i]
      PROVE  Contains(A, t) /\ SelectInSeq(A, LAMBDA a : a = t) = i
  <2> DEFINE I == {j \in 1..Len(A) : A[j] = t}
  <2>1. I \subseteq Nat /\ i \in I /\ I # {} /\ \A j \in I : i <= j
    BY <1>1, <1>6
  <2> HIDE DEF I
  <2>2. Min(I) = i
    BY <2>1, LeastIs
  <2>3. SelectInSeq(A, LAMBDA a : a = t) = i
    BY <2>1, <2>2, Zenon DEF SelectInSeq, I
  <2> QED BY <1>4, <1>6, <2>3
<1> QED BY <1>5, <1>6 DEF A

LEMMA TypeRead ==
  ASSUME NEW type \in 0..4, NEW text \in Texts
  PROVE  LET t == Asked(type, text) IN
         /\ SelectType(t) = type /\ (IF type = 0 THEN t ELSE Tail(t)) = text
         /\ GatewaySelectType(InLower(t)) = type
         /\ (IF type = 0 THEN InLower(t) ELSE Tail(InLower(t))) = InLower(text)
<1> DEFINE t == Asked(type, text)
           low == InLower(text)
<1>0. text \in Seq(Words \cup Symbols) /\ Len(text) \in Nat
  BY DEF Texts
<1>1. low \in Seq(Letters) /\ Len(low) = Len(text) /\ \A i \in 1..Len(text) : Upper(low[i]) = text[i]
  BY LowerText
<1>2. CASE type = 0
  <2>1. t = text
    BY <1>0, <1>2 DEF Asked
  <2>2. SelectType(text) = 0
    <3>1. text # <<>> => text[1] \in Words \cup Symbols
      BY <1>0
    <3> QED BY <3>1, AggregateAt, Zenon DEF SelectType
  <2>3. GatewaySelectType(low) = 0
    <3>1. low # <<>> => Upper(low[1]) = text[1] /\ text[1] \in Words \cup Symbols
      BY <1>0, <1>1
    <3> QED BY <3>1, AggregateAt, Zenon DEF GatewaySelectType
  <2> QED BY <1>2, <2>1, <2>2, <2>3
<1>3. CASE type # 0
  <2> DEFINE agg == Aggregates[type]
             u == InLower(t)
  <2>0. type \in 1..4
    BY <1>3
  <2>1. agg \in DOMAIN Lower /\ Upper(Lower[agg]) = agg
    BY <2>0, LowerTokens
  <2>2. \A b : b = agg =>
          Contains(Aggregates, b) /\ SelectInSeq(Aggregates, LAMBDA a : a = b) = type
    BY <2>0, AggregateAt, Zenon
  <2> HIDE DEF agg
  <2>3. t = <<agg>> \o text
    BY <1>3, Zenon DEF Asked, agg
  <2>4. t # <<>> /\ t[1] = agg /\ Tail(t) = text /\ Len(t) = Len(text) + 1
        /\ DOMAIN t = 1..(Len(text) + 1) /\ \A i \in 1..Len(text) : t[i + 1] = text[i]
    BY <1>0, <2>3
  <2> HIDE DEF t
  <2>5. SelectType(t) = type
    BY <2>2, <2>4, Zenon DEF SelectType, SelectInSeq
  <2>6. u = [i \in 1..(Len(text) + 1) |-> IF t[i] \in DOMAIN Lower THEN Lower[t[i]] ELSE t[i]]
    BY <2>4, Zenon DEF InLower
  <2>a. \A i \in 1..Len(text) : low[i] = IF text[i] \in DOMAIN Lower THEN Lower[text[i]] ELSE text[i]
    <3>1. DOMAIN text = 1..Len(text)
      BY <1>0
    <3> QED BY <3>1, Zenon DEF InLower
  <2> HIDE DEF u, low
  <2>7. u[1] = Lower[agg] /\ \A i \in 1..Len(text) : u[i + 1] = low[i]
    <3>1. 1 \in 1..(Len(text) + 1) /\ \A i \in 1..Len(text) : i + 1 \in 1..(Len(text) + 1)
      BY <1>0
    <3>2. u[1] = IF t[1] \in DOMAIN Lower THEN Lower[t[1]] ELSE t[1]
      BY <2>6, <3>1, Zenon
    <3>3. \A i \in 1..Len(text) :
            u[i + 1] = IF t[i + 1] \in DOMAIN Lower THEN Lower[t[i + 1]] ELSE t[i + 1]
      BY <2>6, <3>1, Zenon
    <3>4. u[1] = Lower[agg]
      BY <2>1, <2>4, <3>2, Zenon
    <3>5. \A i \in 1..Len(text) : u[i + 1] = low[i]
      <4> TAKE i \in 1..Len(text)
      <4>1. t[i + 1] = text[i]
        BY <2>4
      <4>2. u[i + 1] = IF t[i + 1] \in DOMAIN Lower THEN Lower[t[i + 1]] ELSE t[i + 1]
        BY <3>3
      <4>3. low[i] = IF text[i] \in DOMAIN Lower THEN Lower[text[i]] ELSE text[i]
        BY <2>a
      <4> QED BY <4>1, <4>2, <4>3
    <3> QED BY <3>4, <3>5
  <2>8. u \in Seq(Letters \cup {Lower[agg]}) /\ Len(u) = Len(text) + 1
    <3>1. \A i \in 1..(Len(text) + 1) : u[i] \in Letters \cup {Lower[agg]}
      <4> TAKE i \in 1..(Len(text) + 1)
      <4>1. CASE i = 1
        BY <2>7, <4>1
      <4>2. CASE i # 1
        <5>1. i - 1 \in 1..Len(text) /\ (i - 1) + 1 = i
          BY <1>0, <4>2
        <5>2. u[i] = low[i - 1]
          BY <2>7, <5>1
        <5> QED BY <1>1, <5>1, <5>2
      <4> QED BY <4>1, <4>2
    <3>2. u = [i \in 1..(Len(text) + 1) |-> u[i]]
      BY <2>6, Zenon
    <3>3. u \in [1..(Len(text) + 1) -> Letters \cup {Lower[agg]}]
      BY <3>1, <3>2
    <3> QED BY <1>0, <3>3
  <2>9. u # <<>> /\ Tail(u) = low
    <3>1. \A i \in 1..Len(low) : low[i] = u[i + 1]
      BY <1>1, <2>7
    <3>2. Len(low) = Len(u) - 1 /\ Len(u) # 0 /\ Len(low) \in Nat
      BY <1>0, <1>1, <2>8
    <3>3. Tail(u) \in Seq(Letters \cup {Lower[agg]}) /\ Len(Tail(u)) = Len(u) - 1
          /\ \A i \in 1..(Len(u) - 1) : Tail(u)[i] = u[i + 1]
      BY <2>8, <3>2
    <3>4. low \in Seq(Letters \cup {Lower[agg]})
      BY <1>1
    <3>5. Tail(u) = low
      BY <3>1, <3>2, <3>3, <3>4, SameSeq
    <3> QED BY <3>2, <3>5
  <2>10. GatewaySelectType(u) = type
    <3>1. Upper(u[1]) = agg
      BY <2>1, <2>7
    <3> QED BY <2>2, <2>9, <3>1, Zenon DEF GatewaySelectType, SelectInSeq
  <2> QED BY <1>3, <2>4, <2>5, <2>9, <2>10 DEF u, t, low
<1> QED BY <1>2, <1>3

(* Client and gateway make the same of the text of an expression.          *)
LEMMA SameProgram ==
  ASSUME NEW x, NEW m, Compiled(x, m), NEW type \in 0..4
  PROVE  \E kw \in Seq(Words), c \in Seq(Nat) :
           LET q == [ok |-> TRUE, type |-> type, terms |-> kw, bool_expr |-> c] IN
           /\ Finds(c, kw, x.sat) /\ Len(kw) <= m /\ Len(c) <= 2 * Len(x.text)
           /\ ClientSelect(Asked(type, x.text)) = q
           /\ GatewaySelect(InLower(Asked(type, x.text))) = q
<1> DEFINE text == x.text
           t == Asked(type, text)
           e == <<>>
<1>0. text \in Texts /\ x.level \in 1..3 /\ m \in Nat
  BY DEF Compiled, Sets
<1>1. e \in Seq(Words) /\ Len(e) = 0
  OBVIOUS
<1>2. \A kw \in Seq(Words) :
        \E kw2 \in Seq(Words), c \in Seq(Nat) : CompilesTo(x, m, kw, kw2, c)
  BY DEF Compiled
<1> HIDE DEF e
<1>3. PICK kw \in Seq(Words), c \in Seq(Nat) : CompilesTo(x, m, e, kw, c)
  BY <1>1, <1>2, Zenon
<1>4. /\ ReadsAt(x.level, text, e, kw, c) /\ Finds(c, kw, x.sat)
      /\ Len(kw) <= Len(e) + m /\ Len(c) <= 2 * Len(text)
  BY <1>3, Zenon DEF CompilesTo
<1>5. ReadsExpr(text, e, kw, c)
  <2>1. ReadsAt(1, text, e, kw, c)
    BY <1>0, <1>4, ReadsLooser
  <2> QED BY <2>1 DEF ReadsAt
<1>6. ASSUME NEW low \in Seq(Letters), Len(low) = Len(text), NEW upper \in BOOLEAN,
             SeenAs(text, low, upper)
      PROVE  LET p == Parsed(Start(low, upper))
             IN  p.ok = TRUE /\ p.keywords = kw /\ p.bool_expr = c
  <2> DEFINE s == Start(low, upper)
             p == Parsed(s)
  <2>1. Fit(s, text, e, Len(s.tokens)) /\ s.pos = 1 /\ Len(s.tokens) = Len(text)
        /\ s.bool_expr = <<>>
    BY <1>0, <1>6, StartFits DEF e
  <2> HIDE DEF s
  <2>2. Moved(s, p, Len(text), kw, c)
    BY <1>0, <1>5, <2>1, ReadsAll
  <2> HIDE DEF p
  <2>3. p \in Parsers(s) /\ p.ok /\ p.keywords = kw /\ p.bool_expr = s.bool_expr \o c
    BY <2>2, Zenon DEF Moved
  <2>4. p.bool_expr = c
    BY <2>1, <2>3
  <2>5. p.ok = TRUE
    <3>1. p.ok \in BOOLEAN
      BY <2>3 DEF Parsers
    <3> QED BY <2>3, <3>1, Zenon
  <2> QED BY <2>3, <2>4, <2>5 DEF p, s
<1> DEFINE q == [ok |-> TRUE, type |-> type, terms |-> kw, bool_expr |-> c]
<1>7. ClientSelect(t) = q
  <2> DEFINE p == Parsed(Start(text, FALSE))
  <2>1. p.ok = TRUE /\ p.keywords = kw /\ p.bool_expr = c
    <3>1. text \in Seq(Letters)
      BY <1>0 DEF Texts, Letters, Reserved
    <3>2. SeenAs(text, text, FALSE)
      BY DEF SeenAs
    <3> QED BY <1>6, <3>1, <3>2
  <2>2. SelectType(t) = type /\ (IF type = 0 THEN t ELSE Tail(t)) = text
    BY <1>0, TypeRead
  <2> HIDE DEF t
  <2>3. ClientSelect(t) = [ok |-> p.ok, type |-> type, terms |-> p.keywords, bool_expr |-> p.bool_expr]
    BY <2>2, Zenon DEF ClientSelect
  <2> HIDE DEF p
  <2> QED BY <2>1, <2>3, Zenon
<1>8. GatewaySelect(InLower(t)) = q
  <2> DEFINE low == InLower(text)
             u == InLower(t)
             p == Parsed(Start(low, TRUE))
  <2>1. p.ok = TRUE /\ p.keywords = kw /\ p.bool_expr = c
    <3>1. /\ low \in Seq(Letters) /\ Len(low) = Len(text)
          /\ \A i \in 1..Len(text) : Upper(low[i]) = text[i] /\ (text[i] \in Words => low[i] = text[i])
      BY <1>0, LowerText
    <3> HIDE DEF low
    <3>2. SeenAs(text, low, TRUE)
      BY <3>1 DEF SeenAs
    <3> QED BY <1>6, <3>1, <3>2
  <2>2. GatewaySelectType(u) = type /\ (IF type = 0 THEN u ELSE Tail(u)) = low
    BY <1>0, TypeRead
  <2> HIDE DEF u, low
  <2>3. GatewaySelect(u) = [ok |-> p.ok, type |-> type, terms |-> p.keywords, bool_expr |-> p.bool_expr]
    BY <2>2, Zenon DEF GatewaySelect, GatewayExpr
  <2> HIDE DEF p
  <2> QED BY <2>1, <2>3, Zenon DEF u
<1>9. Len(kw) <= m
  BY <1>0, <1>1, <1>4
<1> HIDE DEF q, t
<1> QED BY <1>4, <1>7, <1>8, <1>9, Zenon DEF q, t

-----------------------------------------------------------------------------
(* The way of a query: the size of a request whose keywords are one cell.  *)
LEMMA TermsLength ==
  ASSUME NEW S, Uint8 \subseteq S, NEW terms \in Seq(Seq(S)), \A i \in 1..Len(terms) : Len(terms[i]) = 1
  PROVE  LET flat == FlattenSeq([i \in DOMAIN terms |-> Short(terms[i])])
         IN  flat \in Seq(S) /\ Len(flat) = 2 * Len(terms)
<1> DEFINE n == Len(terms)
           ss == [i \in DOMAIN terms |-> Short(terms[i])]
           flat == FlattenSeq(ss)
<1>1. n \in Nat /\ DOMAIN terms = 1..n /\ \A i \in 1..n : terms[i] \in Seq(S) /\ Len(terms[i]) = 1
  OBVIOUS
<1>2. \A i \in 1..n : Short(terms[i]) \in Seq(S) /\ Len(Short(terms[i])) = 2
  <2> SUFFICES ASSUME NEW t \in Seq(S), Len(t) = 1
               PROVE  Short(t) \in Seq(S) /\ Len(Short(t)) = 2
    BY <1>1
  <2> DEFINE u == U8(Len(t))
  <2>1. u \in Seq(S) /\ Len(u) = 1
    <3>1. 1 \in Uint8
      BY DEF Uint8
    <3> QED BY <3>1, OneByte
  <2>2. Short(t) = u \o t
    BY Zenon DEF Short
  <2> HIDE DEF u
  <2>3. u \o t \in Seq(S) /\ Len(u \o t) = Len(u) + Len(t)
    BY <2>1, Joined
  <2> QED BY <2>1, <2>2, <2>3
<1>3. ss \in Seq(Seq(S)) /\ Len(ss) = n /\ \A i \in 1..n : ss[i] = Short(terms[i])
  BY <1>1, <1>2
<1> HIDE DEF ss
<1>4. \A i \in 1..n : ss[i] \in Seq(S) /\ Len(ss[i]) = 2
  BY <1>2, <1>3
<1>5. PICK g : PartsOf(g, S, ss, n) /\ flat = g[n]
  BY <1>3, FlattenParts
<1>6. \A i \in 0..n : g[i] \in Seq(S) /\ Len(g[i]) = 2 * i
  <2>1. n \in Nat /\ PartsOf(g, S, ss, n)
    BY <1>1, <1>5
  <2> HIDE DEF n
  <2>2. AllLong(ss, S, n, 2)
    BY <1>4 DEF AllLong
  <2>3. LongBy(g, S, n, 2)
    BY <2>1, <2>2, PartLength, Zenon
  <2> QED BY <2>3 DEF LongBy
<1> QED BY <1>1, <1>5, <1>6, SMTT(60) DEF ss

LEMMA SelectLength ==
  ASSUME NEW S, Uint8 \subseteq S, NEW terms, TermsFit(S, terms),
         \A i \in 1..Len(terms) : Len(terms[i]) = 1, NEW expr \in Seq(S), NEW type \in Uint8
  PROVE  LET s == SelectBody(terms, expr, type)
         IN  s \in Seq(S) /\ Len(s) = 9 + 2 * Len(terms) + Len(expr)
<1> DEFINE flat == FlattenSeq([i \in DOMAIN terms |-> Short(terms[i])])
           w == U32(Len(terms))
           x == Long(expr)
           y == U8(type)
<1>0. terms \in Seq(Seq(S)) /\ Len(terms) \in Uint32 /\ Len(terms) \in Nat /\ Len(expr) \in Nat
  <2>1. terms \in Seq(Seq(S)) /\ Len(terms) \in Uint32
    BY Caps, LengthFits DEF TermsFit
  <2> QED BY <2>1
<1>1. flat \in Seq(S) /\ Len(flat) = 2 * Len(terms)
  BY <1>0, TermsLength
<1>2. w \in Seq(S) /\ Len(w) = 4 /\ x \in Seq(S) /\ Len(x) = 4 + Len(expr) /\ y \in Seq(S) /\ Len(y) = 1
  <2>1. w \in Seq(S) /\ Len(w) = 4
    BY <1>0, LastU32
  <2>2. x \in Seq(S) /\ Len(x) = 4 + Len(expr)
    BY LongLength
  <2>3. y \in Seq(S) /\ Len(y) = 1
    BY LastByte DEF Sized
  <2> QED BY <2>1, <2>2, <2>3
<1> HIDE DEF flat, w, x, y
<1>3. /\ Cat(Cat(Cat(w, flat), x), y) \in Seq(S)
      /\ Len(Cat(Cat(Cat(w, flat), x), y)) = Len(w) + Len(flat) + Len(x) + Len(y)
  <2>1. Cat(w, flat) \in Seq(S) /\ Len(Cat(w, flat)) = Len(w) + Len(flat)
    BY <1>1, <1>2, CatSeq, Zenon
  <2>2. /\ Cat(Cat(w, flat), x) \in Seq(S)
        /\ Len(Cat(Cat(w, flat), x)) = Len(Cat(w, flat)) + Len(x)
    BY <1>2, <2>1, CatSeq, Zenon
  <2>3. /\ Cat(Cat(Cat(w, flat), x), y) \in Seq(S)
        /\ Len(Cat(Cat(Cat(w, flat), x), y)) = Len(Cat(Cat(w, flat), x)) + Len(y)
    BY <1>2, <2>2, CatSeq, Zenon
  <2> QED BY <2>1, <2>2, <2>3
<1>4. Len(Cat(Cat(Cat(w, flat), x), y)) = 9 + 2 * Len(terms) + Len(expr)
  BY <1>0, <1>1, <1>2, <1>3
<1> QED BY <1>3, <1>4, Zenon DEF SelectBody, flat, w, x, y

(* A request of that kind arrives, from the client and from the gateway,   *)
(* if all of it together has a length the first number can hold.           *)
LEMMA Bounds ==
  /\ MAX_TERMS \in Nat /\ 3 <= MAX_TERMS /\ MAX_TERMS <= 256
  /\ \A n \in {MAX_INDEX_SIZE, MAX_DOC_SIZE} : n \in Nat /\ 300 <= n /\ n <= 65536
<1>1. \A n \in {MAX_TERMS, MAX_INDEX_SIZE, MAX_DOC_SIZE} : n \in Nat
  BY Caps DEF Uint32
<1> QED BY <1>1, RequestsAssumption

LEMMA SelectSent ==  ASSUME NEW kw \in Seq(Words), Len(kw) <= MAX_TERMS, NEW c \in Seq(Nat), NEW type \in Uint8,
         Len(c) <= BOOL_EXPR_SIZE
  PROVE  LET r == SelectRequest([ok |-> TRUE, type |-> type, terms |-> kw, bool_expr |-> c])
         IN  /\ Transported(r) = r /\ GatewayTransported(r) = r
             /\ Received(r) = [terms |-> kw, bool_expr |-> c]
<1> DEFINE S == Nat \cup Words
           ts == [i \in DOMAIN kw |-> <<kw[i]>>]
           r == SelectRequest([ok |-> TRUE, type |-> type, terms |-> kw, bool_expr |-> c])
<1>1. Uint8 \subseteq S
  BY DEF Uint8
<1>2. /\ ts \in Seq(Seq(S)) /\ Len(ts) = Len(kw) /\ \A i \in 1..Len(ts) : ts[i] = <<kw[i]>>
      /\ DOMAIN ts = DOMAIN kw
  <2>1. DOMAIN ts = DOMAIN kw /\ \A i \in DOMAIN kw : ts[i] = <<kw[i]>> /\ <<kw[i]>> \in Seq(S)
    OBVIOUS
  <2>2. ts = [i \in DOMAIN kw |-> ts[i]]
    BY <2>1, Zenon
  <2>3. DOMAIN kw = 1..Len(kw) /\ Len(kw) \in Nat
    OBVIOUS
  <2> HIDE DEF ts, S
  <2>4. \A i \in 1..Len(kw) : ts[i] = <<kw[i]>> /\ ts[i] \in Seq(S)
    BY <2>1, <2>3, Zenon
  <2>5. ts \in [1..Len(kw) -> Seq(S)]
    BY <2>2, <2>3, <2>4, Zenon
  <2>6. ts \in Seq(Seq(S)) /\ Len(ts) = Len(kw)
    <3> SUFFICES ASSUME NEW k \in Nat, NEW f \in [1..k -> Seq(S)]
                 PROVE  f \in Seq(Seq(S)) /\ Len(f) = k
      BY <2>3, <2>5, Zenon
    <3> QED OBVIOUS
  <2> QED BY <2>1, <2>3, <2>4, <2>6, Zenon
<1>3. \A i \in 1..Len(ts) :
        Len(ts[i]) = 1 /\ ts[i][1] = kw[i] /\ Len(ts[i]) <= MAX_KEYWORD_LEN
  BY <1>2 DEF MAX_KEYWORD_LEN
<1>4. c \in Seq(S)
  OBVIOUS
<1>5. r = [client_id |-> Client_id, type |-> SELECT, select_type |-> type, terms |-> ts,
           bool_expr |-> c]
  BY Zenon DEF SelectRequest
<1> HIDE DEF ts, r, S
<1>6. Client_id \in Uint8 /\ 1 \in Uint8
  BY RequestsAssumption DEF Uint8
<1>7. /\ r.client_id = Client_id /\ r.type = SELECT /\ r.terms = ts /\ r.bool_expr = c
      /\ r.select_type = type
  BY <1>5
<1>8. r \in SelectRequests(S)
  <2>1. Len(r.terms) <= MAX_TERMS /\ \A i \in 1..Len(r.terms) : Len(r.terms[i]) <= MAX_KEYWORD_LEN
    BY <1>2, <1>3, <1>7
  <2>2. r \in [client_id : Uint8, type : {SELECT}, terms : Seq(Seq(S)), bool_expr : Seq(S),
               select_type : Uint8]
    BY <1>2, <1>4, <1>5, <1>6
  <2>3. Len(r.bool_expr) <= BOOL_EXPR_SIZE
    BY <1>7
  <2> QED BY <2>1, <2>2, <2>3 DEF SelectRequests
<1>9. TermsFit(S, ts)
  BY <1>2, <1>3 DEF TermsFit
<1> DEFINE b == SelectBody(ts, c, type)
<1>10. b \in Seq(S) /\ Len(b) = 9 + 2 * Len(ts) + Len(c)
  BY <1>1, <1>3, <1>4, <1>9, SelectLength
<1>11. RequestBody(r) = b
  <2>1. RequestBody(r) = ((U32(Len(r.terms)) \o FlattenSeq([i \in DOMAIN r.terms |-> Short(r.terms[i])]))
               \o Long(r.bool_expr)) \o U8(r.select_type)
    BY <1>7, Kinds DEF RequestBody
  <2> QED BY <1>7, <2>1, Zenon DEF Cat, SelectBody
<1> HIDE DEF b
<1>12. Len(serialize_encdb_request(r)) = 9 + Len(RequestBody(r))
  <2>1. RequestBody(r) \in Seq(S) /\ r.client_id \in Uint8 /\ r.type \in Uint32
    BY <1>6, <1>7, <1>10, <1>11, Kinds
  <2> QED BY <1>1, <2>1, SerializedLength
<1>13. Len(serialize_encdb_request(r)) \in Uint32
  <2>1. Len(kw) \in Nat /\ Len(c) \in Nat
    OBVIOUS
  <2>2. Len(serialize_encdb_request(r)) = 18 + 2 * Len(kw) + Len(c)
    BY <1>2, <1>10, <1>11, <1>12, <2>1
  <2>3. Len(kw) <= 256 /\ Len(c) <= 128
    BY <2>1, Bounds DEF BOOL_EXPR_SIZE
  <2>4. 18 + 2 * Len(kw) + Len(c) \in Nat /\ 18 + 2 * Len(kw) + Len(c) <= 16777216
    BY <2>1, <2>3
  <2> QED BY <2>2, <2>4, SmallNumbers
<1>14. Transported(r) = r /\ GatewayTransported(r) = r
  BY <1>1, <1>8, <1>13, RequestsArrive, GatewayRequestsArrive DEF LegalRequests
<1>15. Received(r) = [terms |-> kw, bool_expr |-> c]
  <2>1. [i \in DOMAIN r.terms |-> r.terms[i][1]] = [i \in DOMAIN kw |-> kw[i]]
    <3>1. DOMAIN r.terms = DOMAIN kw /\ \A i \in DOMAIN kw : r.terms[i][1] = kw[i]
      BY <1>2, <1>3, <1>7
    <3> QED BY <3>1, Zenon
  <2>2. [i \in DOMAIN kw |-> kw[i]] = kw
    OBVIOUS
  <2> QED BY <1>7, <2>1, <2>2, Zenon DEF Received
<1> QED BY <1>14, <1>15 DEF r

-----------------------------------------------------------------------------
(* The number of keywords and the length of the text keep within what a    *)
(* request can hold.                                                       *)
Sendable(x, m) == m <= MAX_TERMS /\ 2 * Len(x.text) <= BOOL_EXPR_SIZE

LEMMA ProgramFits ==
  ASSUME NEW x, NEW m, Compiled(x, m), Sendable(x, m), NEW kw \in Seq(Words), Len(kw) <= m,
         NEW c \in Seq(Nat), Len(c) <= 2 * Len(x.text)
  PROVE  Len(kw) <= MAX_TERMS /\ Len(c) <= BOOL_EXPR_SIZE
<1>1. m \in Nat /\ Len(x.text) \in Nat /\ MAX_TERMS \in Nat
  BY Bounds DEF Compiled, Sets, Texts
<1>2. Len(kw) \in Nat /\ Len(c) \in Nat
  OBVIOUS
<1> QED BY <1>1, <1>2 DEF Sendable, BOOL_EXPR_SIZE

LEMMA ProgramArrives ==
  ASSUME NEW x, NEW m, Compiled(x, m), Sendable(x, m)
  PROVE  \E kw \in Seq(Words), c \in Seq(Nat) :
           Finds(c, kw, x.sat) /\ Arriving(x.text) = {[terms |-> kw, bool_expr |-> c]}
<1>1. PICK kw \in Seq(Words), c \in Seq(Nat) :
        LET q == [ok |-> TRUE, type |-> 0, terms |-> kw, bool_expr |-> c] IN
        /\ Finds(c, kw, x.sat) /\ Len(kw) <= m /\ Len(c) <= 2 * Len(x.text)
        /\ ClientSelect(Asked(0, x.text)) = q
        /\ GatewaySelect(InLower(Asked(0, x.text))) = q
  BY SameProgram, 0 \in 0..4
<1> DEFINE text == x.text
           q == [ok |-> TRUE, type |-> 0, terms |-> kw, bool_expr |-> c]
           r == SelectRequest(q)
<1>2. Asked(0, text) = text
  <2>1. text \in Seq(Words \cup Symbols)
    BY DEF Compiled, Sets, Texts
  <2> QED BY <2>1 DEF Asked
<1>3. ClientSelect(text) = q /\ GatewaySelect(InLower(text)) = q
  BY <1>1, <1>2, Zenon
<1>4. Len(kw) <= MAX_TERMS /\ Len(c) <= BOOL_EXPR_SIZE
  BY <1>1, ProgramFits
<1>5. 0 \in Uint8
  BY DEF Uint8
<1>6. /\ Transported(r) = r /\ GatewayTransported(r) = r
      /\ Received(r) = [terms |-> kw, bool_expr |-> c]
  BY <1>4, <1>5, SelectSent
<1> HIDE DEF q
<1>7. Arriving(text) = {Received(Transported(r)), Received(GatewayTransported(r))}
  BY <1>3, Zenon DEF Arriving
<1> HIDE DEF r
<1>8. Arriving(text) = {[terms |-> kw, bool_expr |-> c]}
  <2>1. Arriving(text) = {Received(r), Received(r)}
    BY <1>6, <1>7, Zenon
  <2> QED BY <1>6, <2>1, Zenon
<1> QED BY <1>1, <1>8

-----------------------------------------------------------------------------
(* What the program finds over the index of a database.                    *)
LEMMA FoundExactly ==
  ASSUME TypeOK, IndexExact, NEW x, NEW kw \in Seq(Words), NEW c \in Seq(Nat), Finds(c, kw, x.sat),
         session # "down"
  PROVE  \A d \in Docs : Tracked(d) =>
           (d \in Matches([terms |-> kw, bool_expr |-> c], postings, all_docs) <=> Holds(x, d))
<1> DEFINE K == [d \in Docs |-> Index(d)]
           E == {d \in Docs : slots[d] # NoDoc}
           D == {d \in Docs : Tracked(d)}
           sat == x.sat
<1>1. \A d \in Docs : Index(d) \in SUBSET Words
  BY DEF TypeOK, Index, Keywords, Content
<1>2. K \in [Docs -> SUBSET Words] /\ E \in SUBSET Docs /\ D \in SUBSET Docs
  BY <1>1
<1>3. RightOn(D, postings, all_docs, K, E)
  <2>1. \A w \in Words : SameOn(D, postings[w], {d \in E : w \in K[d]})
    <3> SUFFICES ASSUME NEW w \in Words, NEW d \in Docs, Tracked(d)
                 PROVE  d \in postings[w] <=> slots[d] # NoDoc /\ w \in Index(d)
      BY DEF SameOn
    <3>1. w \in Index(d) => slots[d] # NoDoc
      BY DEF Index, Keywords
    <3> QED BY <3>1 DEF Tracked, IndexExact
  <2>2. SameOn(D, all_docs, E)
    BY DEF SameOn, Tracked, IndexExact
  <2> QED BY <2>1, <2>2 DEF RightOn
<1>4. Extends(kw, kw)
  <2>1. Len(kw) \in Nat
    OBVIOUS
  <2> QED BY <2>1 DEF Extends
<1>5. postings \in [Words -> SUBSET Docs] /\ all_docs \in SUBSET Docs
  BY DEF TypeOK
<1>6. \A d \in D : d \in Satisfying(sat, K, E) <=> Holds(x, d)
  BY DEF Satisfying, Holds
<1> HIDE DEF K, E, D
<1>7. Pushes(c, kw, postings, all_docs, D, Satisfying(sat, K, E))
  BY <1>2, <1>3, <1>4, <1>5, Zenon DEF Finds
<1>8. SameOn(D, Matches([terms |-> kw, bool_expr |-> c], postings, all_docs), Satisfying(sat, K, E))
  BY <1>7, Pushed
<1>9. \A d \in D : d \in Matches([terms |-> kw, bool_expr |-> c], postings, all_docs) <=> Holds(x, d)
  BY <1>6, <1>8, Zenon DEF SameOn
<1> QED BY <1>9 DEF D

(* A query, from its text to the matches: for the expression that was      *)
(* written.                                                                *)
ExprExact(x) ==
  session # "down" =>
    \A r \in Arriving(x.text) : LET found == Matches(r, postings, all_docs)
    IN  \A d \in Docs : Tracked(d) => (d \in found <=> Holds(x, d))

LEMMA CompiledAnswered ==
  ASSUME NEW x, NEW m, Compiled(x, m), Sendable(x, m)
  PROVE  TypeOK /\ IndexExact => ExprExact(x)
<1> SUFFICES ASSUME TypeOK, IndexExact, session # "down", NEW r \in Arriving(x.text)
             PROVE  \A d \in Docs : Tracked(d) => (d \in Matches(r, postings, all_docs) <=> Holds(x, d))
  BY DEF ExprExact
<1>1. PICK kw \in Seq(Words), c \in Seq(Nat) :
        Finds(c, kw, x.sat) /\ Arriving(x.text) = {[terms |-> kw, bool_expr |-> c]}
  BY ProgramArrives
<1>2. r = [terms |-> kw, bool_expr |-> c]
  BY <1>1
<1>3. \A d \in Docs : Tracked(d) =>
        (d \in Matches([terms |-> kw, bool_expr |-> c], postings, all_docs) <=> Holds(x, d))
  BY <1>1, FoundExactly
<1> QED BY <1>2, <1>3, Zenon

(* In every state, whatever was updated, sealed, lost and reloaded: a      *)
(* query of any size, typed in the client or sent through the gateway,     *)
(* finds a document whose postings are not known to be wrong exactly if    *)
(* the document's own keywords satisfy the expression, as long as a        *)
(* request can hold it.  q is how the expression is put together.          *)
THEOREM EveryQueryExact ==
  ASSUME NEW l \in Nat, NEW q, DOMAIN q = 1..l, NEW n, Formed(q, n), NEW i \in 1..l,
         Sendable(q[i], n[i])
  PROVE  Spec => []ExprExact(q[i])
<1>1. Compiled(q[i], n[i])
  BY FormedCompiled
<1>2. TypeOK /\ IndexExact => ExprExact(q[i])
  BY <1>1, CompiledAnswered
<1>3. Spec => [](TypeOK /\ IndexExact)
  BY UpdatesTypeCorrect, IndexAlwaysExact, PTL
<1> QED BY <1>2, <1>3, PTL

-----------------------------------------------------------------------------
(* The expressions of the checked property: none has more than three       *)
(* keywords, or thirteen tokens.                                           *)
Small(x, m, n) == Compiled(x, m) /\ Len(x.text) \in Nat /\ Len(x.text) <= n

LEMMA SmallOperand ==
  ASSUME NEW x, NEW m, NEW n \in Nat, Small(x, m, n), NEW l \in 1..3
  PROVE  LET t == Operand(x, l).text IN t \in Texts /\ Len(t) \in Nat /\ Len(t) <= n + 2
<1>1. Compiled(x, m) /\ Len(x.text) \in Nat /\ Len(x.text) <= n
  BY DEF Small
<1>2. Operand(x, l).text \in Texts
  BY <1>1, OperandCompiled DEF Compiled, Sets
<1>3. Len(Operand(x, l).text) \in {Len(x.text), Len(x.text) + 2}
  <2>1. CASE x.level < l
    BY <1>1, <2>1, ParenCompiled DEF Operand
  <2>2. CASE ~(x.level < l)
    BY <2>2 DEF Operand
  <2> QED BY <2>1, <2>2
<1> DEFINE t == Operand(x, l).text
<1> HIDE DEF t
<1>4. Len(t) \in Nat /\ Len(t) <= n + 2
  BY <1>1, <1>3 DEF t
<1> QED BY <1>2, <1>4 DEF t

LEMMA SmallNot ==
  ASSUME NEW x, NEW m, NEW n \in Nat, Small(x, m, n)
  PROVE  Small(Not(x), m, n + 3)
<1> DEFINE t == Operand(x, 3).text
           o == <<"NOT">>
<1>1. t \in Texts /\ Len(t) \in Nat /\ Len(t) <= n + 2
  BY SmallOperand
<1>2. o \in Texts /\ Len(o) = 1
  BY SymbolText DEF Symbols
<1>3. Not(x).text = Cat(o, t)
  BY Zenon DEF Not, Cat
<1> HIDE DEF t, o
<1>4. Len(Cat(o, t)) = Len(o) + Len(t)
  BY <1>1, <1>2, TextLength
<1>5. Compiled(Not(x), m)
  BY NotCompiled DEF Small
<1>6. Len(Not(x).text) \in Nat /\ Len(Not(x).text) <= n + 3
  BY <1>1, <1>2, <1>3, <1>4
<1> QED BY <1>5, <1>6, Zenon DEF Small

LEMMA SmallBoth ==
  ASSUME NEW x, NEW m, NEW n \in Nat, Small(x, m, n), NEW y, NEW k, NEW l \in Nat, Small(y, k, l)
  PROVE  Small(And(x, y), m + k, n + l + 5) /\ Small(Or(x, y), m + k, n + l + 5)
<1> DEFINE s == Operand(x, 2).text
           t == Operand(y, 3).text
           v == Operand(y, 2).text
           a == <<"AND">>
           o == <<"OR">>
<1>1. s \in Texts /\ Len(s) \in Nat /\ Len(s) <= n + 2
  BY SmallOperand
<1>2. t \in Texts /\ Len(t) \in Nat /\ Len(t) <= l + 2
  BY SmallOperand
<1>3. v \in Texts /\ Len(v) \in Nat /\ Len(v) <= l + 2
  BY SmallOperand
<1>4. x.text \in Texts /\ Len(x.text) \in Nat /\ Len(x.text) <= n
  BY DEF Small, Compiled, Sets
<1>5. a \in Texts /\ Len(a) = 1 /\ o \in Texts /\ Len(o) = 1
  BY SymbolText DEF Symbols
<1>6. And(x, y).text = Cat(Cat(s, a), t) /\ Or(x, y).text = Cat(Cat(x.text, o), v)
  <2>1. And(x, y).text = (s \o a) \o t
    BY DEF And
  <2>2. Or(x, y).text = (x.text \o o) \o v
    BY DEF Or
  <2> QED BY <2>1, <2>2, Zenon DEF Cat
<1> HIDE DEF s, t, v, a, o
<1>7. Len(Cat(Cat(s, a), t)) = Len(s) + 1 + Len(t)
  <2>1. Cat(s, a) \in Texts /\ Len(Cat(s, a)) = Len(s) + Len(a)
    BY <1>1, <1>5, TextLength
  <2>2. Len(Cat(Cat(s, a), t)) = Len(Cat(s, a)) + Len(t)
    BY <1>2, <2>1, TextLength
  <2> QED BY <1>1, <1>2, <1>5, <2>1, <2>2
<1>8. Len(Cat(Cat(x.text, o), v)) = Len(x.text) + 1 + Len(v)
  <2>1. Cat(x.text, o) \in Texts /\ Len(Cat(x.text, o)) = Len(x.text) + Len(o)
    BY <1>4, <1>5, TextLength
  <2>2. Len(Cat(Cat(x.text, o), v)) = Len(Cat(x.text, o)) + Len(v)
    BY <1>3, <2>1, TextLength
  <2> QED BY <1>3, <1>4, <1>5, <2>1, <2>2
<1>9. Compiled(And(x, y), m + k) /\ Compiled(Or(x, y), m + k)
  BY AndCompiled, OrCompiled DEF Small
<1>10. Len(And(x, y).text) \in Nat /\ Len(And(x, y).text) <= n + l + 5
  BY <1>1, <1>2, <1>6, <1>7
<1>11. Len(Or(x, y).text) \in Nat /\ Len(Or(x, y).text) <= n + l + 5
  BY <1>3, <1>4, <1>6, <1>8
<1> QED BY <1>9, <1>10, <1>11, Zenon DEF Small

LEMMA ExprsSmall ==
  ASSUME NEW x \in Exprs
  PROVE  \E m \in 1..3 : Small(x, m, 13)
<1> DEFINE P(y) == \E m \in 1..3 : Small(y, m, 13)
<1>1. \A y, m, n : m \in 1..3 /\ n \in 1..13 /\ Small(y, m, n) => P(y)
  BY DEF Small
<1>2. \A y \in Simple : Small(y, 1, 1)
  <2> SUFFICES ASSUME NEW w \in Words PROVE Small(Word(w), 1, 1)
    BY DEF Simple
  <2>1. Len(Word(w).text) = 1
    BY DEF Word
  <2> QED BY <2>1, WordCompiled DEF Small
<1> HIDE DEF P
<1>3. \A y \in Nots : Small(y, 1, 4)
  BY <1>2, SmallNot, 1 + 3 = 4 DEF Nots
<1>4. \A y \in Ands \cup Ors : Small(y, 2, 7)
  <2>1. \A y, z \in Simple : Small(And(y, z), 2, 7) /\ Small(Or(y, z), 2, 7)
    BY <1>2, SmallBoth, 1 + 1 = 2, 1 + 1 + 5 = 7
  <2> QED BY <2>1 DEF Ands, Ors
<1>5. \A y \in Nots \cup Ands \cup Ors : P(Not(y))
  <2>1. \A y \in Nots : Small(Not(y), 1, 7)
    BY <1>3, SmallNot, 4 + 3 = 7
  <2>2. \A y \in Ands \cup Ors : Small(Not(y), 2, 10)
    BY <1>4, SmallNot, 7 + 3 = 10
  <2> QED BY <1>1, <2>1, <2>2
<1>6. \A y \in Simple, z \in Nots \cup Ors : P(And(y, z))
  <2>1. \A y \in Simple, z \in Nots : Small(And(y, z), 2, 10)
    BY <1>2, <1>3, SmallBoth, 1 + 1 = 2, 1 + 4 + 5 = 10
  <2>2. \A y \in Simple, z \in Ors : Small(And(y, z), 3, 13)
    BY <1>2, <1>4, SmallBoth, 1 + 2 = 3, 1 + 7 + 5 = 13
  <2> QED BY <1>1, <2>1, <2>2
<1>7. \A y \in Nots \cup Ands, z \in Simple : P(Or(y, z))
  <2>1. \A y \in Nots, z \in Simple : Small(Or(y, z), 2, 10)
    BY <1>2, <1>3, SmallBoth, 1 + 1 = 2, 4 + 1 + 5 = 10
  <2>2. \A y \in Ands, z \in Simple : Small(Or(y, z), 3, 13)
    BY <1>2, <1>4, SmallBoth, 2 + 1 = 3, 7 + 1 + 5 = 13
  <2> QED BY <1>1, <2>1, <2>2
<1>8. \A y \in Simple \cup Nots \cup Ands \cup Ors : P(y)
  BY <1>1, <1>2, <1>3, <1>4
<1>9. P(x)
  BY <1>5, <1>6, <1>7, <1>8 DEF Exprs
<1> QED BY <1>9 DEF P

LEMMA ExprsSent ==
  ASSUME NEW x \in Exprs
  PROVE  \E m : Compiled(x, m) /\ Sendable(x, m)
<1>1. PICK m \in 1..3 : Compiled(x, m) /\ Len(x.text) \in Nat /\ Len(x.text) <= 13
  BY ExprsSmall DEF Small
<1>2. m <= MAX_TERMS
  BY Bounds
<1> QED BY <1>1, <1>2 DEF Sendable, BOOL_EXPR_SIZE

(* So do the queries of the checked property.                              *)
THEOREM AnswersAlwaysExact == Spec => []AnswersExact
<1>1. ASSUME TypeOK, IndexExact PROVE AnswersExact
  <2> SUFFICES ASSUME session # "down", NEW x \in Exprs, NEW r \in Arrived[x.text], NEW d \in Docs,
                      Tracked(d)
               PROVE  d \in Matches(r, postings, all_docs) <=> Holds(x, d)
    BY Zenon DEF AnswersExact
  <2>1. x.text \in {y.text : y \in Exprs}
    OBVIOUS
  <2>2. Arrived[x.text] = Arriving(x.text)
    BY <2>1, Zenon DEF Arrived
  <2>3. ExprExact(x)
    BY <1>1, ExprsSent, CompiledAnswered
  <2> QED BY <2>2, <2>3, Zenon DEF ExprExact
<1>2. Spec => [](TypeOK /\ IndexExact)
  BY UpdatesTypeCorrect, IndexAlwaysExact, PTL
<1> QED BY <1>1, <1>2, PTL

-----------------------------------------------------------------------------
(* The data of the checked round trips: a number of cells, none of them a  *)
(* zero.                                                                   *)
Units == Uint8 \cup {"key", Letter, NUL, "pad"}

LEMMA UnitsAre == Uint8 \subseteq Units /\ {NUL, "pad"} \subseteq Units /\ {Letter} \subseteq Units
BY DEF Units

LEMMA DataPlain ==
  /\ \A d \in Data \cup {TooLong} : d \in Seq({Letter})
  /\ \A d \in Data : Len(d) <= 300
<1>1. \A n \in Nat : LET d == [i \in 1..n |-> Letter] IN d \in Seq({Letter}) /\ Len(d) = n
  OBVIOUS
<1>2. MAX_INDEX_SIZE + MAX_DOC_SIZE \in Nat
  BY Bounds
<1>3. TooLong \in Seq({Letter})
  BY <1>1, <1>2, Zenon DEF TooLong
<1>4. ASSUME NEW d \in Data PROVE d \in Seq({Letter}) /\ Len(d) <= 300
  <2>1. PICK n \in {0, 1, 2, 255, 256, 300} : d = [i \in 1..n |-> Letter]
    BY Zenon DEF Data
  <2>2. n \in Nat /\ n <= 300
    OBVIOUS
  <2>3. d \in Seq({Letter}) /\ Len(d) = n
    BY <1>1, <2>1, <2>2, Zenon
  <2> QED BY <2>2, <2>3
<1> QED BY <1>3, <1>4

LEMMA PlainTrimmed ==
  ASSUME NEW d \in Seq({Letter})
  PROVE  /\ d \in Seq(Units) /\ trim_trailing_null(d) = d
         /\ \A i \in 1..Len(d) : d[i] # NUL
         /\ WithNul(d) \in Seq(Units) /\ Len(WithNul(d)) = Len(d) + 1
         /\ trim_trailing_null(WithNul(d)) = d
<1>1. d \in Seq(Units)
  BY UnitsAre
<1>2. \A i \in 1..Len(d) : d[i] # NUL
  BY DEF NUL, Letter
<1>3. trim_trailing_null(d) = d
  <2>1. d # <<>> => d[Len(d)] # NUL
    BY <1>2
  <2> QED BY <1>1, <2>1, TrimTwice
<1>4. WithNul(d) = Append(d, NUL) /\ WithNul(d) \in Seq(Units) /\ Len(WithNul(d)) = Len(d) + 1
  BY <1>1, UnitsAre DEF WithNul
<1>5. trim_trailing_null(Append(d, NUL)) = trim_trailing_null(d)
  BY <1>1, UnitsAre, TrimZero
<1> QED BY <1>1, <1>2, <1>3, <1>4, <1>5

LEMMA SmallOnes ==
  /\ {0, 1, 2, 255} \subseteq Uint8
  /\ {0, 1, 255, 256, 65536, 70000} \subseteq Uint32
<1>1. {0, 1, 2, 255} \subseteq Uint8
  BY DEF Uint8
<1>2. \A n \in {0, 1, 255, 256, 65536, 70000} : n \in Nat /\ n <= 16777216
  OBVIOUS
<1> QED BY <1>1, <1>2, SmallNumbers

LEMMA LimitsSmall == 24 + MAX_INDEX_SIZE + MAX_DOC_SIZE \in Uint32
<1>1. 24 + MAX_INDEX_SIZE + MAX_DOC_SIZE \in Nat /\ 24 + MAX_INDEX_SIZE + MAX_DOC_SIZE <= 16777216
  BY Bounds
<1> QED BY <1>1, SmallNumbers

LEMMA SamplesArrive ==
  ASSUME NEW r \in Samples
  PROVE  Transported(r) = r /\ GatewayTransported(r) = r
<1>1. r \in InitRequests(Units) \cup ShutdownRequests \cup UpdateRequests(Units)
  <2>1. Client_id \in Uint8 /\ OtherClient_id \in Uint8 /\ "key" \in Units
    BY RequestsAssumption DEF Units
  <2>2. InitSamples \subseteq InitRequests(Units)
    <3>1. INIT_MODE_CREATE \in Uint8 /\ INIT_MODE_RESUME \in Uint8
      BY SmallOnes DEF INIT_MODE_CREATE, INIT_MODE_RESUME
    <3> QED BY <2>1, <3>1, SmallOnes DEF InitRequests, InitSamples
  <2>3. ShutdownSamples \subseteq ShutdownRequests
    BY <2>1, SmallOnes DEF ShutdownRequests, ShutdownSamples
  <2>4. UPDATE_SPLIT # UPDATE_LEGACY
    BY DEF UPDATE_SPLIT, UPDATE_LEGACY
  <2>5. Ops \subseteq Uint8 /\ DocIds \subseteq Uint32
    BY SmallOnes DEF Ops, DocIds, Uint8
  <2>6. \A d \in Data : d \in Seq(Units) /\ Len(d) <= MAX_INDEX_SIZE /\ Len(d) <= MAX_DOC_SIZE
    <3>1. ASSUME NEW d \in Data PROVE d \in Seq(Units) /\ Len(d) \in Nat /\ Len(d) <= 300
      <4>1. d \in Seq({Letter}) /\ Len(d) <= 300
        BY DataPlain
      <4> QED BY <4>1, PlainTrimmed
    <3>2. \A n \in Nat : n <= 300 => n <= MAX_INDEX_SIZE /\ n <= MAX_DOC_SIZE
      BY Bounds
    <3> QED BY <3>1, <3>2, Zenon
  <2>7. <<>> \in Seq(Units) /\ Len(<<>>) <= MAX_INDEX_SIZE
    BY Bounds
  <2>8. SplitSamples \subseteq UpdateRequests(Units)
    BY <2>1, <2>4, <2>5, <2>6 DEF SplitSamples, UpdateRequests
  <2>9. LegacySamples \subseteq UpdateRequests(Units)
    BY <2>1, <2>4, <2>5, <2>6, <2>7 DEF LegacySamples, UpdateRequests
  <2> QED BY <2>2, <2>3, <2>8, <2>9 DEF Samples
<1>2. CASE r \in InitRequests(Units) \cup ShutdownRequests
  <2>1. Len(serialize_encdb_request(r)) \in Uint32
    BY <1>2, UnitsAre, ShortBodies
  <2>2. r \in LegalRequests(Units)
    BY <1>2 DEF LegalRequests
  <2> QED BY <2>1, <2>2, UnitsAre, RequestsArrive, GatewayRequestsArrive
<1>3. CASE r \in UpdateRequests(Units)
  BY <1>3, UnitsAre, LimitsSmall, UpdatesAlwaysArrive
<1> QED BY <1>1, <1>2, <1>3

LEMMA AnswersArrive ==
  ASSUME NEW r \in Answers
  PROVE  Answered(r) = r /\ GatewayAnswered(r) = r
<1>1. /\ OK \in Uint32 /\ ERROR \in Uint32 /\ DocIds \subseteq Uint32
      /\ {0, 1} \subseteq Uint8 /\ {0, 1} \subseteq Uint32
  BY SmallOnes DEF OK, ERROR, DocIds
<1>2. r \in InitResponses \cup UpdateResponses \cup ShutdownResponses
  <2>1. InitAnswers \subseteq InitResponses
    BY <1>1, SmallOnes DEF InitResponses, InitAnswers
  <2>2. UpdateAnswers \subseteq UpdateResponses
    BY <1>1 DEF UpdateResponses, UpdateAnswers
  <2>3. ShutdownAnswers \subseteq ShutdownResponses
    BY <1>1 DEF ShutdownResponses, ShutdownAnswers
  <2> QED BY <2>1, <2>2, <2>3 DEF Answers
<1>3. Len(serialize_encdb_response(r)) \in Uint32
  BY <1>2, UnitsAre, ShortAnswers
<1>4. r \in Responses(Units)
  BY <1>2 DEF Responses
<1> QED BY <1>3, <1>4, UnitsAre, ResponsesArrive

LEMMA ProgramsSent ==
  ASSUME NEW x \in Exprs, NEW type \in 0..4
  PROVE  LET text == (IF type = 0 THEN <<>> ELSE <<Aggregates[type]>>) \o x.text
             q == ClientSelect(text)
         IN  /\ q.ok /\ q.type = type /\ GatewaySelect(InLower(text)) = q
             /\ Transported(SelectRequest(q)) = SelectRequest(q)
<1>1. PICK m : Compiled(x, m) /\ Sendable(x, m)
  BY ExprsSent
<1> DEFINE text == Asked(type, x.text)
<1>2. PICK kw \in Seq(Words), c \in Seq(Nat) :
        LET q == [ok |-> TRUE, type |-> type, terms |-> kw, bool_expr |-> c] IN
        /\ Finds(c, kw, x.sat) /\ Len(kw) <= m /\ Len(c) <= 2 * Len(x.text)
        /\ ClientSelect(Asked(type, x.text)) = q
        /\ GatewaySelect(InLower(Asked(type, x.text))) = q
  BY <1>1, SameProgram
<1> DEFINE q == [ok |-> TRUE, type |-> type, terms |-> kw, bool_expr |-> c]
<1>3. Len(kw) <= MAX_TERMS /\ Len(c) <= BOOL_EXPR_SIZE
  BY <1>1, <1>2, ProgramFits
<1>4. type \in Uint8
  BY DEF Uint8
<1>5. Transported(SelectRequest(q)) = SelectRequest(q)
  BY <1>3, <1>4, SelectSent
<1>6. q.ok = TRUE /\ q.type = type
  OBVIOUS
<1>7. ClientSelect(text) = q /\ GatewaySelect(InLower(text)) = q
  BY <1>2, Zenon
<1>8. text = (IF type = 0 THEN <<>> ELSE <<Aggregates[type]>>) \o x.text
  BY Zenon DEF Asked
<1> HIDE DEF text, q
<1> QED BY <1>5, <1>6, <1>7, <1>8, Zenon

LEMMA GatewayCuts ==
  ASSUME NEW keywords \in Data \cup {TooLong}, NEW doc \in Data \cup {TooLong}
  PROVE  LET r == build_update_request(Client_id, 1, 1, keywords, doc)
         IN  /\ GatewayTransported(r) = r
             /\ trim_trailing_null(r.index_content) = Cut(keywords, MAX_INDEX_SIZE - 1)
<1> DEFINE r == build_update_request(Client_id, 1, 1, keywords, doc)
           t == Cut(keywords, MAX_INDEX_SIZE - 1)
<1>1. keywords \in Seq({Letter}) /\ keywords \in Seq(Units) /\ doc \in Seq(Units)
  BY DataPlain, PlainTrimmed
<1>2. Client_id \in Uint8 /\ 1 \in Uint8 /\ 1 \in Uint32
  BY RequestsAssumption, SmallOnes
<1>3. MAX_INDEX_SIZE > 1 /\ MAX_INDEX_SIZE - 1 \in Nat
  BY Bounds
<1>4. r \in UpdateRequests(Units) /\ trim_trailing_null(r.index_content) = trim_trailing_null(t)
  BY <1>1, <1>2, <1>3, UnitsAre, GatewayBuilds
<1>5. t \in Seq({Letter})
  BY <1>1, <1>3, CutFits
<1> HIDE DEF r, t
<1>6. trim_trailing_null(t) = t
  BY <1>5, PlainTrimmed
<1>7. GatewayTransported(r) = r
  BY <1>4, UnitsAre, LimitsSmall, UpdatesAlwaysArrive
<1> QED BY <1>4, <1>6, <1>7, Zenon DEF r, t

LEMMA DataShort ==
  ASSUME NEW d \in Data
  PROVE  /\ d \in Seq(Units) /\ trim_trailing_null(d) = d /\ Len(d) \in Nat /\ Len(d) \in Uint32
         /\ WithNul(d) \in Seq(Units) /\ Len(WithNul(d)) \in Uint32
         /\ trim_trailing_null(WithNul(d)) = d
<1>1. d \in Seq({Letter}) /\ Len(d) <= 300 /\ Len(d) \in Nat
  BY DataPlain
<1>2. /\ d \in Seq(Units) /\ trim_trailing_null(d) = d
      /\ WithNul(d) \in Seq(Units) /\ Len(WithNul(d)) = Len(d) + 1
      /\ trim_trailing_null(WithNul(d)) = d
  BY <1>1, PlainTrimmed
<1>3. Len(d) \in Uint32 /\ Len(WithNul(d)) \in Uint32
  BY <1>1, <1>2, SmallNumbers
<1> QED BY <1>1, <1>2, <1>3

LEMMA WholeKept ==
  ASSUME NEW keywords \in Data, NEW body \in Data, NEW v \in Uint32, ~Overruns(keywords, body)
  PROVE  KeptWhole(keywords, body, v)
<1> DEFINE slot(n) == [slot_version |-> n, index |-> keywords, body |-> body]
<1>1. /\ keywords \in Seq(Units) /\ trim_trailing_null(keywords) = keywords
      /\ Len(keywords) \in Uint32 /\ WithNul(keywords) \in Seq(Units)
      /\ Len(WithNul(keywords)) \in Uint32 /\ trim_trailing_null(WithNul(keywords)) = keywords
      /\ body \in Seq(Units) /\ trim_trailing_null(body) = body
      /\ Len(body) \in Uint32 /\ WithNul(body) \in Seq(Units)
      /\ Len(WithNul(body)) \in Uint32 /\ trim_trailing_null(WithNul(body)) = body
  BY DataShort
<1>2. ASSUME NEW x \in Seq(Units), Len(x) \in Uint32, trim_trailing_null(x) = keywords,
             NEW y \in Seq(Units), Len(y) \in Uint32, trim_trailing_null(y) = body,
             NEW plain \in Stored(x, y, v)
      PROVE  Len(plain) = MAX_FILE_SIZE /\ ReadSlot(plain) = slot(v)
  <2>1. ReadSlot(plain) = slot(v)
    BY <1>2, UnitsAre, DocumentsKept, Zenon
  <2>2. Len(plain) = MAX_FILE_SIZE
    BY <1>2, UnitsAre, OneSize
  <2> QED BY <2>1, <2>2
<1>3. ASSUME NEW plain \in pack_doc_bundle_v1(keywords, body)
      PROVE  ReadSlot(plain) = slot(0)
  <2>1. \A p \in pack_doc_bundle_v1(keywords, body) :
          ReadSlot(p) = [slot_version |-> 0, index |-> trim_trailing_null(keywords),
                         body |-> trim_trailing_null(body)]
    BY <1>1, UnitsAre, DocumentsKept
  <2> QED BY <1>1, <1>3, <2>1, Zenon
<1>4. slot(0) = [slot(v) EXCEPT !.slot_version = 0]
  OBVIOUS
<1> HIDE DEF slot
<1>5. ASSUME NEW plain \in Stored(keywords, WithNul(body), v) \cup Stored(WithNul(keywords), body, v)
      PROVE  Len(plain) = MAX_FILE_SIZE /\ ReadSlot(plain) = slot(v)
  BY <1>1, <1>2, <1>5
<1>6. /\ \A plain \in Stored(keywords, WithNul(body), v) \cup Stored(WithNul(keywords), body, v) :
           Len(plain) = MAX_FILE_SIZE /\ ReadSlot(plain) = slot(v)
      /\ \A plain \in pack_doc_bundle_v1(keywords, body) :
           ReadSlot(plain) = [slot(v) EXCEPT !.slot_version = 0]
  BY <1>3, <1>4, <1>5
<1> QED BY <1>6, Zenon DEF KeptWhole, slot

LEMMA PartKept ==
  ASSUME NEW keywords \in Data, NEW body \in Data, NEW v \in Uint32, Overruns(keywords, body)
  PROVE  KeptInPart(keywords, body, v)
<1>1. /\ keywords \in Seq(Units) /\ trim_trailing_null(keywords) = keywords
      /\ Len(keywords) \in Uint32
      /\ body \in Seq(Units) /\ trim_trailing_null(body) = body /\ Len(body) \in Uint32
  BY DataShort
<1>2. ASSUME NEW plain \in Stored(keywords, body, v) \ {Crashed}
      PROVE  /\ Len(plain) = MAX_FILE_SIZE
             /\ ReadSlot(plain) =
                  [slot_version |-> v, body |-> trim_trailing_null(plain),
                   index |-> IF 9 + Len(keywords) <= MAX_FILE_SIZE THEN keywords ELSE <<>>]
  <2>1. Len(plain) = MAX_FILE_SIZE
    BY <1>1, <1>2, UnitsAre, OneSize
  <2>2. ReadSlot(plain) =
          [slot_version |-> v,
           index |-> IF 9 + Len(keywords) <= MAX_FILE_SIZE THEN keywords ELSE <<>>,
           body |-> trim_trailing_null(plain)]
    <3>1. LET k == trim_trailing_null(keywords)
          IN  Overruns(k, trim_trailing_null(body)) =>
                \A p \in Stored(keywords, body, v) \ {Crashed} :
                  ReadSlot(p) = [slot_version |-> v,
                                 index |-> IF 9 + Len(k) <= MAX_FILE_SIZE THEN k ELSE <<>>,
                                 body |-> trim_trailing_null(p)]
      BY <1>1, UnitsAre, DocumentsKept
    <3> QED BY <1>1, <1>2, <3>1, Zenon
  <2>3. \A n, i, c : [slot_version |-> n, index |-> i, body |-> c]
                       = [slot_version |-> n, body |-> c, index |-> i]
    OBVIOUS
  <2> QED BY <2>1, <2>2, <2>3, Zenon
<1> QED BY <1>2, Zenon DEF KeptInPart

LEMMA OldKept ==
  ASSUME NEW keywords \in Data, 2 + Len(keywords) <= MAX_FILE_SIZE
  PROVE  ReadSlot(pack_doc_bundle_legacy(WithNul(keywords)))
           = [slot_version |-> 0, index |-> keywords, body |-> <<>>]
<1>1. keywords \in Seq(Units) /\ \A i \in 1..Len(keywords) : keywords[i] # NUL
  BY DataPlain, PlainTrimmed
<1>2. NUL \in Units /\ Uint8 \subseteq Units
  BY UnitsAre
<1>3. ReadSlot(pack_doc_bundle_legacy(keywords \o <<NUL>>))
        = [slot_version |-> 0, index |-> keywords, body |-> <<>>]
  BY <1>1, <1>2, FileSize, LegacyDocumentsKept, Zenon
<1> QED BY <1>3, Zenon DEF WithNul

(* Nothing is lost or moved on any way data takes in binary form, whatever *)
(* the limits, the keywords and the ids of clients are, but the body and   *)
(* perhaps the index of a document the slot's string has no room for.      *)
THEOREM RoundTripsAlways == Spec => []RoundTrips
<1>1. WireRoundTrip
  BY SamplesArrive, AnswersArrive, ProgramsSent, GatewayCuts, Zenon DEF WireRoundTrip
<1>2. BundleRoundTrip
  <2>1. SlotVersions \subseteq Uint32
    BY SmallOnes DEF SlotVersions
  <2> QED BY <2>1, WholeKept, PartKept, OldKept, Zenon DEF BundleRoundTrip
<1>3. RoundTrips
  BY <1>1, <1>2 DEF RoundTrips
<1> QED BY <1>3, PTL

-----------------------------------------------------------------------------
(***************************************************************************)
(* Replies.  Sums are taken over a set and over a sequence, one element at *)
(* a time in an order that is not ours to choose: IsTotal(h, I, w) is a    *)
(* table h of what the weights w sum up to over the subsets of I.          *)
(***************************************************************************)
IsTotal(h, I, w) ==
  /\ h \in [SUBSET I -> Nat]
  /\ h[{}] = 0
  /\ \A s \in SUBSET I : \A x \in s : h[s] = w[x] + h[s \ {x}]

(* A set that has no member of its size is empty.                          *)
LEMMA Sizes ==
  ASSUME NEW I, IsFiniteSet(I)
  PROVE  /\ \A s \in SUBSET I : IsFiniteSet(s) /\ Cardinality(s) \in Nat
         /\ \A s \in SUBSET I : (s = {}) <=> Cardinality(s) = 0
         /\ \A s \in SUBSET I : \A x \in s :
              s \ {x} \in SUBSET I /\ Cardinality(s \ {x}) = Cardinality(s) - 1
<1>1. \A s \in SUBSET I : IsFiniteSet(s) /\ Cardinality(s) \in Nat
  BY FS_Subset, FS_CardinalityType
<1>2. \A s \in SUBSET I : (s = {}) <=> Cardinality(s) = 0
  BY <1>1, FS_EmptySet
<1>3. ASSUME NEW s \in SUBSET I, NEW x \in s
      PROVE  s \ {x} \in SUBSET I /\ Cardinality(s \ {x}) = Cardinality(s) - 1
  BY <1>1, FS_RemoveElement
<1> QED BY <1>1, <1>2, <1>3

(* f takes the members of a set away in some order.                        *)
Adds(f, I, w) ==
  /\ f[{}] = 0
  /\ \A s \in SUBSET I : s # {} =>
       \E x \in s : f[s] = w[x] + f[s \ {x}] \/ f[s] = f[s \ {x}] + w[x]

(* A table of partial sums that takes the members of a set in any order    *)
(* has the total.                                                          *)
LEMMA AnyOrder ==
  ASSUME NEW I, IsFiniteSet(I), NEW w \in [I -> Nat], NEW h, IsTotal(h, I, w),
         NEW f, Adds(f, I, w)
  PROVE  f[I] = h[I]
<1> DEFINE Bad == {m \in Nat : \E s \in SUBSET I : Cardinality(s) = m /\ f[s] # h[s]}
<1>1. SUFFICES ASSUME Bad # {} PROVE FALSE
  <2>1. \A s \in SUBSET I : Cardinality(s) \in Nat
    BY Sizes
  <2> QED BY <2>1
<1>2. Bad \subseteq Nat
  OBVIOUS
<1> HIDE DEF Bad
<1>3. PICK m \in Bad : \A k \in Bad : m <= k
  BY <1>1, <1>2, Least
<1>4. PICK s \in SUBSET I : m \in Nat /\ Cardinality(s) = m /\ f[s] # h[s]
  BY <1>3 DEF Bad
<1>5. s # {}
  <2>1. h[{}] = 0 /\ f[{}] = 0
    BY DEF IsTotal, Adds
  <2> QED BY <1>4, <2>1
<1>6. PICK x \in s : f[s] = w[x] + f[s \ {x}] \/ f[s] = f[s \ {x}] + w[x]
  BY <1>5 DEF Adds
<1> DEFINE t == s \ {x}
<1>7. t \in SUBSET I /\ Cardinality(t) = m - 1 /\ Cardinality(t) \in Nat
  BY <1>4, Sizes
<1>8. h[s] = w[x] + h[t] /\ h[t] \in Nat /\ w[x] \in Nat
  BY <1>7 DEF IsTotal
<1>9. f[s] = w[x] + f[t] \/ f[s] = f[t] + w[x]
  BY <1>6
<1> HIDE DEF t
<1>10. f[t] = h[t]
  <2>1. m - 1 \notin Bad
    BY <1>3, <1>4, <1>7
  <2> QED BY <1>7, <2>1 DEF Bad
<1> QED BY <1>4, <1>8, <1>9, <1>10

(* There is such a table for every finite set of numbers.                  *)
LEMMA TotalExists ==
  ASSUME NEW I, IsFiniteSet(I), NEW w \in [I -> Nat]
  PROVE  \E h : IsTotal(h, I, w)
<1> DEFINE Bad == {m \in Nat : \E s \in SUBSET I : Cardinality(s) = m /\ ~\E h : IsTotal(h, s, w)}
<1>1. SUFFICES ASSUME Bad # {} PROVE FALSE
  <2>1. \A s \in SUBSET I : Cardinality(s) \in Nat
    BY Sizes
  <2> QED BY <2>1
<1>2. Bad \subseteq Nat
  OBVIOUS
<1> HIDE DEF Bad
<1>3. PICK m \in Bad : \A k \in Bad : m <= k
  BY <1>1, <1>2, Least
<1>4. PICK s \in SUBSET I : m \in Nat /\ Cardinality(s) = m /\ ~\E h : IsTotal(h, s, w)
  BY <1>3 DEF Bad
<1>5. s # {}
  <2>1. SUFFICES ASSUME s = {} PROVE FALSE
    OBVIOUS
  <2> DEFINE h == [u \in SUBSET s |-> 0]
  <2>2. h \in [SUBSET s -> Nat] /\ h[{}] = 0
    OBVIOUS
  <2>3. \A u \in SUBSET s : u = {}
    BY <2>1
  <2> HIDE DEF h
  <2>4. IsTotal(h, s, w)
    BY <2>2, <2>3 DEF IsTotal
  <2> QED BY <1>4, <2>4
<1>6. PICK x : x \in s
  BY <1>5
<1> DEFINE t == s \ {x}
<1>7. t \in SUBSET I /\ Cardinality(t) = m - 1 /\ Cardinality(t) \in Nat
  BY <1>4, <1>6, Sizes
<1>8. PICK h : IsTotal(h, t, w)
  <2> HIDE DEF t
  <2>1. m - 1 \notin Bad
    BY <1>3, <1>4, <1>7
  <2> QED BY <1>7, <2>1 DEF Bad
<1> DEFINE g == [u \in SUBSET s |-> IF x \in u THEN w[x] + h[u \ {x}] ELSE h[u]]
<1>9. w[x] \in Nat /\ \A y \in s : w[y] \in Nat
  BY <1>6
<1>10. h \in [SUBSET t -> Nat] /\ h[{}] = 0
       /\ \A u \in SUBSET t : \A y \in u : h[u] = w[y] + h[u \ {y}]
  BY <1>8, Zenon DEF IsTotal
<1>11. \A u \in SUBSET s : u \ {x} \in SUBSET t /\ (x \notin u => u \in SUBSET t)
  OBVIOUS
<1> HIDE DEF t
<1>12. g \in [SUBSET s -> Nat]
  BY <1>9, <1>10, <1>11
<1>13. \A u \in SUBSET s : g[u] = IF x \in u THEN w[x] + h[u \ {x}] ELSE h[u]
  BY Zenon
<1> HIDE DEF g
<1>14. g[{}] = 0
  BY <1>10, <1>13
<1>15. ASSUME NEW u \in SUBSET s, NEW y \in u
       PROVE  g[u] = w[y] + g[u \ {y}]
  <2>0. u \ {y} \in SUBSET s
    OBVIOUS
  <2>1. CASE y = x
    <3>1. x \notin u \ {y} /\ x \in u
      BY <2>1
    <3> QED BY <1>13, <2>0, <2>1, <3>1, Zenon
  <2>2. CASE x \notin u
    <3>1. x \notin u \ {y} /\ h[u] = w[y] + h[u \ {y}]
      BY <1>10, <1>11, <2>2
    <3> QED BY <1>13, <2>0, <2>2, <3>1, Zenon
  <2>3. CASE x \in u /\ y # x
    <3> DEFINE v == u \ {x}
    <3>1. v \in SUBSET t /\ y \in v /\ v \ {y} \in SUBSET t /\ v \ {y} = (u \ {y}) \ {x}
      BY <1>11, <2>3
    <3> HIDE DEF v
    <3>2. h[v] = w[y] + h[v \ {y}] /\ h[v \ {y}] \in Nat
      BY <1>10, <3>1
    <3>3. g[u] = w[x] + h[v] /\ g[u \ {y}] = w[x] + h[v \ {y}]
      BY <1>13, <2>0, <2>3, <3>1, Zenon DEF v
    <3>4. w[y] \in Nat
      BY <1>9
    <3> QED BY <1>9, <3>2, <3>3, <3>4
  <2> QED BY <2>1, <2>2, <2>3
<1>16. IsTotal(g, s, w)
  BY <1>12, <1>14, <1>15, Zenon DEF IsTotal
<1> QED BY <1>4, <1>16

(* A finite set of numbers has a largest member.                           *)
LEMMA Highest ==
  ASSUME NEW S, S \subseteq Nat, IsFiniteSet(S), S # {}
  PROVE  /\ Max(S) \in S /\ \A y \in S : y <= Max(S)
         /\ \A x \in S : (\A y \in S : y <= x) => x = Max(S)
<1> DEFINE B == {m \in Nat : \E s \in SUBSET S : Cardinality(s) = m /\ s # {} /\ ~\E x \in s : \A y \in s : y <= x}
<1>1. B = {}
  <2> SUFFICES ASSUME B # {} PROVE FALSE
    OBVIOUS
  <2>1. B \subseteq Nat
    OBVIOUS
  <2> HIDE DEF B
  <2>2. PICK m \in B : \A k \in B : m <= k
    BY <2>1, Least
  <2>3. PICK s \in SUBSET S : m \in Nat /\ Cardinality(s) = m /\ s # {} /\ ~\E x \in s : \A y \in s : y <= x
    BY <2>2 DEF B
  <2>4. PICK z \in s : TRUE
    BY <2>3
  <2> DEFINE t == s \ {z}
  <2>5. t \in SUBSET S /\ Cardinality(t) = m - 1 /\ Cardinality(t) \in Nat
    <3>1. t \in SUBSET S
      OBVIOUS
    <3>2. Cardinality(s) = m
      BY <2>3
    <3>3. Cardinality(t) = Cardinality(s) - 1
      BY Sizes
    <3> HIDE DEF t
    <3>4. Cardinality(t) \in Nat
      BY <3>1, Sizes
    <3> QED BY <3>1, <3>2, <3>3, <3>4
  <2>6. t # {}
    <3>1. t = {} => \A y \in s : y = z
      OBVIOUS
    <3> QED BY <2>3, <2>4, <3>1
  <2>7. \E x \in t : \A y \in t : y <= x
    <3> HIDE DEF t
    <3>1. m - 1 \notin B
      BY <2>2, <2>3, <2>5
    <3> QED BY <2>5, <2>6, <3>1 DEF B
  <2>8. PICK x \in t : \A y \in t : y <= x
    BY <2>7
  <2>9. CASE z <= x
    BY <2>3, <2>8, <2>9
  <2>10. CASE ~(z <= x)
    <3>1. \A y \in s : y <= z
      BY <2>4, <2>8, <2>10
    <3> QED BY <2>3, <2>4, <3>1
  <2> QED BY <2>9, <2>10
<1>2. Cardinality(S) \in Nat
  BY FS_CardinalityType
<1>3. \E x \in S : \A y \in S : y <= x
  BY <1>1, <1>2
<1> HIDE DEF B
<1>4. Max(S) \in S /\ \A y \in S : y <= Max(S)
  BY <1>3 DEF Max
<1>5. ASSUME NEW x \in S, \A y \in S : y <= x PROVE x = Max(S)
  <2>1. x <= Max(S) /\ Max(S) <= x /\ x \in Nat /\ Max(S) \in Nat
    BY <1>4, <1>5
  <2> QED BY <2>1
<1> QED BY <1>4, <1>5

(* The sum of a set, and of a sequence.                                    *)
LEMMA SumOfSet ==
  ASSUME NEW S, S \subseteq Nat, IsFiniteSet(S), NEW h, IsTotal(h, S, [x \in S |-> x])
  PROVE  SumSet(S) = h[S]
<1> DEFINE w == [x \in S |-> x]
           c(s) == CHOOSE x \in s : TRUE
           G(f) == [s \in SUBSET S |-> IF s = {} THEN 0 ELSE c(s) + f[s \ {c(s)}]]
           f == CHOOSE f : f = G(f)
<1>1. SumSet(S) = f[S]
  BY Zenon DEF SumSet, FoldSet, MapThenFoldSet
<1>2. \A s \in SUBSET S : s # {} => c(s) \in s
  OBVIOUS
<1> HIDE DEF c
<1>3. h = G(h)
  <2>1. h = [s \in SUBSET S |-> h[s]]
    BY DEF IsTotal
  <2>2. h[{}] = 0 /\ \A s \in SUBSET S : \A x \in s : h[s] = w[x] + h[s \ {x}]
    BY Zenon DEF IsTotal
  <2>3. \A s \in SUBSET S : s # {} => w[c(s)] = c(s)
    BY <1>2
  <2> HIDE DEF w
  <2>4. ASSUME NEW s \in SUBSET S
        PROVE  h[s] = IF s = {} THEN 0 ELSE c(s) + h[s \ {c(s)}]
    <3>1. ASSUME s # {} PROVE h[s] = c(s) + h[s \ {c(s)}]
      BY <1>2, <2>2, <2>3, <3>1
    <3> QED BY <2>2, <3>1
  <2> QED BY <2>1, <2>4, Zenon
<1>4. f = G(f)
  <2> HIDE DEF G
  <2> QED BY <1>3, Zenon
<1> HIDE DEF f
<1>5. \A s \in SUBSET S : f[s] = IF s = {} THEN 0 ELSE c(s) + f[s \ {c(s)}]
  <2>1. \A s \in SUBSET S : G(f)[s] = IF s = {} THEN 0 ELSE c(s) + f[s \ {c(s)}]
    BY Zenon
  <2> HIDE DEF G
  <2>2. \A s \in SUBSET S : f[s] = G(f)[s]
    BY <1>4
  <2> QED BY <2>1, <2>2, Zenon
<1> HIDE DEF G
<1>6. f[{}] = 0
  BY <1>5
<1>7. ASSUME NEW s \in SUBSET S, s # {}
      PROVE  \E x \in s : f[s] = w[x] + f[s \ {x}] \/ f[s] = f[s \ {x}] + w[x]
  <2>1. c(s) \in s /\ w[c(s)] = c(s)
    BY <1>2, <1>7
  <2>2. f[s] = c(s) + f[s \ {c(s)}]
    BY <1>5, <1>7
  <2> HIDE DEF w
  <2> QED BY <2>1, <2>2
<1>8. w \in [S -> Nat]
  OBVIOUS
<1> HIDE DEF w
<1>9. IsTotal(h, S, w)
  BY DEF w
<1>10. Adds(f, S, w)
  BY <1>6, <1>7, Zenon DEF Adds
<1>11. f[S] = h[S]
  BY <1>8, <1>9, <1>10, AnyOrder, Zenon
<1> QED BY <1>1, <1>11

LEMMA SumOfSequence ==
  ASSUME NEW n \in Nat, NEW w, w \in [1..n -> Nat], NEW h, IsTotal(h, 1..n, w)
  PROVE  FoldLeft(LAMBDA a, i : a + i, 0, w) = h[1..n]
<1> DEFINE I == 1..n
           G(f) == [s \in SUBSET I |-> IF s = {} THEN 0 ELSE f[s \ {Max(s)}] + w[Max(s)]]
           f == CHOOSE f : f = G(f)
<1>1. FoldLeft(LAMBDA a, i : a + i, 0, w) = f[I]
  <2>1. DOMAIN w = I
    OBVIOUS
  <2> HIDE DEF I
  <2> QED BY <2>1, Zenon DEF FoldLeft, MapThenFoldSet
<1>2. IsFiniteSet(I) /\ I \in SUBSET Nat
  BY FS_Interval
<1>3. IsTotal(h, I, w) /\ w \in [I -> Nat]
  OBVIOUS
<1> HIDE DEF I
<1>4. ASSUME NEW s \in SUBSET I, s # {} PROVE Max(s) \in s
  <2>1. s \subseteq Nat /\ IsFiniteSet(s)
    BY <1>2, FS_Subset
  <2> QED BY <1>4, <2>1, Highest
<1>5. h = G(h)
  <2>1. /\ h = [s \in SUBSET I |-> h[s]] /\ h[{}] = 0
        /\ \A s \in SUBSET I : \A x \in s : h[s] = w[x] + h[s \ {x}]
    BY <1>3 DEF IsTotal
  <2>2. ASSUME NEW s \in SUBSET I, NEW x \in s PROVE w[x] \in Nat /\ h[s \ {x}] \in Nat
    BY <1>3 DEF IsTotal
  <2>3. ASSUME NEW s \in SUBSET I
        PROVE  h[s] = IF s = {} THEN 0 ELSE h[s \ {Max(s)}] + w[Max(s)]
    <3>1. ASSUME s # {} PROVE h[s] = h[s \ {Max(s)}] + w[Max(s)]
      <4>1. PICK x \in s : x = Max(s)
        BY <1>4, <3>1
      <4>2. h[s] = w[x] + h[s \ {x}] /\ w[x] \in Nat /\ h[s \ {x}] \in Nat
        BY <2>1, <2>2
      <4> QED BY <4>1, <4>2
    <3> QED BY <2>1, <3>1
  <2> QED BY <2>1, <2>3, Zenon
<1>6. f = G(f)
  <2> HIDE DEF G
  <2> QED BY <1>5, Zenon
<1> HIDE DEF f
<1>7. \A s \in SUBSET I : f[s] = IF s = {} THEN 0 ELSE f[s \ {Max(s)}] + w[Max(s)]
  <2>1. \A s \in SUBSET I : G(f)[s] = IF s = {} THEN 0 ELSE f[s \ {Max(s)}] + w[Max(s)]
    BY Zenon
  <2> HIDE DEF G
  <2>2. \A s \in SUBSET I : f[s] = G(f)[s]
    BY <1>6
  <2> QED BY <2>1, <2>2, Zenon
<1> HIDE DEF G
<1>8. f[{}] = 0
  BY <1>7
<1>9. ASSUME NEW s \in SUBSET I, s # {}
      PROVE  \E x \in s : f[s] = w[x] + f[s \ {x}] \/ f[s] = f[s \ {x}] + w[x]
  <2>1. f[s] = f[s \ {Max(s)}] + w[Max(s)]
    BY <1>7, <1>9
  <2> QED BY <1>4, <1>9, <2>1, Zenon
<1>10. Adds(f, I, w)
  BY <1>8, <1>9, Zenon DEF Adds
<1>11. f[I] = h[I]
  BY <1>2, <1>3, <1>10, AnyOrder
<1> QED BY <1>1, <1>11 DEF I

(* The ids of a set of documents in ascending order.                       *)
IsAscending(ids, S) ==
  /\ ids \in [1..Cardinality(S) -> S]
  /\ \A i, j \in 1..Cardinality(S) : i < j => ids[i] < ids[j]

LEMMA CanSort ==
  ASSUME NEW S, S \subseteq Nat, IsFiniteSet(S)
  PROVE  \E ids : IsAscending(ids, S)
<1> DEFINE Bad == {m \in Nat : \E s \in SUBSET S : Cardinality(s) = m /\ ~\E ids : IsAscending(ids, s)}
<1>1. SUFFICES ASSUME Bad # {} PROVE FALSE
  <2>1. \A s \in SUBSET S : Cardinality(s) \in Nat
    BY Sizes
  <2>2. S \in SUBSET S
    OBVIOUS
  <2> QED BY <2>1, <2>2
<1>2. Bad \subseteq Nat
  OBVIOUS
<1> HIDE DEF Bad
<1>3. PICK m \in Bad : \A k \in Bad : m <= k
  BY <1>1, <1>2, Least
<1>4. PICK s \in SUBSET S : m \in Nat /\ Cardinality(s) = m /\ ~\E ids : IsAscending(ids, s)
  BY <1>3 DEF Bad
<1>5. s # {}
  <2>1. SUFFICES ASSUME s = {} PROVE FALSE
    OBVIOUS
  <2>2. Cardinality(s) = 0
    BY <2>1, FS_EmptySet
  <2>3. IsAscending([i \in 1..0 |-> 0], s)
    BY <2>2 DEF IsAscending
  <2> QED BY <1>4, <2>3
<1> DEFINE x == Max(s)
           t == s \ {x}
<1>6. x \in s /\ \A y \in s : y <= x
  <2>1. s \subseteq Nat /\ IsFiniteSet(s)
    BY FS_Subset
  <2> QED BY <1>5, <2>1, Highest
<1> HIDE DEF x
<1>7. t \in SUBSET S /\ Cardinality(t) = m - 1 /\ Cardinality(t) \in Nat
  <2>1. t \in SUBSET S
    OBVIOUS
  <2>2. Cardinality(t) = Cardinality(s) - 1
    BY <1>6, Sizes
  <2> HIDE DEF t
  <2>3. Cardinality(t) \in Nat
    BY <2>1, Sizes
  <2> QED BY <1>4, <2>1, <2>2, <2>3
<1>8. PICK f : IsAscending(f, t)
  <2> HIDE DEF t
  <2>1. m - 1 \notin Bad
    BY <1>3, <1>4, <1>7
  <2> QED BY <1>7, <2>1 DEF Bad
<1>9. /\ f \in [1..(m - 1) -> t]
      /\ \A i, j \in 1..(m - 1) : i < j => f[i] < f[j]
  <2> HIDE DEF t
  <2> QED BY <1>7, <1>8, Zenon DEF IsAscending
<1>10. \A y \in t : y \in s /\ y < x
  <2>1. ASSUME NEW y \in t PROVE y \in s /\ y <= x /\ y # x /\ y \in Nat /\ x \in Nat
    BY <1>6
  <2> HIDE DEF t
  <2>2. ASSUME NEW y \in t PROVE y \in s /\ y < x
    BY <2>1
  <2> QED BY <2>2
<1> HIDE DEF t
<1> DEFINE g == [i \in 1..m |-> IF i = m THEN x ELSE f[i]]
<1>11. \A i \in 1..m : i # m => i \in 1..(m - 1) /\ f[i] \in t
  BY <1>4, <1>9
<1>12. m \in Nat /\ Cardinality(s) = m
  BY <1>4
<1>13. g \in [1..m -> s]
  BY <1>6, <1>10, <1>11
<1>14. ASSUME NEW i \in 1..m, NEW j \in 1..m, i < j PROVE g[i] < g[j]
  <2>1. i # m /\ i \in 1..(m - 1) /\ g[i] = f[i] /\ f[i] \in t
    BY <1>11, <1>12, <1>14
  <2>2. CASE j = m
    BY <1>10, <2>1, <2>2
  <2>3. CASE j # m
    <3>1. j \in 1..(m - 1) /\ g[j] = f[j]
      BY <1>11, <2>3
    <3> QED BY <1>9, <1>14, <2>1, <3>1
  <2> QED BY <2>2, <2>3
<1> HIDE DEF g
<1>15. IsAscending(g, s)
  BY <1>12, <1>13, <1>14, Zenon DEF IsAscending
<1> QED BY <1>4, <1>15

Enumerates(ids, S) ==
  /\ Cardinality(S) \in Nat
  /\ IsAscending(ids, S)
  /\ \A d \in S : \E i \in 1..Cardinality(S) : ids[i] = d
  /\ \A i \in 1..Cardinality(S) : Cardinality({d \in S : d < ids[i]}) = i - 1

LEMMA InOrder ==
  ASSUME NEW S, S \subseteq Nat, IsFiniteSet(S), NEW a, a = Ascending(S)
  PROVE  Enumerates(a, S)
<1> DEFINE n == Cardinality(S)
<1>1. n \in Nat
  BY FS_CardinalityType
<1>2. PICK f : IsAscending(f, S)
  BY CanSort
<1> HIDE DEF n
<1>3. f \in [1..n -> S] /\ \A i, j \in DOMAIN f : i < j => f[i] < f[j]
  <2>1. f \in [1..n -> S] /\ \A i, j \in 1..n : i < j => f[i] < f[j]
    BY <1>2, Zenon DEF IsAscending, n
  <2>2. DOMAIN f = 1..n
    BY <2>1
  <2> QED BY <2>1, <2>2, Zenon
<1>4. Ascending(S) = CHOOSE ids \in [1..n -> S] : \A i, j \in DOMAIN ids : i < j => ids[i] < ids[j]
  BY Zenon DEF Ascending, n
<1>5. a \in [1..n -> S] /\ \A i, j \in DOMAIN a : i < j => a[i] < a[j]
  BY <1>3, <1>4, Zenon
<1>6. \A i, j \in 1..n : i < j => a[i] < a[j]
  <2>1. DOMAIN a = 1..n
    BY <1>5
  <2> QED BY <1>5, <2>1, Zenon
<1>7. \A i \in 1..n : a[i] \in S /\ a[i] \in Nat
  BY <1>5
<1>8. ASSUME NEW i \in 1..n, NEW j \in 1..n
      PROVE  /\ a[i] < a[j] => i < j
             /\ a[i] = a[j] => i = j
  <2>1. i < j => a[i] < a[j]
    BY <1>6
  <2>2. j < i => a[j] < a[i]
    BY <1>6
  <2>3. a[i] \in Nat /\ a[j] \in Nat /\ i \in Nat /\ j \in Nat
    BY <1>1, <1>7
  <2> HIDE DEF n
  <2> QED BY <2>1, <2>2, <2>3
<1>9. \A d \in S : \E i \in 1..n : a[i] = d
  <2>1. IsFiniteSet(1..n) /\ Cardinality(1..n) = n
    BY <1>1, FS_Interval
  <2>2. a \in Injection(1..n, S)
    <3>1. DOMAIN a = 1..n
      BY <1>5
    <3> QED BY <1>5, <1>8, <3>1, Zenon DEF Injection, IsInjective
  <2>3. a \in Surjection(1..n, S)
    BY <2>1, <2>2, FS_Injection DEF n
  <2> QED BY <2>3, Zenon DEF Surjection
<1>10. ASSUME NEW k \in 1..n PROVE Cardinality({d \in S : d < a[k]}) = k - 1
  <2> DEFINE B == {d \in S : d < a[k]}
             f2 == [i \in 1..(k - 1) |-> a[i]]
  <2>1. k - 1 \in Nat /\ \A i \in 1..(k - 1) : i \in 1..n /\ i < k
    BY <1>1
  <2>2. f2 \in [1..(k - 1) -> B]
    <3>1. ASSUME NEW i \in 1..(k - 1) PROVE a[i] \in B
      BY <1>6, <1>7, <2>1
    <3> HIDE DEF B
    <3> QED BY <3>1
  <2>3. \A i, j \in 1..(k - 1) : f2[i] = f2[j] => i = j
    BY <1>8, <2>1
  <2>4. \A d \in B : \E i \in 1..(k - 1) : f2[i] = d
    <3>1. ASSUME NEW d \in B PROVE \E i \in 1..(k - 1) : f2[i] = d
      <4>1. PICK i \in 1..n : a[i] = d
        BY <1>9
      <4>2. a[i] < a[k]
        BY <4>1
      <4>3. i < k
        BY <1>8, <4>2, Zenon
      <4>4. i \in 1..(k - 1)
        BY <1>1, <4>3
      <4> QED BY <4>1, <4>4
    <3> QED BY <3>1
  <2> HIDE DEF B, f2
  <2>5. f2 \in Bijection(1..(k - 1), B)
    BY <2>2, <2>3, <2>4, Zenon DEF Bijection, Injection, Surjection, IsInjective
  <2>6. ExistsBijection(1..(k - 1), B)
    BY <2>5, Zenon DEF ExistsBijection
  <2>7. Cardinality(B) = k - 1
    BY <2>1, <2>6, FS_CountingElements
  <2> QED BY <2>7 DEF B
<1>11. IsAscending(a, S)
  BY <1>5, <1>6, Zenon DEF IsAscending, n
<1> QED BY <1>1, <1>9, <1>10, <1>11, Zenon DEF Enumerates, n

(* A reply to a query arrives as the server gave it.                       *)
LEMMA RowsArrive ==
  ASSUME NEW S, Uint8 \subseteq S, NEW r \in SelectResponses(S)
  PROVE  Answered(r) = r /\ GatewayAnswered(r) = r
<1> DEFINE n == Len(r.doc_ids)
           b == ResponseBody(r)
           s == Cat(Cat(U32(r.status), U32(r.type)), Long(b))
<1>1. /\ r.status \in Uint32 /\ r.type = SELECT_RESULT
      /\ r.doc_ids \in Seq(Uint32) /\ r.doc_contents \in Seq(S)
      /\ n \in Nat /\ n <= MAX_RESULT_DOCS /\ Len(r.doc_contents) = n
  BY DEF SelectResponses
<1>2. MAX_RESULT_DOCS \in Nat /\ MAX_RESULT_DOCS <= 65536
  BY Caps, RequestsAssumption DEF Uint32
<1>3. n <= 65536
  <2> HIDE DEF n
  <2> QED BY <1>1, <1>2
<1>4. n \in Uint32
  <2> HIDE DEF n
  <2>1. n <= 16777216
    BY <1>1, <1>3
  <2> QED BY <1>1, <2>1, SmallNumbers
<1>5. b = SelectResultBody(r.doc_ids, r.doc_contents)
  <2>1. b = (U32(Len(r.doc_ids)) \o FlattenSeq([i \in DOMAIN r.doc_ids |-> U32(r.doc_ids[i])]))
              \o r.doc_contents
    BY <1>1, ResultKinds DEF ResponseBody
  <2> QED BY <2>1, Zenon DEF Cat, SelectResultBody
<1>6. b \in Seq(S) /\ Len(b) = 4 + 5 * n
  <2> SUFFICES ASSUME NEW ids \in Seq(Uint32), Len(ids) \in Uint32,
                      NEW contents \in Seq(S), Len(contents) = Len(ids)
               PROVE  LET c == SelectResultBody(ids, contents)
                      IN  c \in Seq(S) /\ Len(c) = 4 + 5 * Len(ids)
    BY <1>1, <1>4, <1>5, Zenon
  <2> QED BY SelectResultRead
<1>7. serialize_encdb_response(r) = s
  BY Zenon DEF serialize_encdb_response, Cat
<1> HIDE DEF b
<1>8. Len(s) = 12 + Len(b)
  <2> SUFFICES ASSUME NEW status \in Uint32, NEW type \in Uint32, NEW body \in Seq(S)
               PROVE  Len(Cat(Cat(U32(status), U32(type)), Long(body))) = 12 + Len(body)
    BY <1>1, <1>6, ResultKinds, Zenon
  <2> QED BY AnswerRead
<1> HIDE DEF s, n
<1>9. Len(s) \in Nat /\ Len(s) <= 16777216
  BY <1>1, <1>3, <1>6, <1>8
<1>10. Len(serialize_encdb_response(r)) \in Uint32
  BY <1>7, <1>9, SmallNumbers
<1>11. r \in Responses(S)
  BY DEF Responses
<1> QED BY <1>10, <1>11, ResponsesArrive

(* The sum of the ids in ascending order is the sum of the set, and none   *)
(* of them exceeds it.                                                     *)
LEMMA SumInOrder ==
  ASSUME NEW S, S \subseteq Nat, IsFiniteSet(S), NEW ids, ids = Ascending(S)
  PROVE  /\ FoldLeft(LAMBDA a, i : a + i, 0, ids) = SumSet(S)
         /\ SumSet(S) \in Nat /\ \A x \in S : x <= SumSet(S)
<1> DEFINE n == Cardinality(S)
           w == [x \in S |-> x]
<1>1. /\ n \in Nat /\ ids \in [1..n -> S]
      /\ \A i, j \in 1..n : i < j => ids[i] < ids[j]
      /\ \A d \in S : \E i \in 1..n : ids[i] = d
  <2>1. Enumerates(ids, S)
    BY InOrder, Zenon
  <2> QED BY <2>1, Zenon DEF Enumerates, IsAscending
<1>2. PICK h : IsTotal(h, S, w)
  <2>1. w \in [S -> Nat]
    OBVIOUS
  <2> HIDE DEF w
  <2> QED BY <2>1, TotalExists
<1>3. SumSet(S) = h[S]
  BY <1>2, SumOfSet
<1>4. /\ h \in [SUBSET S -> Nat] /\ h[{}] = 0
      /\ \A s \in SUBSET S : \A x \in s : h[s] = x + h[s \ {x}]
  <2>1. \A x \in S : w[x] = x
    OBVIOUS
  <2>2. /\ h \in [SUBSET S -> Nat] /\ h[{}] = 0
        /\ \A s \in SUBSET S : \A x \in s : h[s] = w[x] + h[s \ {x}]
    BY <1>2, Zenon DEF IsTotal
  <2> HIDE DEF w
  <2> QED BY <2>1, <2>2
<1> HIDE DEF n, w
<1> DEFINE Of(t) == {ids[i] : i \in t}
           g == [t \in SUBSET (1..n) |-> h[Of(t)]]
<1>5. ASSUME NEW t \in SUBSET (1..n), NEW i \in t
      PROVE  Of(t) \in SUBSET S /\ ids[i] \in Of(t) /\ Of(t \ {i}) = Of(t) \ {ids[i]}
  <2>1. \A j \in t : ids[j] \in S
    BY <1>1
  <2>2. ASSUME NEW j \in t, ids[j] = ids[i] PROVE j = i
    <3>1. i \in 1..n /\ j \in 1..n /\ ids[i] \in Nat
      BY <2>1
    <3>2. ~(i < j) /\ ~(j < i)
      BY <1>1, <2>2, <3>1
    <3> QED BY <1>1, <3>1, <3>2
  <2> QED BY <2>1, <2>2
<1>6. g \in [SUBSET (1..n) -> Nat] /\ g[{}] = 0
  <2>1. ASSUME NEW t \in SUBSET (1..n) PROVE Of(t) \in SUBSET S
    BY <1>1
  <2>2. Of({}) = {}
    OBVIOUS
  <2> HIDE DEF Of
  <2> QED BY <1>4, <2>1, <2>2
<1>7. ASSUME NEW t \in SUBSET (1..n), NEW i \in t
      PROVE  g[t] = ids[i] + g[t \ {i}]
  <2>1. g[t] = h[Of(t)] /\ g[t \ {i}] = h[Of(t \ {i})]
    <3>1. t \ {i} \in SUBSET (1..n)
      OBVIOUS
    <3> HIDE DEF Of
    <3> QED BY <3>1
  <2> HIDE DEF Of, g
  <2>2. h[Of(t)] = ids[i] + h[Of(t) \ {ids[i]}]
    BY <1>4, <1>5, Zenon
  <2> QED BY <1>5, <2>1, <2>2, Zenon
<1> HIDE DEF g, Of
<1>8. IsTotal(g, 1..n, ids)
  BY <1>6, <1>7, Zenon DEF IsTotal
<1>9. ids \in [1..n -> Nat]
  BY <1>1
<1>10. FoldLeft(LAMBDA a, i : a + i, 0, ids) = g[1..n]
  BY <1>1, <1>8, <1>9, SumOfSequence
<1>11. g[1..n] = h[S]
  <2>1. Of(1..n) = S
    BY <1>1 DEF Of
  <2>2. g[1..n] = h[Of(1..n)]
    BY DEF g
  <2> QED BY <2>1, <2>2
<1>12. h[S] \in Nat /\ \A x \in S : x <= h[S]
  <2>1. h[S] \in Nat
    BY <1>4
  <2>2. ASSUME NEW x \in S PROVE x <= h[S]
    <3>1. h[S] = x + h[S \ {x}] /\ h[S \ {x}] \in Nat /\ x \in Nat
      BY <1>4
    <3> QED BY <3>1
  <2> QED BY <2>1, <2>2
<1> QED BY <1>3, <1>10, <1>11, <1>12

LEMMA Lowest ==
  ASSUME NEW S, S \subseteq Nat, NEW m \in S, \A y \in S : m <= y
  PROVE  m = Min(S)
<1>1. Min(S) \in S /\ \A y \in S : Min(S) <= y
  BY DEF Min
<1>2. m <= Min(S) /\ Min(S) <= m /\ m \in Nat /\ Min(S) \in Nat
  BY <1>1
<1> QED BY <1>2

LEMMA Quotient ==
  ASSUME NEW s \in Nat, NEW n \in Nat, n # 0
  PROVE  s \div n \in Nat /\ s \div n <= s
OBVIOUS

(* What the enclave leaves for an aggregate.                               *)
Aggregate(S, type) ==
  IF S = {} THEN 0 ELSE <<Max(S), Min(S), SumSet(S), SumSet(S) \div Cardinality(S)>>[type]

LEMMA AggregateLeft ==
  ASSUME NEW S, S \subseteq Nat, IsFiniteSet(S), NEW type \in 1..4
  PROVE  /\ ResultDoc(type, S) =
              [doc_id |-> <<Aggregate(S, type), Cardinality(S)>>, doc_count |-> 1]
         /\ Aggregate(S, type) \in Nat /\ Aggregate(S, type) <= SumSet(S)
<1> DEFINE ids == Ascending(S)
           n == Cardinality(S)
           sum == FoldLeft(LAMBDA a, i : a + i, 0, ids)
           value == IF ids = <<>> THEN 0
                    ELSE CASE type = 1 -> Last(ids)
                           [] type = 2 -> Head(ids)
                           [] type = 3 -> sum
                           [] type = 4 -> sum \div Len(ids)
<1>1. Enumerates(ids, S)
  BY InOrder, Zenon
<1>2. sum = SumSet(S) /\ SumSet(S) \in Nat /\ \A x \in S : x <= SumSet(S)
  BY SumInOrder, Zenon
<1>3. ResultDoc(type, S) = [doc_id |-> <<value, Len(ids)>>, doc_count |-> 1]
  <2>1. type # 0
    OBVIOUS
  <2> QED BY <2>1, Zenon DEF ResultDoc
<1> HIDE DEF ids, sum
<1>4. /\ n \in Nat /\ ids \in [1..n -> S]
      /\ \A i, j \in 1..n : i < j => ids[i] < ids[j]
      /\ \A d \in S : \E i \in 1..n : ids[i] = d
  BY <1>1, Zenon DEF Enumerates, IsAscending
<1> HIDE DEF n
<1>5. ids \in Seq(S) /\ Len(ids) = n
  <2> SUFFICES ASSUME NEW k \in Nat, NEW f \in [1..k -> S] PROVE f \in Seq(S) /\ Len(f) = k
    BY <1>4, Zenon
  <2> QED OBVIOUS
<1>6. CASE S = {}
  <2>1. n = 0
    BY <1>6, FS_EmptySet DEF n
  <2>2. ids = <<>>
    BY <1>5, <2>1
  <2>3. value = 0 /\ Aggregate(S, type) = 0
    BY <1>6, <2>2 DEF Aggregate
  <2> HIDE DEF value
  <2> QED BY <1>2, <1>3, <1>5, <2>3 DEF n
<1>7. CASE S # {}
  <2>1. n # 0 /\ ids # <<>>
    <3>1. PICK i \in 1..n : TRUE
      BY <1>4, <1>7
    <3> QED BY <1>4, <1>5, <3>1
  <2>2. Last(ids) = ids[n] /\ Head(ids) = ids[1]
    BY <1>5, <2>1 DEF Last
  <2>3. 1 \in 1..n /\ n \in 1..n
    BY <1>4, <2>1
  <2>4. ASSUME NEW y \in S PROVE ids[1] <= y /\ y <= ids[n]
    <3>1. PICK i \in 1..n : ids[i] = y
      BY <1>4
    <3>2. ids[1] \in Nat /\ ids[n] \in Nat /\ ids[i] \in Nat
      BY <1>4, <2>3
    <3>3. i = 1 \/ 1 < i
      BY <1>4
    <3>4. i = n \/ i < n
      BY <1>4
    <3>5. 1 < i => ids[1] < ids[i]
      BY <1>4, <2>3
    <3>6. i < n => ids[i] < ids[n]
      BY <1>4, <2>3
    <3> QED BY <3>1, <3>2, <3>3, <3>4, <3>5, <3>6
  <2>5. ids[1] \in S /\ ids[n] \in S
    BY <1>4, <2>3
  <2>6. ids[n] = Max(S)
    BY <1>7, <2>4, <2>5, Highest
  <2>7. ids[1] = Min(S)
    BY <2>4, <2>5, Lowest
  <2>8. Aggregate(S, type) = <<Max(S), Min(S), SumSet(S), SumSet(S) \div n>>[type]
    BY <1>7, Zenon DEF Aggregate, n
  <2>9. SumSet(S) \div n \in Nat /\ SumSet(S) \div n <= SumSet(S)
    BY <1>2, <1>4, <2>1, Quotient
  <2>10. /\ Max(S) \in Nat /\ Max(S) <= SumSet(S)
         /\ Min(S) \in Nat /\ Min(S) <= SumSet(S)
    BY <1>2, <2>5, <2>6, <2>7
  <2>11. value = Aggregate(S, type)
    <3> DEFINE d == SumSet(S) \div n
               total == SumSet(S)
               hi == Max(S)
               lo == Min(S)
    <3>1. sum \div Len(ids) = d
      BY <1>2, <1>5, Zenon
    <3>2. sum = total /\ Last(ids) = hi /\ Head(ids) = lo
      BY <1>2, <2>2, <2>6, <2>7, Zenon
    <3>3. Aggregate(S, type) = <<hi, lo, total, d>>[type]
      BY <2>8, Zenon
    <3> HIDE DEF d, total, hi, lo
    <3>4. value = CASE type = 1 -> hi [] type = 2 -> lo [] type = 3 -> total [] type = 4 -> d
      BY <2>1, <3>1, <3>2
    <3> HIDE DEF value
    <3> QED BY <3>3, <3>4
  <2>12. Aggregate(S, type) \in Nat /\ Aggregate(S, type) <= SumSet(S)
    BY <1>2, <2>8, <2>9, <2>10
  <2> HIDE DEF value
  <2> QED BY <1>3, <1>5, <2>11, <2>12, Zenon DEF n
<1> QED BY <1>6, <1>7

LEMMA SeqWider ==
  ASSUME NEW S, NEW T, S \subseteq T, NEW s \in Seq(S)
  PROVE  s \in Seq(T)
OBVIOUS

LEMMA WholeSubSeq ==
  ASSUME NEW S, NEW s \in Seq(S)
  PROVE  SubSeq(s, 1, Len(s)) = s
OBVIOUS

(* The first documents in ascending order.                                 *)
LEMMA FirstOnes ==
  ASSUME NEW S, S \subseteq Nat, IsFiniteSet(S), SumSet(S) \in Uint32
  PROVE  LET top == Limited(Ascending(S))
             n == Cardinality(S)
         IN  /\ ResultDoc(0, S) = [doc_id |-> top, doc_count |-> Len(top)]
             /\ top \in Seq(S) /\ top \in Seq(Uint32)
             /\ Len(top) = IF n < retrieval_limit THEN n ELSE retrieval_limit
             /\ \A i \in DOMAIN top :
                  top[i] \in S /\ Cardinality({d \in S : d < top[i]}) = i - 1
<1> DEFINE ids == Ascending(S)
           n == Cardinality(S)
           L == retrieval_limit
           top == Limited(ids)
<1>1. Enumerates(ids, S)
  BY InOrder, Zenon
<1>2. ResultDoc(0, S) = [doc_id |-> top, doc_count |-> Len(top)]
  BY Zenon DEF ResultDoc
<1>3. \A x \in S : x <= SumSet(S)
  BY SumInOrder, Zenon
<1>4. S \subseteq Uint32
  BY <1>3, Below
<1> HIDE DEF ids
<1>5. /\ n \in Nat /\ ids \in [1..n -> S]
      /\ \A i \in 1..n : Cardinality({d \in S : d < ids[i]}) = i - 1
  BY <1>1, Zenon DEF Enumerates, IsAscending
<1>6. L \in Nat
  BY RequestsAssumption
<1> HIDE DEF n, L
<1>7. ids \in Seq(S) /\ Len(ids) = n
  <2> SUFFICES ASSUME NEW k \in Nat, NEW f \in [1..k -> S] PROVE f \in Seq(S) /\ Len(f) = k
    BY <1>5, Zenon
  <2> QED OBVIOUS
<1>8. top = IF n > L THEN SubSeq(ids, 1, L) ELSE ids
  BY <1>7, Zenon DEF Limited, L
<1>9. /\ top \in Seq(S) /\ Len(top) = IF n < L THEN n ELSE L
      /\ \A i \in DOMAIN top : i \in 1..n /\ top[i] = ids[i]
  <2>1. CASE n > L
    <3>1. top = SubSeq(ids, 1, L) /\ L <= Len(ids)
      BY <1>5, <1>6, <1>7, <1>8, <2>1
    <3> HIDE DEF top
    <3>2. top \in Seq(S) /\ Len(top) = L /\ \A i \in 1..L : top[i] = ids[i]
      BY <1>6, <1>7, <3>1
    <3> QED BY <1>5, <1>6, <2>1, <3>2
  <2>2. CASE ~(n > L)
    <3>1. top = ids
      BY <1>8, <2>2, Zenon
    <3> HIDE DEF top
    <3> QED BY <1>5, <1>6, <1>7, <2>2, <3>1
  <2> QED BY <2>1, <2>2
<1> HIDE DEF top
<1>10. top \in Seq(Uint32)
  BY <1>4, <1>9, SeqWider, Zenon
<1>11. \A i \in DOMAIN top : top[i] \in S /\ Cardinality({d \in S : d < top[i]}) = i - 1
  BY <1>5, <1>9
<1> QED BY <1>2, <1>9, <1>10, <1>11, Zenon DEF top, ids, n, L

(* The rows of a plain SELECT as both ends see them.                       *)
LEMMA RowsSeen ==
  ASSUME NEW S, S \subseteq Nat, IsFiniteSet(S), SumSet(S) \in Uint32
  PROVE  LET top == Limited(Ascending(S))
         IN  Seen(0, S) = {[i \in DOMAIN top |-> <<top[i], top[i]>>]}
<1> DEFINE top == Limited(Ascending(S))
           r == [status |-> OK, type |-> SELECT_RESULT, doc_ids |-> top, doc_contents |-> top]
<1>1. /\ ResultDoc(0, S) = [doc_id |-> top, doc_count |-> Len(top)]
      /\ top \in Seq(S) /\ top \in Seq(Uint32)
      /\ Len(top) = IF Cardinality(S) < retrieval_limit THEN Cardinality(S) ELSE retrieval_limit
  BY FirstOnes, Zenon
<1> HIDE DEF top
<1>2. SelectResponse(0, ResultDoc(0, S)) = [doc_ids |-> top, doc_contents |-> top]
  <2>1. SubSeq(top, 1, Len(top)) = top
    BY <1>1, WholeSubSeq
  <2>2. SelectResponse(0, [doc_id |-> top, doc_count |-> Len(top)])
          = [doc_ids |-> SubSeq(top, 1, Len(top)), doc_contents |-> SubSeq(top, 1, Len(top))]
    BY DEF SelectResponse
  <2> QED BY <1>1, <2>1, <2>2
<1>3. Reply(0, S) = r
  BY <1>2 DEF Reply
<1>4. Len(top) <= MAX_RESULT_DOCS
  <2> DEFINE n == Cardinality(S)
  <2>1. n \in Nat
    BY FS_CardinalityType
  <2>2. retrieval_limit \in Nat /\ retrieval_limit <= MAX_RESULT_DOCS /\ MAX_RESULT_DOCS \in Nat
    BY Caps, RequestsAssumption DEF Uint32
  <2> HIDE DEF n
  <2>3. Len(top) = IF n < retrieval_limit THEN n ELSE retrieval_limit
    BY <1>1, Zenon DEF n
  <2> QED BY <2>1, <2>2, <2>3
<1>5. OK \in Uint32
  BY SmallNumbers DEF OK
<1>6. Uint8 \subseteq Nat /\ S \subseteq Nat
  BY DEF Uint8
<1>7. r \in SelectResponses(Nat)
  <2>1. top \in Seq(Nat)
    BY <1>1, SeqWider, Zenon
  <2> QED BY <1>1, <1>4, <1>5, <2>1 DEF SelectResponses
<1>8. Answered(r) = r /\ GatewayAnswered(r) = r
  <2> HIDE DEF r
  <2> QED BY <1>6, <1>7, RowsArrive
<1>9. r.doc_ids = top /\ r.doc_contents = top
  OBVIOUS
<1> HIDE DEF r
<1>10. /\ ClientView(0, r) = [i \in DOMAIN top |-> <<top[i], top[i]>>]
       /\ format_select_response(0, r) = [i \in DOMAIN top |-> <<top[i], top[i]>>]
  BY <1>9 DEF ClientView, format_select_response
<1> QED BY <1>3, <1>8, <1>10 DEF Seen, top

(* The only row of an aggregate as both ends see it.                       *)
LEMMA AggregateSeen ==
  ASSUME NEW S, S \subseteq Nat, IsFiniteSet(S), SumSet(S) \in Uint32, NEW type \in 1..4
  PROVE  Seen(type, S) = {[matched |-> Cardinality(S), value |-> Aggregate(S, type)]}
<1> DEFINE v == Aggregate(S, type)
           n == Cardinality(S)
           meta == Meta(type, n, v)
           r == [status |-> OK, type |-> SELECT_RESULT, doc_ids |-> <<v>>, doc_contents |-> <<meta>>]
           T == Uint8 \cup {meta}
<1>1. /\ ResultDoc(type, S) = [doc_id |-> <<v, n>>, doc_count |-> 1]
      /\ v \in Nat /\ v <= SumSet(S)
  BY AggregateLeft, Zenon
<1> HIDE DEF v, n
<1>2. v \in Uint32
  BY <1>1, Below
<1>3. meta.match_count = n /\ meta.value = v
  BY DEF Meta
<1> HIDE DEF meta
<1>4. SelectResponse(type, ResultDoc(type, S)) = [doc_ids |-> <<v>>, doc_contents |-> <<meta>>]
  <2>1. SelectResponse(type, [doc_id |-> <<v, n>>, doc_count |-> 1])
          = [doc_ids |-> <<v>>, doc_contents |-> <<meta>>]
    BY DEF SelectResponse, meta
  <2> QED BY <1>1, <2>1
<1>5. Reply(type, S) = r
  BY <1>4 DEF Reply
<1>6. OK \in Uint32
  BY SmallNumbers DEF OK
<1>7. r \in SelectResponses(T)
  <2>1. <<v>> \in Seq(Uint32) /\ <<meta>> \in Seq(T) /\ Len(<<v>>) = 1 /\ Len(<<meta>>) = 1
    BY <1>2
  <2>2. 1 <= MAX_RESULT_DOCS
    BY RequestsAssumption
  <2> HIDE DEF T
  <2> QED BY <1>6, <2>1, <2>2 DEF SelectResponses
<1>8. Answered(r) = r /\ GatewayAnswered(r) = r
  <2>1. Uint8 \subseteq T
    OBVIOUS
  <2> HIDE DEF r, T
  <2> QED BY <1>7, <2>1, RowsArrive
<1>9. r.doc_ids[1] = v /\ r.doc_contents[1] = meta
  OBVIOUS
<1> HIDE DEF r
<1>10. /\ ClientView(type, r) = [matched |-> n, value |-> v]
       /\ format_select_response(type, r) = [matched |-> n, value |-> v]
  BY <1>3, <1>9 DEF ClientView, format_select_response
<1> QED BY <1>5, <1>8, <1>10 DEF Seen, v, n

(* What client and gateway see of a query is exact for every set of        *)
(* matches of which the sum of the ids fits the enclave's int (31 bits and *)
(* a sign): the first documents in ascending order, or the aggregate.      *)
THEOREM EveryReplyExact ==
  ASSUME NEW S, S \subseteq Nat, IsFiniteSet(S), 2 * SumSet(S) \in Uint32
  PROVE  ReplyExact(S)
<1>0. SumSet(S) \in Uint32
  <2> DEFINE m == SumSet(S)
  <2>1. m \in Nat
    BY SumInOrder, Zenon
  <2> HIDE DEF m
  <2>2. m <= 2 * m
    BY <2>1
  <2>3. 2 * m \in Uint32
    BY Zenon DEF m
  <2>4. m \in Uint32
    BY <2>1, <2>2, <2>3, Below
  <2> QED BY <2>4 DEF m
<1>1. ASSUME NEW rows \in Seen(0, S)
      PROVE  /\ Len(rows) = IF Cardinality(S) < retrieval_limit THEN Cardinality(S)
                            ELSE retrieval_limit
             /\ \A i \in DOMAIN rows :
                  /\ rows[i] = <<rows[i][1], rows[i][1]>>
                  /\ rows[i][1] \in S
                  /\ Cardinality({d \in S : d < rows[i][1]}) = i - 1
  <2> DEFINE top == Limited(Ascending(S))
             n == Cardinality(S)
             k == IF n < retrieval_limit THEN n ELSE retrieval_limit
  <2>1. /\ top \in Seq(S) /\ Len(top) = k
        /\ \A i \in DOMAIN top :
             top[i] \in S /\ Cardinality({d \in S : d < top[i]}) = i - 1
    BY <1>0, FirstOnes, Zenon
  <2>2. rows = [i \in DOMAIN top |-> <<top[i], top[i]>>]
    BY <1>0, RowsSeen, Zenon
  <2> HIDE DEF top, k
  <2>3. DOMAIN rows = DOMAIN top /\ Len(rows) = Len(top)
    BY <2>1, <2>2
  <2>4. \A i \in DOMAIN rows : rows[i] = <<top[i], top[i]>> /\ rows[i][1] = top[i]
    BY <2>2, <2>3
  <2>5. Len(rows) = k
    BY <2>1, <2>3, Zenon
  <2>6. ASSUME NEW i \in DOMAIN rows
        PROVE  /\ rows[i] = <<rows[i][1], rows[i][1]>> /\ rows[i][1] \in S
               /\ Cardinality({d \in S : d < rows[i][1]}) = i - 1
    BY <2>1, <2>3, <2>4, Zenon
  <2> QED BY <2>5, <2>6, Zenon DEF k
<1>2. ASSUME NEW type \in 1..4
      PROVE  Seen(type, S) =
               {[matched |-> Cardinality(S),
                 value |-> IF S = {} THEN 0
                           ELSE <<Max(S), Min(S), SumSet(S), SumSet(S) \div Cardinality(S)>>[type]]}
  BY <1>0, AggregateSeen, Zenon DEF Aggregate
<1> QED BY <1>1, <1>2, Zenon DEF ReplyExact

LEMMA OneToFour == IsFiniteSet(1..4)
<1>1. \A b \in Int : IsFiniteSet(1..b)
  BY FS_Interval
<1>2. 4 \in Int
  OBVIOUS
<1> QED BY <1>1, <1>2, Zenon

LEMMA SmallSums == \A S \in SUBSET (1..4) : 2 * SumSet(S) \in Uint32
<1> DEFINE I == 1..4
           w == [x \in I |-> x]
<1>1. IsFiniteSet(I) /\ w \in [I -> Nat] /\ I \subseteq Nat
  BY OneToFour
<1> SUFFICES ASSUME NEW S \in SUBSET I PROVE 2 * SumSet(S) \in Uint32
  OBVIOUS
<1> DEFINE v == [x \in S |-> x]
<1>2. IsFiniteSet(S) /\ v \in [S -> Nat] /\ S \subseteq Nat
  BY <1>1, FS_Subset
<1>3. PICK h : IsTotal(h, S, v)
  <2> HIDE DEF v
  <2> QED BY <1>2, TotalExists, Zenon
<1>4. SumSet(S) = h[S]
  BY <1>2, <1>3, SumOfSet, Zenon
<1>5. /\ h \in [SUBSET S -> Nat] /\ h[{}] = 0
      /\ \A s \in SUBSET S : \A x \in s : h[s] = v[x] + h[s \ {x}]
  BY <1>3, Zenon DEF IsTotal
<1>6. ASSUME NEW s \in SUBSET S, NEW x \in I PROVE h[s] <= x + h[s \ {x}] /\ h[s \ {x}] \in Nat
  <2>1. CASE x \in s
    <3>1. h[s] = x + h[s \ {x}]
      BY <1>5, <2>1
    <3> QED BY <1>1, <1>5, <3>1
  <2>2. CASE x \notin s
    <3>1. s \ {x} = s
      BY <2>2
    <3>2. h[s] \in Nat /\ x \in Nat
      BY <1>5
    <3>3. h[s] <= x + h[s]
      BY <3>2
    <3> QED BY <3>1, <3>2, <3>3, Zenon
  <2> QED BY <2>1, <2>2
<1> DEFINE A == S \ {4}
           B == A \ {3}
           C == B \ {2}
           D == C \ {1}
<1>7. /\ A \in SUBSET S /\ B \in SUBSET S /\ C \in SUBSET S /\ D = {}
      /\ S \in SUBSET S
  OBVIOUS
<1>8. 1 \in I /\ 2 \in I /\ 3 \in I /\ 4 \in I
  OBVIOUS
<1>9. h[S] <= 4 + h[A] /\ h[A] <= 3 + h[B] /\ h[B] <= 2 + h[C] /\ h[C] <= 1 + h[D]
  <2> HIDE DEF I
  <2>1. h[S] <= 4 + h[A] /\ h[A] <= 3 + h[B]
    BY <1>6, <1>7, <1>8, Zenon
  <2>2. h[B] <= 2 + h[C] /\ h[C] <= 1 + h[D]
    BY <1>6, <1>7, <1>8, Zenon
  <2> QED BY <2>1, <2>2
<1>10. h[S] \in Nat /\ h[A] \in Nat /\ h[B] \in Nat /\ h[C] \in Nat /\ h[D] = 0
  BY <1>5, <1>7
<1> HIDE DEF A, B, C, D
<1>11. 2 * h[S] \in Nat /\ 2 * h[S] <= 20
  BY <1>9, <1>10
<1> QED BY <1>4, <1>11, SmallNumbers

(* No reply is cut short, reordered or summed up wrongly.                  *)
THEOREM RepliesAlwaysExact == Spec => []RepliesExact
<1>1. \A S \in SUBSET (1..4) : ReplyExact(S)
  <2> SUFFICES ASSUME NEW S \in SUBSET (1..4) PROVE ReplyExact(S)
    OBVIOUS
  <2>1. S \subseteq Nat /\ IsFiniteSet(S)
    <3>1. S \subseteq Nat
      OBVIOUS
    <3> QED BY <3>1, OneToFour, FS_Subset, Zenon
  <2>2. 2 * SumSet(S) \in Uint32
    BY SmallSums
  <2> QED BY <2>1, <2>2, EveryReplyExact
<1>2. RepliesExact
  BY <1>1, Zenon DEF RepliesExact
<1> QED BY <1>2, PTL

=============================================================================
