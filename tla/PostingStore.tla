------------------------------ MODULE PostingStore ------------------------------
(***************************************************************************)
(* What the keyword index of a database does, seen from outside: an index  *)
(* from words to documents, of which a copy is sealed and from which       *)
(* whatever is in the enclave can be lost.                                 *)
(*                                                                         *)
(* Of all that is random inside (companions, spills, dummies) a user can   *)
(* notice one thing: whether the cache happens to be empty.  An update in  *)
(* that state starts its word anew, and the sealed copy of such a word is  *)
(* no longer safe: it may be overwritten with what the word holds now.     *)
(***************************************************************************)
CONSTANTS
  Words,      \* keywords
  LongWords,  \* those too long to be sealed
  Docs        \* documents

VARIABLES
  open,      \* the database is open
  cold,      \* nothing is cached
  index,     \* word -> documents a search returns
  openable,  \* there is a sealed copy that can be opened
  sealed,    \* word -> documents in the sealed copy
  rewound    \* words started anew since the copy was sealed

storeVars == <<open, cold, index, openable, sealed, rewound>>

Index == [Words -> SUBSET Docs]
NoPostings == [w \in Words |-> {}]

Init ==
  /\ open = TRUE /\ cold = TRUE /\ index = NoPostings
  /\ openable = FALSE /\ sealed = NoPostings
  /\ rewound = {}

Flip(bm, d, op) == IF op = "ADD" THEN bm \cup {d} ELSE bm \ {d}

(* What the sealed copy may be when the index is ix and the words of R     *)
(* were started anew.                                                      *)
Copies(ix, R) ==
  {s \in Index : \A w \in Words : s[w] = sealed[w] \/ (openable /\ w \in R /\ s[w] = ix[w])}

(* A document is posted for a word, or taken out.                          *)
Update(w, d, op) ==
  /\ open
  /\ \/ /\ ~cold /\ rewound' = rewound
        /\ index' = [index EXCEPT ![w] = Flip(@, d, op)]
     \/ /\ cold /\ cold' = cold /\ rewound' \in {rewound, rewound \cup {w}}
        /\ index' = [index EXCEPT ![w] = Flip({}, d, op)]
  /\ sealed' \in Copies(index', rewound')
  /\ UNCHANGED <<open, openable>>

(* A search, a flush, a new dummy: bitmaps change places.                  *)
Arrange ==
  /\ open
  /\ sealed' \in Copies(index, rewound)
  /\ UNCHANGED <<open, index, openable, rewound>>

(* The index is sealed; with a long word in it the copy is no good.        *)
Seal ==
  /\ open
  /\ \/ openable' = TRUE /\ sealed' = index
     \/ LongWords # {} /\ openable' = FALSE /\ sealed' = NoPostings
  /\ rewound' = {}
  /\ UNCHANGED <<open, cold, index>>

(* The enclave is gone, perhaps in the middle of a flush.                  *)
Lose ==
  /\ open /\ open' = FALSE
  /\ sealed' \in Copies(index, rewound)
  /\ index' = NoPostings /\ cold' = TRUE
  /\ UNCHANGED <<openable, rewound>>

(* The sealed copy is opened.                                              *)
Reopen ==
  /\ ~open /\ open' = TRUE
  /\ openable /\ index' = sealed
  /\ rewound' = {}
  /\ UNCHANGED <<openable, sealed>>

Next ==
  \/ \E w \in Words, d \in Docs, op \in {"ADD", "DEL"} : Update(w, d, op)
  \/ Arrange
  \/ Seal
  \/ Lose
  \/ Reopen

Spec == Init /\ [][Next]_storeVars
=============================================================================
