------------------------------- MODULE DocStore -------------------------------
(***************************************************************************)
(* What the enclave promises about the documents of a database: a read     *)
(* returns the last content written, and losing the enclave takes every    *)
(* document back to a content it had when it was last made durable, never  *)
(* to one of another document or to something nobody wrote.                *)
(***************************************************************************)
CONSTANTS DocIds, Contents, NoDoc

VARIABLES
  docs,     \* the content of every document
  durable,  \* the content that survives the loss of the enclave
  last      \* the last request, and the contents it wrote or returned

storeVars == <<docs, durable, last>>

Content == Contents \cup {NoDoc}
NoRequest == [op |-> "none"]

Init ==
  /\ docs = [d \in DocIds |-> NoDoc]
  /\ durable = docs
  /\ last = NoRequest

(* With any step some documents may become durable.                        *)
Sync == \E S \in SUBSET DocIds :
          durable' = [d \in DocIds |-> IF d \in S THEN docs'[d] ELSE durable[d]]

Write(d, c) ==
  /\ docs' = [docs EXCEPT ![d] = c] /\ Sync
  /\ last' = [op |-> "write", docs |-> [x \in {d} |-> c]]

Read(A) ==
  /\ docs' = docs /\ Sync
  /\ last' = [op |-> "read", docs |-> [d \in A |-> docs[d]]]

Flush == docs' = docs /\ Sync /\ last' = NoRequest

(* The enclave is lost, perhaps in the middle of a flush.                  *)
Lose ==
  \E S \in SUBSET DocIds :
    /\ durable' = [d \in DocIds |-> IF d \in S THEN docs[d] ELSE durable[d]]
    /\ docs' = durable'
    /\ last' = NoRequest

Next ==
  \/ \E d \in DocIds, c \in Content : Write(d, c)
  \/ \E A \in SUBSET DocIds : Read(A)
  \/ Flush
  \/ Lose

Spec == Init /\ [][Next]_storeVars
=============================================================================
