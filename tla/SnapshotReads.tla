--------------------------- MODULE SnapshotReads ---------------------------
(***************************************************************************)
(* What the API promises a client that reads accounts: the answer is the   *)
(* state of the chain at one slot, the slot named in the response, no      *)
(* older than what the API knew at the question and no newer than what was *)
(* published at the answer; or an error.  Nothing of tables, caches,       *)
(* batches or streams appears here.                                        *)
(***************************************************************************)
EXTENDS Naturals

CONSTANTS Clients, Questions,
          StateAt(_, _, _)   \* the accounts question q is about, at a slot of a chain

VARIABLES chain,       \* the chain's writes
          published,   \* commitment -> the newest slot written for all readers
          known,       \* commitment -> the newest slot the API knows of
          reply        \* client -> what it waits for, or got last

vars == <<chain, published, known, reply>>

Idle == [is |-> "idle"]
Waiting(q, since) == [is |-> "waiting", question |-> q, since |-> since]
Answered(q, slot, value) == [is |-> "answer", question |-> q, slot |-> slot, value |-> value]
Failed == [is |-> "failed"]

Init == reply = [c \in Clients |-> Idle]

\* Blocks are saved, finalized and made known to the API; no slot goes back.
Advance ==
  /\ \A m \in DOMAIN known : known'[m] >= known[m] /\ published'[m] >= published[m]
  /\ UNCHANGED <<chain, reply>>

Ask(c, q) ==
  /\ reply[c].is # "waiting"
  /\ reply' = [reply EXCEPT ![c] = Waiting(q, known[q.commitment])]
  /\ UNCHANGED <<chain, published, known>>

Answer(c) ==
  /\ reply[c].is = "waiting"
  /\ LET q == reply[c].question
     IN  \E slot \in reply[c].since..published[q.commitment] :
           reply' = [reply EXCEPT ![c] = Answered(q, slot, StateAt(chain, q, slot))]
  /\ UNCHANGED <<chain, published, known>>

Fail(c) ==
  /\ reply[c].is = "waiting"
  /\ reply' = [reply EXCEPT ![c] = Failed]
  /\ UNCHANGED <<chain, published, known>>

Next ==
  \/ Advance
  \/ \E c \in Clients : Answer(c) \/ Fail(c) \/ \E q \in Questions : Ask(c, q)

Spec == Init /\ [][Next]_vars

=============================================================================
