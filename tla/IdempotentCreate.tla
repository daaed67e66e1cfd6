-------------------------- MODULE IdempotentCreate --------------------------
(***************************************************************************)
(* What the create call of the order service promises its callers,         *)
(* whatever they retry and however their calls overlap: per idempotency    *)
(* key there is at most one order, made for one body with one decision;    *)
(* a call answered "created" is about that order and asked for that body;  *)
(* a call answered "conflict" asked for another body; a call that fails    *)
(* may or may not have made the order.                                     *)
(***************************************************************************)
CONSTANTS Requests, Keys, Bodies, None

VARIABLES
  asked,    (* per call: the key and body it came with                      *)
  book,     (* per key: the order made for it                               *)
  answers   (* per call: its answer                                         *)

abstractVars == <<asked, book, answers>>

Nothing == [key |-> None, body |-> None]
NoEntry == [order |-> None, body |-> None, allowed |-> FALSE]
Pending == [kind |-> "none", order |-> None, allowed |-> FALSE]
Failed  == [kind |-> "error", order |-> None, allowed |-> FALSE]

Entry(order, body, allowed) == [order |-> order, body |-> body, allowed |-> allowed]

AbstractInit ==
    /\ asked = [r \in Requests |-> Nothing]
    /\ book = [k \in Keys |-> NoEntry]
    /\ answers = [r \in Requests |-> Pending]

Waiting(r) == asked[r] # Nothing /\ answers[r] = Pending

(* A call arrives; one that is malformed fails at once. *)
Ask(r) ==
    /\ asked[r] = Nothing
    /\ \E k \in Keys, b \in Bodies : asked' = [asked EXCEPT ![r] = [key |-> k, body |-> b]]
    /\ \E a \in {Pending, Failed} : answers' = [answers EXCEPT ![r] = a]
    /\ UNCHANGED book

(* The one order of a key is made; the call that makes it may fail then.   *)
Make(r) ==
    /\ Waiting(r)
    /\ book[asked[r].key] = NoEntry
    /\ \E allowed \in BOOLEAN :
          book' = [book EXCEPT ![asked[r].key] = Entry(r, asked[r].body, allowed)]
    /\ \E a \in {Pending, Failed} : answers' = [answers EXCEPT ![r] = a]
    /\ UNCHANGED asked

(* A call is answered from the book. *)
Reply(r) ==
    /\ Waiting(r)
    /\ book[asked[r].key] # NoEntry
    /\ LET e == book[asked[r].key]
       IN  answers' = [answers EXCEPT ![r] =
              IF e.body = asked[r].body
              THEN [kind |-> "created", order |-> e.order, allowed |-> e.allowed]
              ELSE [kind |-> "conflict", order |-> e.order, allowed |-> FALSE]]
    /\ UNCHANGED <<asked, book>>

GiveUp(r) ==
    /\ Waiting(r)
    /\ answers' = [answers EXCEPT ![r] = Failed]
    /\ UNCHANGED <<asked, book>>

AbstractNext == \E r \in Requests : Ask(r) \/ Make(r) \/ Reply(r) \/ GiveUp(r)

AbstractSpec == AbstractInit /\ [][AbstractNext]_abstractVars
=============================================================================
