---------------------------- MODULE DraftLedger ----------------------------
(***************************************************************************)
(* What the mutation coordinator of a draft session promises its clients:  *)
(* an append-only ledger of requests, each entered at most once, and       *)
(* answers that tell the truth about it.  A client that got an error or no *)
(* answer at all may ask again under the same idempotency key.             *)
(***************************************************************************)
EXTENDS Naturals, Sequences

CONSTANT Requests       \* idempotency keys

VARIABLES
  entries,              \* the requests entered, in order
  answer                \* what the client of each request knows of it

ledgerVars == << entries, answer >>

Answers == { "none", "ok", "conflict", "error" }

Entered(r) == \E i \in 1..Len(entries) : entries[i] = r

(* A request is entered once, and not after it was refused. *)
Enter(r) ==
  /\ ~ Entered(r)
  /\ answer[r] # "conflict"
  /\ entries' = Append(entries, r)
  /\ UNCHANGED answer

(* Success is told of entered requests, a conflict of others; an error says *)
(* nothing either way.  Success and conflict are never taken back.          *)
Tell(r, a) ==
  /\ a = "ok" => Entered(r)
  /\ a = "conflict" => ~ Entered(r)
  /\ answer[r] \in {"ok", "conflict"} => a = answer[r]
  /\ answer' = [ answer EXCEPT ![r] = a ]
  /\ UNCHANGED entries

LedgerInit == entries = <<>> /\ answer = [ r \in Requests |-> "none" ]

LedgerNext == \E r \in Requests : Enter(r) \/ \E a \in Answers \ {"none"} : Tell(r, a)

LedgerSpec == LedgerInit /\ [][LedgerNext]_ledgerVars
=============================================================================
