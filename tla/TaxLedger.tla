----------------------------- MODULE TaxLedger -----------------------------
(***************************************************************************)
(* What the tax subsystem promises about the sales that sponge records: a  *)
(* fiscal document is printed for a sale at most once, or anew only while  *)
(* the KKT has not given the number of one; a sale that needs a document   *)
(* is closed only when the KKT has said that it printed one, and a closed  *)
(* sale stays closed, unless whoever closed it was told that it is not.    *)
(***************************************************************************)
CONSTANTS
  Sales      \* completed orders of the robots

VARIABLES
  sale,      \* "none", "open", "closed", or "doubted": closed by one who does not know
  exempt,    \* sales that need no document
  prints     \* the documents printed for each sale, and what the KKT said of it

ledger == <<sale, exempt, prints>>

LedgerInit ==
  /\ sale = [s \in Sales |-> "none"]
  /\ exempt \in [Sales -> BOOLEAN]
  /\ prints = [s \in Sales |-> {}]

Sell(s) ==
  /\ sale[s] = "none"
  /\ sale' = [sale EXCEPT ![s] = "open"]
  /\ UNCHANGED <<exempt, prints>>

Printed(s) == \E d \in prints[s] : d.told = "number"
Answered(s) == \E d \in prints[s] : d.told # "nothing"

\* the KKT chooses the number of the document
PrintSale(s) ==
  /\ sale[s] = "open" /\ ~exempt[s] /\ ~Printed(s)
  /\ \E d \in prints'[s] : prints' = [prints EXCEPT ![s] = @ \cup {d}]
  /\ UNCHANGED <<sale, exempt>>

Close(s) ==
  /\ sale[s] = "open" /\ (exempt[s] \/ Answered(s))
  /\ \E st \in {"closed", "doubted"} : sale' = [sale EXCEPT ![s] = st]
  /\ UNCHANGED <<exempt, prints>>

\* who closed it does no more about it, or undoes it
Settle(s) ==
  /\ sale[s] = "doubted"
  /\ \E st \in {"closed", "open"} : sale' = [sale EXCEPT ![s] = st]
  /\ UNCHANGED <<exempt, prints>>

LedgerNext == \E s \in Sales : Sell(s) \/ PrintSale(s) \/ Close(s) \/ Settle(s)

LedgerSpec == LedgerInit /\ [][LedgerNext]_ledger

=============================================================================
