------------------------------ MODULE MCQrPay ------------------------------
(***************************************************************************)
(* Small instances of QrPay.                                               *)
(***************************************************************************)
EXTENDS QrPay, TLC

\* orders and handlers are interchangeable
QrSymmetry == Permutations(Orders) \cup Permutations(Handlers)

\* every status the handler tells apart
AllNotified == BankStates \ {"New", "FormShowed"}

=============================================================================
