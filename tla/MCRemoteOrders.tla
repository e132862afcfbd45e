--------------------------- MODULE MCRemoteOrders ---------------------------
(***************************************************************************)
(* Small instances of RemoteOrders.                                        *)
(***************************************************************************)
EXTENDS RemoteOrders, TLC

\* robots and orders are interchangeable, clients are not: some are patient
OrderSymmetry == Permutations(Robots) \cup Permutations(Orders)

=============================================================================
