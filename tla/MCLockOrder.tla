---------------------------- MODULE MCLockOrder ----------------------------
\* Small instances of LockOrder.  Rows are numbered along the canonical order.
EXTENDS LockOrder, TLC

\* An invoice and an order.
GatesClassOf == 1 :> 1 @@ 2 :> 4

\* The balance of the first coil.
GatesCoilOf == 5 :> 3

NoRows == <<>>
=============================================================================
