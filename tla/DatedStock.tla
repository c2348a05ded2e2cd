----------------------------- MODULE DatedStock -----------------------------
(* What the kardex of an item promises of its quantities: a stock per day   *)
(* that later entries may rewrite behind it, but that no operation makes    *)
(* negative on any day.                                                     *)
EXTENDS Integers

CONSTANTS
  MaxDay,   \* the last day: today, a positive number
  MaxQty    \* bound on what one operation moves

VARIABLE closing   \* what there is at the close of each day

Days == 1..MaxDay

\* A quantity more, or less, between two days.
Shifted(stock, from, to, q) ==
  [d \in Days |-> IF from <= d /\ d < to THEN stock[d] + q ELSE stock[d]]

Holds(stock) == \A d \in Days : stock[d] >= 0

Enter(stock, after, d, q) == after = Shifted(stock, d, MaxDay + 1, q)

Leave(stock, after, d, q) == Holds(after) /\ after = Shifted(stock, d, MaxDay + 1, -q)

\* An entry is found to have come in at an earlier day.
MoveBack(stock, after, d, e, q) == d < e /\ after = Shifted(stock, d, e, q)

Moves(stock, after) ==
  \E q \in 1..MaxQty, d \in Days :
    \/ Enter(stock, after, d, q)
    \/ Leave(stock, after, d, q)
    \/ \E e \in Days : MoveBack(stock, after, d, e, q)

Init == closing = [d \in Days |-> 0]

\* (Each stock is read once.)
Next == \E stock \in {closing}, after \in {closing'} : Moves(stock, after)

Spec == Init /\ [][Next]_closing

=============================================================================
