----------------------------- MODULE NameTable ------------------------------
(***************************************************************************)
(* What the compiler expects of a map: a partial function from names to    *)
(* values, in which an insertion replaces what the name stood for, and     *)
(* a lookup of an unknown name yields NULL.  The last call is visible with *)
(* its arguments and its result, so that no implementation can pass one    *)
(* operation off as another.                                               *)
(***************************************************************************)
CONSTANTS Names, Values, Null

VARIABLES
  table,   \* the partial function
  call     \* the last call: operation, name, the value given or returned

Insert(n, v) ==
  /\ table' = [m \in DOMAIN table \cup {n} |-> IF m = n THEN v ELSE table[m]]
  /\ call' = <<"insert", n, v>>

Get(n) ==
  /\ call' = <<"get", n, IF n \in DOMAIN table THEN table[n] ELSE Null>>
  /\ UNCHANGED table

Init ==
  /\ table = [n \in {} |-> Null]
  /\ call = <<>>

Next == \E n \in Names : Get(n) \/ \E v \in Values : Insert(n, v)

Spec == Init /\ [][Next]_<<table, call>>
=============================================================================
