----------------------------- MODULE VectorMap ------------------------------
(***************************************************************************)
(* map.c on top of vector.c: a map is a vector of pairs that map_insert()  *)
(* and map_get() search from the front, and a vector doubles the memory it *)
(* was given when a push finds it full.                                    *)
(***************************************************************************)
EXTENDS Integers

CONSTANTS
  Names, Values,
  Null,         \* what map_get() returns for an unknown name
  Uninit,       \* memory that malloc() or realloc() just returned
  InitCap,      \* the capacity of a new map
  MaxLen        \* bound: pairs of the map

\* new_map() and new_vector() ask for 256; a vector of no capacity would never grow.
ASSUME CapAssumption == InitCap \in Nat \ {0} /\ MaxLen \in Nat
ASSUME UninitAssumption == Uninit \notin [name : Names, value : Values]

VARIABLES
  data,         \* v->data, a cell for every index below cap
  cap, len,
  call          \* the last call: operation, name, the value given or returned

mapvars == <<data, cap, len, call>>

Used == 0 .. len - 1

IsFirst(i, n) ==
  /\ i \in Used
  /\ data[i].name = n
  /\ \A j \in 0 .. i - 1 : data[j].name # n

Known(n) == \E i \in Used : data[i].name = n

-----------------------------------------------------------------------------
\* Mutant: the vector grows one push too late.
ExtendedLate == IF cap < len THEN cap * 2 ELSE cap

\* vector_extend(): realloc() keeps what was there.
Extended == IF cap < len + 1 THEN cap * 2 ELSE cap

\* vector_push()
Push(pair) ==
  /\ cap' = Extended
  /\ len' = len + 1
  /\ data' = [i \in 0 .. Extended - 1 |->
                IF i = len THEN pair ELSE IF i < cap THEN data[i] ELSE Uninit]

\* Mutant: the first pair of all is overwritten.
ReplaceFront(n, v) ==
  /\ \E i \in Used : IsFirst(i, n) /\ data' = [data EXCEPT ![0].value = v]
  /\ call' = <<"insert", n, v>>
  /\ UNCHANGED <<cap, len>>

\* map_insert() of a name that is there: its first pair is overwritten.
Replace(n, v) ==
  /\ \E i \in Used : IsFirst(i, n) /\ data' = [data EXCEPT ![i].value = v]
  /\ call' = <<"insert", n, v>>
  /\ UNCHANGED <<cap, len>>

\* map_insert() of a new name.
Add(n, v) ==
  /\ len < MaxLen
  /\ ~Known(n)
  /\ Push([name |-> n, value |-> v])
  /\ call' = <<"insert", n, v>>

\* map_get()
Get(n) ==
  /\ \/ \E i \in Used : IsFirst(i, n) /\ call' = <<"get", n, data[i].value>>
     \/ ~Known(n) /\ call' = <<"get", n, Null>>
  /\ UNCHANGED <<data, cap, len>>

-----------------------------------------------------------------------------
MapInit ==
  /\ data = [i \in 0 .. InitCap - 1 |-> Uninit]
  /\ cap = InitCap
  /\ len = 0
  /\ call = <<>>

MapNext ==
  \/ \E n \in Names, v \in Values : Replace(n, v) \/ Add(n, v)
  \/ \E n \in Names : Get(n)

MapSpec == MapInit /\ [][MapNext]_mapvars

-----------------------------------------------------------------------------
Pair == [name : Names, value : Values]
Call == {"insert", "get"} \X Names \X (Values \cup {Null})

\* len <= cap: no push writes behind the memory of the vector, and no element is
\* ever read that was not pushed before, however often the memory was moved.
MapTypeOK ==
  /\ cap \in Nat \ {0} /\ len \in 0 .. cap
  /\ DOMAIN data = 0 .. cap - 1
  /\ \A i \in Used : data[i] \in Pair
  /\ call \in Call \cup {<<>>}

\* A name is in the vector once, though nothing but map_insert() keeps it so.
NamesDistinct == \A i, j \in Used : data[i].name = data[j].name => i = j

\* The partial function the pairs stand for.
Table ==
  [n \in {data[i].name : i \in Used} |->
     data[CHOOSE i \in Used : data[i].name = n].value]

Abstract == INSTANCE NameTable WITH table <- Table

\* map.c behaves like a partial function: no growth of the vector and no
\* replacement of another name's value is ever seen by a lookup.
IsNameTable == Abstract!Spec
=============================================================================
