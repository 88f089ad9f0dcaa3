------------------------------ MODULE Reflected ------------------------------
(***************************************************************************)
(* The self-describing values the engine hands out                           *)
(* (extension/abi/reflected.py): a marker, a format version, and one value   *)
(* whose tags say what follows.                                              *)
(*                                                                          *)
(* The bytes are a sequence of units: each fixed-width read (a tag, a count, *)
(* a boolean, a number) is one unit, and so are the characters of a text     *)
(* after its length.                                                         *)
(***************************************************************************)
EXTENDS Integers, Sequences, SequencesExt

CONSTANTS
    Absent,         \* Python's None as a decoded value
    ValueError      \* what decoding raises for any other bytes

Marker == "FDRE"
FormatVersion == 1
-----------------------------------------------------------------------------
(* The engine's half: what it writes.                                        *)

Text(characters) == <<1, characters>>
Nothing == <<0>>
Integer(number) == <<2, number>>
Enumerator(name) == <<6>> \o Text(name)
ListOf(items) == <<7, Len(items)>> \o FlattenSeq(items)
RecordOf(fields) ==
    <<8, Len(fields)>> \o FlattenSeq([i \in DOMAIN fields |-> Text(fields[i][1]) \o fields[i][2]])
Encoded(value) == <<Marker, FormatVersion>> \o value
-----------------------------------------------------------------------------
(* Decode: ValueReader goes front to back and raises where the bytes end     *)
(* early or a tag is unknown; here it then goes on, over units it takes to   *)
(* be 0 or empty, up to the end, and is past the end for good.               *)

\* The fields of a record as a dictionary: the last of a name.
Dictionary(fields) ==
    [name \in {fields[i][1] : i \in DOMAIN fields} |->
        fields[CHOOSE i \in DOMAIN fields :
                   fields[i][1] = name /\ \A j \in DOMAIN fields : fields[j][1] = name => j <= i][2]]

Unit(data, position) == IF position \in DOMAIN data THEN data[position] ELSE 0
Count(data, position) == IF Unit(data, position) \in Nat THEN Unit(data, position) ELSE 0
Characters(data, position) == IF position \in DOMAIN data THEN data[position] ELSE ""

\* One value, given how those after it are read.
Value(data, read, at) ==
    LET inner == read[at + 2][Unit(data, at) = 8][Count(data, at + 1)] IN
    CASE Unit(data, at) = 0 -> [value |-> Absent, next |-> at + 1]
      [] Unit(data, at) = 1 -> [value |-> Unit(data, at + 1) # 0, next |-> at + 2]
      [] Unit(data, at) \in 2..4 -> [value |-> Unit(data, at + 1), next |-> at + 2]
      [] Unit(data, at) \in {5, 6} -> [value |-> Characters(data, at + 2), next |-> at + 3]
      [] Unit(data, at) = 7 -> [value |-> inner.taken, next |-> inner.next]
      [] Unit(data, at) = 8 -> [value |-> Dictionary(inner.taken), next |-> inner.next]
      [] OTHER -> [value |-> Absent, next |-> Len(data) + 2]

\* From a position on, as many values as were counted, in a record with a name before each, and
\* what is next.
Taken(data, read, from, named, count) ==
    IF count = 0 THEN [taken |-> <<>>, next |-> from]
    ELSE IF from > Len(data) THEN [taken |-> <<>>, next |-> from + 1]
    ELSE LET first == Value(data, read, IF named THEN from + 2 ELSE from)
             taken == IF named THEN <<Characters(data, from + 1), first.value>> ELSE first.value
             rest == read[first.next][named][count - 1]
         IN [taken |-> <<taken>> \o rest.taken, next |-> rest.next]
Reading(data, read, from) == [named \in BOOLEAN |-> [count \in Nat |-> Taken(data, read, from, named, count)]]
Values(data) ==
    LET read[from \in Nat] == Reading(data, read, from)
    IN read

\* Nothing ends early, and End refuses what is left.
Whole(data, next) == next = Len(data) + 1

Decode(data) ==
    LET read == Values(data)[3][FALSE][1]
    IN IF /\ Len(data) > 2 /\ data[1] = Marker /\ data[2] = FormatVersion
          /\ Whole(data, read.next)
       THEN read.taken[1] ELSE ValueError
=============================================================================
