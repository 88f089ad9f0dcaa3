---------------------------- MODULE ProcessProofs ----------------------------
(***************************************************************************)
(* Proofs about Process, for any number of hosts, of processes and of PIDs.  *)
(*                                                                          *)
(* A start time is given once, so an identity (a PID and a start time) means *)
(* one process for good: what is written down of a Realtime Plane is never   *)
(* true of a stranger (Named), and once it ended, went astray or was killed  *)
(* it never is in sight again (Past).  A child keeps its PID until its own   *)
(* host reaps it (Own).  While hosts take turns, the one at work knows what  *)
(* the state file says, and that what it says is all that is in sight        *)
(* (InTurns).                                                                *)
(***************************************************************************)
EXTENDS Process, FiniteSetTheorems, TLAPS

Names(id, pid, born) == id.pid = pid /\ id.born = born

\* Start times are below the count of births, and none is a process that is gone.
Aged == \A p \in Pids :
    /\ table[p].born <= births /\ (table[p].kind = "gone" <=> table[p].born = 0)
    /\ table[p].kind = "gone" => table[p].parent = None

\* An identity that was written down is a Realtime Plane's, if it has a start time.
Written(id) ==
    id.born <= births /\ (id.born # 0 /\ table[id.pid].born = id.born => table[id.pid].kind = "plane")
FilesNamed == (record # None => Written(record)) /\ (staged # None => Written(staged))
Named(h) == (found[h] # None => Written(found[h])) /\ (grip[h] # None => Written(grip[h]))

\* What a host has in hand at each step.
Placed(h) ==
    /\ grip[h] # None => at[h] \in Ending \cup {"idle"}
    /\ at[h] \in Working \ {"spawn"} => found[h] # None
    /\ at[h] \in Ending => /\ goal[h] = "stop" /\ grip[h] # None
                           /\ Names(found[h], grip[h].pid, grip[h].born)
    /\ at[h] \in Signalled => grip[h].born # 0
    /\ grip[h] # None /\ grip[h].child = "reaped" => at[h] = "wait"
    /\ at[h] \in {"check", "spawn", "stage", "replace"} => goal[h] # "stop"

\* A host's own child is in the process table until it reaps it; out of sight from the
\* start if nothing tells its start time.
IsChild(h, id) ==
    /\ table[id.pid].parent = h /\ table[id.pid].kind = "plane"
    /\ id.born \in {0, table[id.pid].born}
Own(h) ==
    /\ grip[h] # None /\ grip[h].child = "held" => IsChild(h, grip[h])
    /\ at[h] \in {"stage", "replace"} =>
         IsChild(h, found[h]) /\ (found[h].born = 0 => found[h].pid \notin InSight)

\* What was signalled for good, or is forgotten, is not in sight any more.
Sees(id) == Runs(id) /\ table[id.pid].fate = "well"
Past(h) ==
    /\ at[h] \in {"dying", "wait", "forget", "unlink"} => ~Sees(found[h])
    /\ at[h] = "unasked" /\ grip[h].child # "held" => ~Sees(found[h])

Hosted(h) == Named(h) /\ Placed(h) /\ Own(h) /\ Past(h)

\* The one host at work knows the files, and that nothing is in sight besides what they name.
Recorded(p) == record # None /\ Names(record, p, table[p].born)
Knows(h) ==
    /\ at[h] \in {"check", "forget", "unlink"} /\ goal[h] # "stop" => record = found[h]
    /\ at[h] = "unlink" => record # None /\ record.pid = found[h].pid
    /\ at[h] = "spawn" => InSight = {}
    /\ at[h] \in {"stage", "replace"} => InSight \subseteq {found[h].pid}
    /\ at[h] = "replace" => staged = found[h]
InTurns ==
    ~together =>
        /\ \A h, g \in Hosts : at[h] \in Working /\ at[g] \in Working => h = g
        /\ \A p \in InSight : Recorded(p) \/ \E h \in Hosts : at[h] \in {"stage", "replace"}
        /\ \A h \in Hosts : Knows(h)

IInv == TypeOK /\ Aged /\ FilesNamed /\ (\A h \in Hosts : Hosted(h)) /\ OwnChildIsTheTarget /\ InTurns
-----------------------------------------------------------------------------
(* What steps do to the process table.                                       *)

\* Processes end, or one starts with a start time of its own.
Fades(p) ==
    \/ table'[p] = Gone
    \/ /\ table'[p].kind = table[p].kind /\ table'[p].born = table[p].born
       /\ table'[p].parent \in {table[p].parent, None} /\ (table'[p].alive => table[p].alive)
       /\ (table'[p].fate = "well" => table[p].fate = "well")
Starts(p) == births' = births + 1 /\ table'[p].born = births' /\ table'[p].kind # "gone"
Ages == births' \in {births, births + 1} /\ \A p \in Pids : Fades(p) \/ Starts(p)

\* The types of the process table and of identities, one by one.
LEMMA Types ==
    ASSUME TypeOK
    PROVE  /\ births \in Nat /\ MaxBorn \in Nat
           /\ \A p \in Pids : /\ table[p].kind \in {"gone", "plane", "stranger"} /\ table[p].born \in Nat
                              /\ table[p].parent \in Hosts \cup {None} /\ table[p].alive \in BOOLEAN
           /\ \A id \in Identity : id.pid \in Pids /\ id.born \in Nat
           /\ \A h \in Hosts : grip[h] # None =>
                /\ grip[h].pid \in Pids /\ grip[h].born \in Nat
                /\ grip[h].child \in {"no", "held", "reaped"}
<1>1. births \in Nat /\ MaxBorn \in Nat
  BY ProcessAssumption DEF TypeOK
<1>2. \A p \in Pids : /\ table[p].kind \in {"gone", "plane", "stranger"} /\ table[p].born \in Nat
                      /\ table[p].parent \in Hosts \cup {None} /\ table[p].alive \in BOOLEAN
  BY <1>1 DEF TypeOK, Table, Entry
<1>3. \A id \in Identity : id.pid \in Pids /\ id.born \in Nat
  BY <1>1 DEF Identity
<1>4. \A h \in Hosts : grip[h] # None =>
        /\ grip[h].pid \in Pids /\ grip[h].born \in Nat
        /\ grip[h].child \in {"no", "held", "reaped"}
  BY <1>1 DEF TypeOK, Handle
<1> QED  BY <1>1, <1>2, <1>3, <1>4

LEMMA AgedStays ==
    ASSUME TypeOK, Aged, Ages
    PROVE  Aged'
<1> SUFFICES ASSUME NEW p \in Pids
             PROVE  /\ table'[p].born <= births' /\ (table'[p].kind = "gone" <=> table'[p].born = 0)
                    /\ table'[p].kind = "gone" => table'[p].parent = None
  BY DEF Aged
<1>1. births \in Nat /\ table[p].born \in Nat /\ births' \in {births, births + 1}
  BY Types DEF Ages
<1>2. /\ table[p].born <= births /\ (table[p].kind = "gone" <=> table[p].born = 0)
      /\ table[p].kind = "gone" => table[p].parent = None
  BY DEF Aged
<1>3. Fades(p) \/ Starts(p)
  BY DEF Ages
<1> QED  BY <1>1, <1>2, <1>3 DEF Fades, Starts, Gone

\* What was written of an identity stays so, and what is not in sight is not again.
WrittenNext(id) ==
    id.born <= births' /\ (id.born # 0 /\ table'[id.pid].born = id.born => table'[id.pid].kind = "plane")
RunsNext(id) == table'[id.pid].kind = "plane" /\ table'[id.pid].born = id.born /\ table'[id.pid].alive
SeesNext(id) == RunsNext(id) /\ table'[id.pid].fate = "well"
LEMMA IdentitiesStay ==
    ASSUME TypeOK, Aged, Ages, NEW id, id.pid \in Pids, id.born \in Nat, Written(id)
    PROVE  WrittenNext(id) /\ (~Sees(id) => ~SeesNext(id))
<1> DEFINE p == id.pid
<1>1. births \in Nat /\ table[p].born \in Nat /\ births' \in {births, births + 1}
  BY Types DEF Ages
<1>2. Fades(p) \/ Starts(p)
  BY DEF Ages
<1>3. id.born <= births /\ (id.born # 0 /\ table[p].born = id.born => table[p].kind = "plane")
  BY DEF Written
<1>4. id.born <= births'
  BY <1>1, <1>3
<1>5. CASE Fades(p)
  BY <1>1, <1>3, <1>4, <1>5 DEF Fades, Gone, WrittenNext, Sees, SeesNext, Runs, RunsIn, RunsNext
<1>6. CASE Starts(p)
  BY <1>1, <1>3, <1>4, <1>6 DEF Starts, WrittenNext, SeesNext, RunsNext
<1> QED  BY <1>2, <1>5, <1>6

\* A host that does nothing keeps what it knows, if its children keep their places.
Idles(g) == at'[g] = at[g] /\ goal'[g] = goal[g] /\ found'[g] = found[g] /\ grip'[g] = grip[g]
Keeps(p) ==
    /\ table'[p].born = table[p].born /\ table'[p].parent = table[p].parent
    /\ table'[p].kind = table[p].kind /\ (p \in InSight' => p \in InSight)
Spares(g) == \A p \in Pids : table[p].parent = g => Keeps(p)
LEMMA HostStays ==
    ASSUME IInv, Ages, NEW g \in Hosts, Idles(g), Spares(g)
    PROVE  Hosted(g)'
<1>1. Hosted(g) /\ TypeOK /\ Aged
  BY DEF IInv
<1>2. found[g] # None => found[g].pid \in Pids /\ found[g].born \in Nat
  BY <1>1, Types DEF TypeOK
<1>3. grip[g] # None => grip[g].pid \in Pids /\ grip[g].born \in Nat
  BY <1>1, Types
<1>4. Named(g)'
  BY <1>1, <1>2, <1>3, IdentitiesStay DEF Idles, Named, Hosted, Written, WrittenNext
<1>5. Placed(g)'
  BY <1>1 DEF Idles, Placed, Hosted, Names
<1>6. Own(g)'
  <2>1. ASSUME NEW id, id.pid \in Pids, IsChild(g, id)
        PROVE  /\ id.born \in {0, table'[id.pid].born} /\ table'[id.pid].parent = g
               /\ table'[id.pid].kind = "plane" /\ (id.pid \in InSight' => id.pid \in InSight)
    BY <2>1 DEF IsChild, Spares, Keeps
  <2>2. at[g] \in {"stage", "replace"} => found[g] # None
    BY <1>1 DEF Hosted, Placed, Working
  <2> QED  BY <1>1, <1>2, <1>3, <2>1, <2>2 DEF Idles, Own, Hosted, IsChild
<1>7. Past(g)'
  <2>1. at[g] \in {"dying", "wait", "unasked", "forget", "unlink"} => found[g] # None /\ Written(found[g])
    BY <1>1 DEF Hosted, Placed, Working, Named, Ending, Signalled
  <2> QED  BY <1>1, <1>2, <2>1, IdentitiesStay DEF Idles, Past, Hosted, Sees, SeesNext, Runs, RunsIn, RunsNext
<1> QED  BY <1>4, <1>5, <1>6, <1>7 DEF Hosted

\* The files go on naming Realtime Planes, whatever is copied or written anew.
Copied(id) == id \in {record, staged} \cup {found[h] : h \in Hosts}
LEMMA CopiesAreWritten ==
    ASSUME IInv, Ages, NEW id, Copied(id), id # None
    PROVE  WrittenNext(id)
<1>1. id \in Identity
  BY DEF IInv, TypeOK, Copied
<1>2. id.pid \in Pids /\ id.born \in Nat
  BY <1>1, Types DEF IInv
<1>3. Written(id)
  BY DEF IInv, Copied, FilesNamed, Hosted, Named
<1> QED  BY <1>2, <1>3, IdentitiesStay DEF IInv

\* What one host does keeps the rest.
LEMMA OneHost ==
    ASSUME IInv, Ages, NEW h \in Hosts, \A g \in Hosts \ {h} : Idles(g) /\ Spares(g),
           TypeOK', FilesNamed', Hosted(h)', OwnChildIsTheTarget', InTurns'
    PROVE  IInv'
<1>1. \A g \in Hosts \ {h} : Hosted(g)'
  BY HostStays
<1>2. Aged'
  BY AgedStays DEF IInv
<1> QED  BY <1>1, <1>2 DEF IInv
-----------------------------------------------------------------------------
(* Steps that start no process.                                              *)

\* At most zombies of one host are reaped, and processes go out of sight.
Dims(p) ==
    /\ table'[p].kind = table[p].kind /\ table'[p].born = table[p].born
    /\ table'[p].parent = table[p].parent /\ table'[p].alive = table[p].alive
    /\ table'[p].fate # "well"
Reaps(h) ==
    births' = births /\ \A p \in Pids : table'[p] = table[p] \/ (Zombie(h, p) /\ table'[p] = Gone) \/ Dims(p)
SameSight == \A p \in Pids : p \in InSight' => p \in InSight /\ table'[p].born = table[p].born
LEMMA ReapsFacts ==
    ASSUME TypeOK, NEW h \in Hosts, Reaps(h)
    PROVE  Ages /\ SameSight /\ \A g \in Hosts \ {h} : Spares(g)
<1>1. Ages
  BY Types DEF Reaps, Ages, Fades, Dims
<1>2. SameSight
  BY DEF Reaps, SameSight, InSight, Planes, Gone, Dims
<1>3. ASSUME NEW g \in Hosts \ {h}  PROVE Spares(g)
  BY <1>2, <1>3 DEF Reaps, Spares, Keeps, Zombie, Dims, SameSight
<1> QED  BY <1>1, <1>2, <1>3

\* What goes astray is not in sight; nothing else changes.
LEMMA AstrayFacts ==
    ASSUME NEW processes \in Table, NEW id, id.pid \in Pids
    PROVE  /\ GoesAstray(processes, id) \in Table
           /\ \A p \in Pids : \/ GoesAstray(processes, id)[p] = processes[p]
                              \/ GoesAstray(processes, id)[p] = [processes[p] EXCEPT !.fate = "astray"]
           /\ GoesAstray(processes, id)[id.pid].fate = "well" => ~RunsIn(processes, id)
<1> DEFINE after == GoesAstray(processes, id)
<1>1. \A p \in Pids : \/ after[p] = processes[p]
                     \/ after[p] = [processes[p] EXCEPT !.fate = "astray"]
  BY DEF GoesAstray
<1>2. \A p \in Pids : processes[p] \in Entry /\ [processes[p] EXCEPT !.fate = "astray"] \in Entry
  BY DEF Table, Entry
<1>3. after \in Table
  BY <1>1, <1>2 DEF GoesAstray, Table
<1>4. after[id.pid].fate = "well" => ~RunsIn(processes, id)
  <2> SUFFICES ASSUME RunsIn(processes, id)  PROVE after[id.pid].fate # "well"
    OBVIOUS
  <2>1. processes[id.pid] \in Entry
    BY <1>2
  <2> QED  BY <2>1 DEF GoesAstray, Entry
<1> QED  BY <1>1, <1>3, <1>4

\* A table that `ps' left, or that the host reaped, is one that Reaps allows.
Tidyings(h) == {table, Tidied(h), Reaped(h), [p \in Pids |-> IF Zombie(h, p) THEN Gone ELSE table[p]]}
LEMMA TidyingTypes ==
    ASSUME TypeOK, NEW h \in Hosts, NEW processes \in Tidyings(h)
    PROVE  /\ processes \in Table
           /\ \A p \in Pids : processes[p] = table[p] \/ (Zombie(h, p) /\ processes[p] = Gone)
<1>1. table \in [Pids -> Entry] /\ Gone \in Entry
  BY Types DEF TypeOK, Gone, Entry, Table
<1>2. CASE processes = table
  BY <1>1, <1>2 DEF Table
<1>3. CASE processes = Tidied(h)
  BY <1>1, <1>3 DEF Tidied, Table
<1>4. CASE processes = Reaped(h)
  BY <1>1, <1>4 DEF Reaped, Table
<1>5. CASE processes = [p \in Pids |-> IF Zombie(h, p) THEN Gone ELSE table[p]]
  BY <1>1, <1>5 DEF Table
<1> QED  BY <1>2, <1>3, <1>4, <1>5 DEF Tidyings

LEMMA TidyingReaps ==
    ASSUME TypeOK, NEW h \in Hosts, births' = births, table' \in Tidyings(h)
    PROVE  Reaps(h) /\ table' \in Table
BY TidyingTypes DEF Reaps

\* The same when an identity goes astray in it, which then is not in sight.
LEMMA AstrayReaps ==
    ASSUME TypeOK, NEW h \in Hosts, births' = births, NEW processes \in Tidyings(h),
           NEW id, id.pid \in Pids, table' = GoesAstray(processes, id)
    PROVE  Reaps(h) /\ table' \in Table /\ ~SeesNext(id)
<1>1. processes \in Table /\ \A p \in Pids : processes[p] = table[p] \/ (Zombie(h, p) /\ processes[p] = Gone)
  BY TidyingTypes
<1>2. /\ table' \in Table
      /\ \A p \in Pids : table'[p] = processes[p] \/ table'[p] = [processes[p] EXCEPT !.fate = "astray"]
      /\ table'[id.pid].fate = "well" => ~RunsIn(processes, id)
  <2>1. /\ GoesAstray(processes, id) \in Table
        /\ \A p \in Pids : \/ GoesAstray(processes, id)[p] = processes[p]
                           \/ GoesAstray(processes, id)[p] = [processes[p] EXCEPT !.fate = "astray"]
        /\ GoesAstray(processes, id)[id.pid].fate = "well" => ~RunsIn(processes, id)
    BY <1>1, AstrayFacts
  <2> QED  BY <2>1
<1>3. ASSUME NEW p \in Pids  PROVE table'[p] = table[p] \/ (Zombie(h, p) /\ table'[p] = Gone) \/ Dims(p)
  <2>1. CASE table'[p] = processes[p]
    BY <1>1, <2>1
  <2>2. CASE table'[p] = [processes[p] EXCEPT !.fate = "astray"] /\ processes[p] = table[p]
    <3>1. table[p] \in Entry
      BY <1>1, <2>2 DEF Table
    <3> QED  BY <2>2, <3>1 DEF Dims, Entry
  <2>3. CASE processes[p] = Gone /\ table'[p] # processes[p]
    BY <2>3 DEF GoesAstray, RunsIn, Gone
  <2> QED  BY <1>1, <1>2, <2>1, <2>2, <2>3
<1>4. ~SeesNext(id)
  <2>1. processes[id.pid] \in Entry
    BY <1>1 DEF Table
  <2>2. RunsNext(id) => RunsIn(processes, id)
    BY <1>2, <2>1 DEF RunsNext, RunsIn, Entry
  <2> QED  BY <1>2, <2>2 DEF SeesNext
<1> QED  BY <1>2, <1>3, <1>4 DEF Reaps

\* One host is at work and goes on with it.
LEMMA WorksOn ==
    ASSUME IInv, SameSight, NEW h \in Hosts, at[h] \in Working,
           \A g \in Hosts \ {h} : Idles(g), together => together', together' \in BOOLEAN,
           ~together' =>  \/ at'[h] \in {"stage", "replace"}
                          \/ record' = record /\ at[h] \notin {"stage", "replace"}
                          \/ \A p \in Pids : p \in InSight' => Recorded(p)',
           ~together' => Knows(h)'
    PROVE  InTurns'
<1> SUFFICES ASSUME ~together'
             PROVE  /\ \A f, g \in Hosts : at'[f] \in Working /\ at'[g] \in Working => f = g
                    /\ \A p \in InSight' : Recorded(p)' \/ \E g \in Hosts : at'[g] \in {"stage", "replace"}
                    /\ \A g \in Hosts : Knows(g)'
  BY DEF InTurns
<1>1. \A g \in Hosts \ {h} : at'[g] = at[g] /\ at[g] \notin Working
  BY DEF Idles, InTurns, IInv
<1>2. \A g \in Hosts \ {h} : Knows(g)'
  BY <1>1 DEF Knows, Working
<1>3. ASSUME NEW p \in InSight', at'[h] \notin {"stage", "replace"}  PROVE Recorded(p)'
  <2>1. p \in Pids /\ p \in InSight /\ table'[p].born = table[p].born
    BY <1>3 DEF SameSight, InSight, Planes
  <2>2. CASE record' = record /\ at[h] \notin {"stage", "replace"}
    <3>1. Recorded(p)
      BY <1>1, <2>1, <2>2 DEF InTurns, IInv, Working
    <3> QED  BY <2>1, <2>2, <3>1 DEF Recorded, Names
  <2> QED  BY <1>3, <2>1, <2>2
<1> QED  BY <1>1, <1>2, <1>3

\* What a host knows stays true while it does nothing and no process of the kind starts.
LEMMA KnowsStays ==
    ASSUME IInv, Ages, SameSight, NEW g \in Hosts, Knows(g),
           UNCHANGED files, at'[g] = at[g], goal'[g] = goal[g], found'[g] = found[g]
    PROVE  Knows(g)'
<1>1. \A p \in InSight' : p \in InSight
  BY DEF SameSight, InSight, Planes
<1> QED  BY <1>1 DEF Knows, files

\* One host stands back, or comes, and whoever is at work still knows what it knew.
LEMMA StandsBack ==
    ASSUME IInv, Ages, SameSight, NEW h \in Hosts, at'[h] \in {"idle", "down"},
           \A g \in Hosts \ {h} : Idles(g), UNCHANGED files,
           ~together' => ~together /\ (at[h] \notin {"stage", "replace"} \/ InSight' = {})
    PROVE  InTurns'
<1> SUFFICES ASSUME ~together'
             PROVE  /\ \A f, g \in Hosts : at'[f] \in Working /\ at'[g] \in Working => f = g
                    /\ \A p \in InSight' : Recorded(p)' \/ \E g \in Hosts : at'[g] \in {"stage", "replace"}
                    /\ \A g \in Hosts : Knows(g)'
  BY DEF InTurns
<1>1. \A g \in Hosts \ {h} : at'[g] = at[g]
  BY DEF Idles
<1>2. \A f, g \in Hosts : at[f] \in Working /\ at[g] \in Working => f = g
  BY DEF InTurns, IInv
<1>3. ASSUME NEW p \in InSight'  PROVE Recorded(p)' \/ \E g \in Hosts : at'[g] \in {"stage", "replace"}
  <2>1. p \in InSight /\ table'[p].born = table[p].born
    BY <1>3 DEF SameSight, InSight, Planes
  <2>2. Recorded(p) \/ \E g \in Hosts \ {h} : at[g] \in {"stage", "replace"}
    BY <2>1 DEF InTurns, IInv
  <2> QED  BY <1>1, <2>1, <2>2 DEF Recorded, Names, files
<1>4. \A g \in Hosts \ {h} : Knows(g)'
  BY KnowsStays DEF InTurns, IInv, Idles
<1>5. Knows(h)'
  BY DEF Knows
<1>6. \A f, g \in Hosts : at'[f] \in Working /\ at'[g] \in Working => f = g
  BY <1>1, <1>2 DEF Working, Ending, Signalled
<1> QED  BY <1>3, <1>4, <1>5, <1>6

\* Nobody's work goes on: whoever is at work still knows what it knew.
LEMMA GoesOn ==
    ASSUME IInv, Ages, SameSight, UNCHANGED <<files, at, goal, found, together>>
    PROVE  InTurns'
<1> SUFFICES ASSUME ~together
             PROVE  /\ \A p \in InSight' : Recorded(p)' \/ \E g \in Hosts : at[g] \in {"stage", "replace"}
                    /\ \A g \in Hosts : Knows(g)'
  BY DEF InTurns, IInv
<1>1. \A p \in InSight' : p \in InSight /\ table'[p].born = table[p].born
  BY DEF SameSight, InSight, Planes
<1>2. \A p \in InSight : Recorded(p) \/ \E g \in Hosts : at[g] \in {"stage", "replace"}
  BY DEF InTurns, IInv
<1>3. \A p \in InSight' : Recorded(p)' \/ \E g \in Hosts : at[g] \in {"stage", "replace"}
  BY <1>1, <1>2 DEF Recorded, files, Names
<1>4. \A g \in Hosts : Knows(g)'
  BY KnowsStays DEF InTurns, IInv
<1> QED  BY <1>3, <1>4

\* Nobody acts: a process of somebody else's starts or ends.
LEMMA NobodyActs ==
    ASSUME IInv, Ages, SameSight, \A g \in Hosts : Spares(g), UNCHANGED <<files, hostVars, histories>>,
           births' \in 0..MaxBorn, table' \in Table
    PROVE  IInv'
<1>1. \A g \in Hosts : Hosted(g)'
  BY HostStays DEF Idles, hostVars
<1>2. Aged'
  BY AgedStays DEF IInv
<1>3. TypeOK'
  BY DEF IInv, TypeOK, files, hostVars, histories
<1>4. FilesNamed'
  BY CopiesAreWritten DEF Copied, FilesNamed, Written, WrittenNext, files
<1>5. InTurns'
  BY GoesOn DEF hostVars, histories
<1>6. OwnChildIsTheTarget'
  BY DEF IInv, OwnChildIsTheTarget, histories
<1> QED  BY <1>1, <1>2, <1>3, <1>4, <1>5, <1>6 DEF IInv

\* A process that ends.
LEMMA EndedFacts ==
    ASSUME TypeOK, NEW p \in Pids, births' = births, table' = Ended(p)
    PROVE  /\ Ages /\ SameSight /\ (\A g \in Hosts : Spares(g)) /\ table' \in Table
           /\ ~table'[p].alive
<1>1. table \in Table /\ Gone \in Entry
  BY Types DEF TypeOK, Gone, Entry
<1>2. \A q \in Pids \ {p} : table'[q] = table[q]
  BY <1>1 DEF Ended, Table
<1>3. \/ table'[p] = Gone /\ table[p].parent = None
      \/ table'[p] = [table[p] EXCEPT !.alive = FALSE]
  BY <1>1 DEF Ended, Table
<1>4. table[p] \in Entry
  BY <1>1 DEF Table
<1>5. /\ table'[p] \in Entry /\ ~table'[p].alive
      /\ \/ table'[p] = Gone /\ table[p].parent = None
         \/ /\ table'[p].kind = table[p].kind /\ table'[p].born = table[p].born
            /\ table'[p].parent = table[p].parent /\ table'[p].fate = table[p].fate
  BY <1>1, <1>3, <1>4 DEF Entry, Gone
<1>6. table' \in Table
  BY <1>1, <1>5 DEF Ended, Table
<1>7. Ages
  BY <1>2, <1>5, Types DEF Ages, Fades
<1>8. SameSight
  BY <1>2, <1>5 DEF SameSight, InSight, Planes
<1>9. ASSUME NEW g \in Hosts  PROVE Spares(g)
  BY <1>2, <1>5, <1>8, <1>9, ProcessAssumption DEF Spares, Keeps, SameSight
<1> QED  BY <1>5, <1>6, <1>7, <1>8, <1>9
-----------------------------------------------------------------------------
(* One lemma for each step of Reattach and Open.                             *)

LEMMA HostTypes ==
    ASSUME TypeOK, NEW h \in Hosts
    PROVE  /\ found[h] \in Identity \cup {None}
           /\ grip[h] # None => grip[h] \in Handle /\ grip[h].pid \in Pids /\ grip[h].born \in 0..MaxBorn
BY DEF TypeOK, Handle

LEMMA ReadRecordKeeps ==
    ASSUME IInv, NEW h \in Hosts, NEW what \in {"open", "reattach"}, ReadRecord(h, what)
    PROVE  IInv'
<1> DEFINE step == IF record = None THEN "spawn" ELSE "check"
<1>1. /\ at[h] = "idle" /\ grip[h] = None /\ UNCHANGED <<table, births, files, grip, wronged, downs>>
      /\ at' = [at EXCEPT ![h] = step] /\ goal' = [goal EXCEPT ![h] = what]
      /\ found' = [found EXCEPT ![h] = record]
      /\ together' = (together \/ \E other \in Hosts \ {h} : at[other] \notin {"idle", "down"})
  BY DEF ReadRecord, Begins
<1>2. TypeOK
  BY DEF IInv
<1>3. Reaps(h)
  BY <1>1 DEF Reaps
<1>4. Ages /\ SameSight /\ \A g \in Hosts \ {h} : Spares(g)
  BY <1>2, <1>3, ReapsFacts
<1>5. \A g \in Hosts \ {h} : Idles(g)
  BY <1>1, <1>2 DEF Idles, TypeOK
<1>6. TypeOK'
  BY <1>1, <1>2 DEF TypeOK, files, Working, Ending, Signalled
<1>7. FilesNamed'
  BY <1>1 DEF IInv, FilesNamed, files, Written
<1>8. at'[h] = step /\ goal'[h] = what /\ found'[h] = record /\ grip'[h] = None
  BY <1>1, <1>2 DEF TypeOK
<1>9. Hosted(h)'
  <2>1. Named(h)'
    BY <1>1, <1>8 DEF IInv, FilesNamed, Named, Written
  <2>2. Placed(h)'
    BY <1>8 DEF Placed, Ending, Signalled, Working
  <2>3. Own(h)' /\ Past(h)'
    BY <1>8 DEF Own, Past
  <2> QED  BY <2>1, <2>2, <2>3 DEF Hosted
<1>10. InTurns'
  <2> SUFFICES ASSUME ~together'
               PROVE  /\ \A f, g \in Hosts : at'[f] \in Working /\ at'[g] \in Working => f = g
                      /\ \A p \in InSight' : Recorded(p)'
                      /\ \A g \in Hosts : Knows(g)'
    BY DEF InTurns
  <2>1. ~together /\ \A g \in Hosts \ {h} : at[g] \in {"idle", "down"} /\ at'[g] = at[g]
    BY <1>1, <1>5, <1>2 DEF Idles, TypeOK
  <2>2. InSight' = InSight /\ \A p \in InSight : Recorded(p)
    BY <1>1, <2>1 DEF IInv, InTurns, InSight, Planes
  <2>3. \A g \in Hosts \ {h} : Knows(g)' /\ at'[g] \notin Working
    BY <2>1 DEF Knows, Working, Ending, Signalled
  <2>4. Knows(h)'
    BY <1>1, <1>8, <2>2 DEF Knows, Recorded, files
  <2> QED  BY <1>1, <2>2, <2>3, <2>4 DEF Recorded, files
<1>11. OwnChildIsTheTarget'
  BY <1>1 DEF IInv, OwnChildIsTheTarget
<1> QED  BY <1>4, <1>5, <1>6, <1>7, <1>9, <1>10, <1>11, OneHost

LEMMA CheckRecordKeeps ==
    ASSUME IInv, NEW h \in Hosts, CheckRecord(h)
    PROVE  IInv'
<1>1. at[h] = "check" /\ UNCHANGED <<births, files, histories>>
  BY DEF CheckRecord
<1>2. TypeOK /\ Hosted(h)
  BY DEF IInv
<1>3. found[h] \in Identity /\ found[h] # None /\ grip[h] = None /\ goal[h] # "stop"
  BY <1>1, <1>2, HostTypes DEF Hosted, Placed, Working, Ending, Signalled
<1>4. found[h].pid \in Pids /\ Tidied(h) \in Tidyings(h)
  BY <1>3 DEF Identity, Tidyings
<1>5. Reaps(h) /\ table' \in Table
  <2>1. table' = Tidied(h) \/ table' = GoesAstray(Tidied(h), found[h])
    BY DEF CheckRecord
  <2> QED  BY <1>1, <1>2, <1>4, <2>1, TidyingReaps, AstrayReaps
<1>14. Ages /\ SameSight /\ \A g \in Hosts \ {h} : Spares(g)
  BY <1>2, <1>5, ReapsFacts
<1>6. \/ /\ at' = [at EXCEPT ![h] = "idle"] /\ goal' = [goal EXCEPT ![h] = "rest"]
         /\ found' = [found EXCEPT ![h] = None] /\ grip' = [grip EXCEPT ![h] = Identified(found[h], "no")]
         /\ found[h].born # 0
      \/ /\ at' = [at EXCEPT ![h] = "idle"] /\ goal' = [goal EXCEPT ![h] = "rest"]
         /\ found' = [found EXCEPT ![h] = None] /\ grip' = grip
      \/ /\ at' = [at EXCEPT ![h] = "forget"] /\ UNCHANGED <<goal, found, grip>>
         /\ table' = GoesAstray(Tidied(h), found[h])
  BY <1>1 DEF CheckRecord, Rests, Goes, PsHangs, IsExact
<1>7. \A g \in Hosts \ {h} : Idles(g)
  BY <1>2, <1>6 DEF Idles, TypeOK
<1>8. TypeOK'
  <2>1. found[h].born # 0 => Identified(found[h], "no") \in Handle
    BY <1>3 DEF Identified, Identity, Handle
  <2>2. at' \in [Hosts -> Working \cup {"down", "idle"}]
        /\ goal' \in [Hosts -> {"rest", "open", "reattach", "stop"}]
        /\ found' \in [Hosts -> Identity \cup {None}]
    BY <1>2, <1>6 DEF TypeOK, Working, Ending, Signalled
  <2>3. grip' \in [Hosts -> Handle \cup {None}]
    BY <1>2, <1>6, <2>1 DEF TypeOK
  <2> QED  BY <1>1, <1>2, <1>5, <2>2, <2>3 DEF TypeOK, files, histories
<1>9. WrittenNext(found[h])
  BY <1>3, <1>14, CopiesAreWritten DEF Copied
<1>10. FilesNamed'
  BY <1>1, <1>14, CopiesAreWritten DEF Copied, FilesNamed, Written, WrittenNext, files
<1>11. Hosted(h)'
  <2>1. \/ at'[h] = "idle" /\ goal'[h] = "rest" /\ found'[h] = None /\ grip'[h] = Identified(found[h], "no")
        \/ at'[h] = "idle" /\ goal'[h] = "rest" /\ found'[h] = None /\ grip'[h] = None
        \/ at'[h] = "forget" /\ goal'[h] = goal[h] /\ found'[h] = found[h] /\ grip'[h] = None
    BY <1>2, <1>3, <1>6 DEF TypeOK
  <2>2. Named(h)'
    BY <1>9, <2>1 DEF Named, Written, WrittenNext, Identified
  <2>3. Placed(h)'
    BY <1>3, <2>1, ProcessAssumption DEF Placed, Ending, Signalled, Working, Identified, Identity
  <2>4. Own(h)'
    BY <2>1 DEF Own, Identified
  <2>5. Past(h)'
    <3>1. at'[h] = "forget" => ~SeesNext(found[h])
      BY <1>1, <1>2, <1>4, <1>6, AstrayReaps DEF TypeOK
    <3> QED  BY <2>1, <3>1 DEF Past, Sees, SeesNext, Runs, RunsIn, RunsNext
  <2> QED  BY <2>2, <2>3, <2>4, <2>5 DEF Hosted
<1>12. InTurns'
  <2>1. ~together' => Knows(h)'
    <3> SUFFICES ASSUME ~together  PROVE Knows(h)'
      BY <1>1 DEF histories
    <3>1. at'[h] = "idle" \/ (at'[h] = "forget" /\ found'[h] = found[h])
      BY <1>2, <1>6 DEF TypeOK
    <3>2. record = found[h]
      BY <1>1, <1>3 DEF IInv, InTurns, Knows
    <3> QED  BY <1>1, <3>1, <3>2 DEF Knows, files
  <2> QED  BY <1>1, <1>2, <1>14, <1>7, <2>1, WorksOn DEF Working, files, histories, TypeOK
<1>13. OwnChildIsTheTarget'
  BY <1>1 DEF IInv, OwnChildIsTheTarget, histories
<1> QED  BY <1>14, <1>7, <1>8, <1>10, <1>11, <1>12, <1>13, OneHost

\* Where Attach and Stop go after _forget: to Start, to rest, or first to the unlink.
LEMMA ForgetKeeps ==
    ASSUME IInv, NEW h \in Hosts, Forget(h)
    PROVE  IInv'
<1>1. at[h] = "forget" /\ UNCHANGED <<table, births, files, grip, histories>>
  BY DEF Forget
<1>2. TypeOK /\ Hosted(h)
  BY DEF IInv
<1>3. Reaps(h)
  BY <1>1 DEF Reaps
<1>4. Ages /\ SameSight /\ \A g \in Hosts \ {h} : Spares(g)
  BY <1>2, <1>3, ReapsFacts
<1>5. found[h] \in Identity /\ found[h] # None /\ grip[h] = None
  BY <1>1, <1>2, HostTypes DEF Hosted, Placed, Working, Ending, Signalled
<1>6. \/ /\ StillNames(found[h].pid)
         /\ at' = [at EXCEPT ![h] = "unlink"] /\ UNCHANGED <<goal, found>>
      \/ /\ ~StillNames(found[h].pid) /\ goal[h] = "open"
         /\ at' = [at EXCEPT ![h] = "spawn"] /\ UNCHANGED <<goal, found>>
      \/ /\ ~StillNames(found[h].pid) /\ at' = [at EXCEPT ![h] = "idle"]
         /\ goal' = [goal EXCEPT ![h] = "rest"] /\ found' = [found EXCEPT ![h] = None]
  BY <1>1 DEF Forget, Forgotten, Goes, Rests
<1>7. \A g \in Hosts \ {h} : Idles(g)
  BY <1>1, <1>2, <1>6 DEF Idles, TypeOK
<1>8. TypeOK'
  <2>1. at' \in [Hosts -> Working \cup {"down", "idle"}]
        /\ goal' \in [Hosts -> {"rest", "open", "reattach", "stop"}]
        /\ found' \in [Hosts -> Identity \cup {None}]
    BY <1>2, <1>6 DEF TypeOK, Working, Ending, Signalled
  <2> QED  BY <1>1, <1>2, <2>1 DEF TypeOK, files, histories
<1>9. FilesNamed'
  BY <1>1 DEF IInv, FilesNamed, Written, files
<1>10. \/ at'[h] = "unlink" /\ StillNames(found[h].pid) /\ goal'[h] = goal[h] /\ found'[h] = found[h]
       \/ at'[h] = "spawn" /\ ~StillNames(found[h].pid) /\ goal'[h] = "open" /\ goal[h] = "open" /\ found'[h] = found[h]
       \/ at'[h] = "idle" /\ goal'[h] = "rest" /\ found'[h] = None
  BY <1>2, <1>6 DEF TypeOK
<1>11. Hosted(h)'
  <2>1. Named(h)'
    BY <1>1, <1>2, <1>5, <1>10 DEF Named, Written, Hosted
  <2>2. Placed(h)'
    BY <1>1, <1>5, <1>10 DEF Placed, Ending, Signalled, Working
  <2>3. Own(h)'
    BY <1>1, <1>5, <1>10 DEF Own
  <2>4. Past(h)'
    BY <1>1, <1>2, <1>10 DEF Past, Sees, Runs, Hosted
  <2> QED  BY <2>1, <2>2, <2>3, <2>4 DEF Hosted
<1>12. ~together' => Knows(h)'
  <2> SUFFICES ASSUME ~together  PROVE Knows(h)'
    BY <1>1 DEF histories
  <2>1. Knows(h)
    BY DEF IInv, InTurns
  <2>2. goal[h] = "open" => StillNames(found[h].pid)
    BY <1>1, <1>5, <2>1 DEF Knows, StillNames
  <2> QED  BY <1>1, <1>10, <2>1, <2>2 DEF Knows, StillNames, files
<1>13. InTurns'
  BY <1>1, <1>2, <1>4, <1>7, <1>12, WorksOn DEF Working, files, histories, TypeOK
<1>14. OwnChildIsTheTarget'
  BY <1>1 DEF IInv, OwnChildIsTheTarget, histories
<1> QED  BY <1>4, <1>7, <1>8, <1>9, <1>11, <1>13, <1>14, OneHost

LEMMA UnlinkKeeps ==
    ASSUME IInv, NEW h \in Hosts, Unlink(h)
    PROVE  IInv'
<1>1. /\ at[h] = "unlink" /\ record' = None /\ UNCHANGED <<births, staged, grip, histories>>
      /\ table' = IF record \notin {None, found[h]} /\ record.pid = found[h].pid
                  THEN GoesAstray(table, record) ELSE table
  BY DEF Unlink
<1>2. TypeOK /\ Hosted(h)
  BY DEF IInv
<1>3. /\ Reaps(h) /\ table' \in Table
      /\ record \notin {None, found[h]} /\ record.pid = found[h].pid => ~SeesNext(record)
  <2>1. record # None => record.pid \in Pids
    BY <1>2 DEF TypeOK, Identity
  <2>2. table \in Tidyings(h)
    BY DEF Tidyings
  <2> QED  BY <1>1, <1>2, <2>1, <2>2, TidyingReaps, AstrayReaps
<1>4. Ages /\ SameSight /\ \A g \in Hosts \ {h} : Spares(g)
  BY <1>2, <1>3, ReapsFacts
<1>5. found[h] \in Identity /\ found[h] # None /\ grip[h] = None
  BY <1>1, <1>2, HostTypes DEF Hosted, Placed, Working, Ending, Signalled
<1>6. \/ /\ goal[h] = "open" /\ at' = [at EXCEPT ![h] = "spawn"] /\ UNCHANGED <<goal, found>>
      \/ /\ at' = [at EXCEPT ![h] = "idle"]
         /\ goal' = [goal EXCEPT ![h] = "rest"] /\ found' = [found EXCEPT ![h] = None]
  BY <1>1 DEF Unlink, Forgotten, Goes, Rests
<1>7. \A g \in Hosts \ {h} : Idles(g)
  BY <1>1, <1>2, <1>6 DEF Idles, TypeOK
<1>8. TypeOK'
  <2>1. at' \in [Hosts -> Working \cup {"down", "idle"}]
        /\ goal' \in [Hosts -> {"rest", "open", "reattach", "stop"}]
        /\ found' \in [Hosts -> Identity \cup {None}]
    BY <1>2, <1>6 DEF TypeOK, Working, Ending, Signalled
  <2> QED  BY <1>1, <1>2, <1>3, <2>1 DEF TypeOK, histories
<1>9. FilesNamed'
  BY <1>1, <1>4, CopiesAreWritten DEF Copied, FilesNamed, Written, WrittenNext
<1>10. \/ at'[h] = "spawn" /\ goal'[h] = "open" /\ goal[h] = "open" /\ found'[h] = found[h]
       \/ at'[h] = "idle" /\ goal'[h] = "rest" /\ found'[h] = None
  BY <1>2, <1>6 DEF TypeOK
<1>11. Hosted(h)'
  <2>1. Named(h)'
    BY <1>1, <1>4, <1>5, <1>10, CopiesAreWritten DEF Copied, Named, Written, WrittenNext
  <2>2. Placed(h)' /\ Own(h)' /\ Past(h)'
    BY <1>1, <1>5, <1>10 DEF Placed, Ending, Signalled, Working, Own, Past
  <2> QED  BY <2>1, <2>2 DEF Hosted
<1>12. ~together => InSight' = {}
  <2> SUFFICES ASSUME ~together, NEW p \in InSight'  PROVE FALSE
    OBVIOUS
  <2>1. p \in Pids /\ p \in InSight /\ table'[p].born = table[p].born
    BY <1>4 DEF SameSight, InSight, Planes
  <2>2. Knows(h) /\ \A g \in Hosts : at[g] \notin {"stage", "replace"}
    BY <1>1 DEF IInv, InTurns, Working
  <2>3. Recorded(p)
    BY <2>1, <2>2 DEF IInv, InTurns
  <2>4. SeesNext(record) /\ Sees(record)
    BY <2>1, <2>3 DEF Recorded, Names, SeesNext, RunsNext, Sees, Runs, RunsIn, InSight, Planes
  <2>5. record = found[h]
    BY <1>1, <1>3, <2>2, <2>4 DEF Knows
  <2> QED  BY <1>1, <1>2, <2>4, <2>5 DEF Hosted, Past
<1>13. InTurns'
  <2>1. \A p \in InSight' : p \in Pids
    BY DEF InSight, Planes
  <2>2. ~together' => Knows(h)'
    BY <1>1, <1>10, <1>12 DEF Knows, histories
  <2> QED  BY <1>1, <1>4, <1>7, <1>8, <1>12, <2>2, WorksOn DEF Working, TypeOK, histories
<1>14. OwnChildIsTheTarget'
  BY <1>1 DEF IInv, OwnChildIsTheTarget, histories
<1> QED  BY <1>4, <1>7, <1>8, <1>9, <1>11, <1>13, <1>14, OneHost

\* The process that Start runs has a start time of its own, and a PID that nothing has.
Started(h, q) == [Tidied(h) EXCEPT ![q] = Born("plane", h)]
Unseen(h, q) == GoesAstray(Started(h, q), RecordOf(q, births + 1))
LEMMA BirthAges ==
    ASSUME TypeOK, Aged, NEW h \in Hosts, NEW q \in Pids, births < MaxBorn, births' = births + 1,
           Tidied(h)[q].kind = "gone", table' \in {Started(h, q), Unseen(h, q)}
    PROVE  /\ Ages /\ births' \in 0..MaxBorn /\ \A g \in Hosts \ {h} : Spares(g)
           /\ table' \in Table
           /\ table'[q].kind = "plane" /\ table'[q].born = births' /\ table'[q].parent = h
           /\ table' = Unseen(h, q) => table'[q].fate # "well"
           /\ \A p \in Pids \ {q} : \/ table'[p] = table[p] \/ (Zombie(h, p) /\ table'[p] = Gone)
                                  \/ Dims(p)
           /\ Started(h, q)[q].born = births'
<1>1. births \in Nat /\ births' \in 0..MaxBorn /\ births' = births + 1 /\ births' # 0
  BY Types DEF TypeOK
<1>2. Born("plane", h) \in Entry /\ Gone \in Entry
  <2>1. births + 1 \in 0..MaxBorn /\ 0 \in 0..MaxBorn
    BY <1>1, Types
  <2>2. Born("plane", h) \in Entry
    BY <2>1, Zenon DEF Born, Entry
  <2>3. Gone \in Entry
    BY <2>1 DEF Gone, Entry
  <2> QED  BY <2>2, <2>3
<1>3. Tidied(h) \in [Pids -> Entry] /\ table \in [Pids -> Entry]
  BY <1>2 DEF Tidied, TypeOK, Table
<1>4. Started(h, q) \in Table /\ Started(h, q)[q] = Born("plane", h)
      /\ \A p \in Pids \ {q} : Started(h, q)[p] = Tidied(h)[p]
  BY <1>2, <1>3 DEF Started, Table
<1>5. /\ Unseen(h, q) \in Table
      /\ \A p \in Pids : \/ Unseen(h, q)[p] = Started(h, q)[p]
                         \/ Unseen(h, q)[p] = [Started(h, q)[p] EXCEPT !.fate = "astray"]
      /\ Unseen(h, q)[q].fate = "well" => ~RunsIn(Started(h, q), RecordOf(q, births + 1))
  <2>1. RecordOf(q, births + 1).pid = q
    BY DEF RecordOf
  <2> QED  BY <1>4, <2>1, AstrayFacts DEF Unseen
<1>6. \A p \in Pids \ {q} : Tidied(h)[p] = table[p] \/ (Zombie(h, p) /\ Tidied(h)[p] = Gone)
  BY <1>3 DEF Tidied
<1>7. \A p \in Pids : table'[p] = Started(h, q)[p] \/ table'[p] = [Started(h, q)[p] EXCEPT !.fate = "astray"]
  BY <1>5
<1>8. table' \in Table
  BY <1>4, <1>5
<1>9. /\ table'[q].kind = "plane" /\ table'[q].born = births' /\ table'[q].parent = h
      /\ table' = Unseen(h, q) => table'[q].fate # "well"
  <2>1. RunsIn(Started(h, q), RecordOf(q, births + 1))
    BY <1>4 DEF RunsIn, RecordOf, Born
  <2>2. table'[q].kind = "plane" /\ table'[q].born = births' /\ table'[q].parent = h
    <3>1. table'[q] = Born("plane", h) \/ table'[q] = [Born("plane", h) EXCEPT !.fate = "astray"]
      BY <1>4, <1>7
    <3> QED  BY <1>1, <3>1 DEF Born
  <2> QED  BY <1>5, <2>1, <2>2
<1>10. ASSUME NEW p \in Pids \ {q}
       PROVE  table'[p] = table[p] \/ (Zombie(h, p) /\ table'[p] = Gone) \/ Dims(p)
  <2>1. CASE table'[p] = Tidied(h)[p]
    BY <1>6, <1>10, <2>1
  <2>2. CASE table'[p] = [Tidied(h)[p] EXCEPT !.fate = "astray"] /\ Tidied(h)[p] = table[p]
    <3>1. table[p] \in Entry
      BY <1>3, <1>10
    <3> QED  BY <2>2, <3>1 DEF Dims, Entry
  <2>3. CASE table'[p] # Tidied(h)[p] /\ Tidied(h)[p] = Gone
    <3>1. Started(h, q)[p] = Gone
      BY <1>4, <1>10, <2>3
    <3> QED  BY <1>4, <1>10, <2>3, <3>1 DEF Unseen, GoesAstray, RunsIn, Gone
  <2> QED  BY <1>4, <1>6, <1>7, <1>10, <2>1, <2>2, <2>3
<1>11. table[q].kind = "gone" \/ Zombie(h, q)
  BY <1>3 DEF Tidied
<1>12. Ages
  <2>1. Starts(q)
    BY <1>1, <1>9 DEF Starts
  <2>2. \A p \in Pids \ {q} : Fades(p)
    BY <1>10, Types DEF Fades, Dims
  <2> QED  BY <1>1, <2>1, <2>2 DEF Ages
<1>13. ASSUME NEW g \in Hosts \ {h}  PROVE Spares(g)
  <2>1. table[q].parent # g
    BY <1>11, <1>13, ProcessAssumption DEF Aged, Zombie
  <2> QED  BY <1>10, <1>13, <2>1 DEF Spares, Keeps, Zombie, Dims, InSight, Planes
<1>14. Started(h, q)[q].born = births'
  BY <1>4 DEF Born
<1> QED  BY <1>1, <1>8, <1>9, <1>10, <1>12, <1>13, <1>14

LEMMA SpawnKeeps ==
    ASSUME IInv, NEW h \in Hosts, Spawn(h)
    PROVE  IInv'
<1>1. at[h] = "spawn" /\ UNCHANGED <<files, grip, histories>>
  BY DEF Spawn
<1>2. TypeOK /\ Hosted(h) /\ Aged
  BY DEF IInv
<1>3. grip[h] = None /\ goal[h] # "stop"
  BY <1>1, <1>2 DEF Hosted, Placed, Working, Ending, Signalled
<1>4. OwnChildIsTheTarget'
  BY <1>1 DEF IInv, OwnChildIsTheTarget, histories
<1>5. CASE table' = Tidied(h) /\ Rests(h, "idle") /\ UNCHANGED births
  <2>1. Reaps(h) /\ table' \in Table
    BY <1>2, <1>5, TidyingReaps DEF Tidyings
  <2>2. Ages /\ SameSight /\ \A g \in Hosts \ {h} : Spares(g)
    BY <1>2, <2>1, ReapsFacts
  <2>3. /\ at' = [at EXCEPT ![h] = "idle"] /\ goal' = [goal EXCEPT ![h] = "rest"]
        /\ found' = [found EXCEPT ![h] = None]
    BY <1>5 DEF Rests
  <2>4. \A g \in Hosts \ {h} : Idles(g)
    BY <1>1, <1>2, <2>3 DEF Idles, TypeOK
  <2>5. TypeOK'
    BY <1>1, <1>2, <1>5, <2>1, <2>3 DEF TypeOK, files, histories
  <2>6. at'[h] = "idle" /\ goal'[h] = "rest" /\ found'[h] = None /\ grip'[h] = None
    BY <1>1, <1>2, <1>3, <2>3 DEF TypeOK
  <2>7. Hosted(h)'
    BY <2>6 DEF Hosted, Named, Placed, Own, Past, Working, Ending, Signalled
  <2>8. FilesNamed'
    BY <1>1, <2>2, CopiesAreWritten DEF Copied, FilesNamed, Written, WrittenNext, files
  <2>9. Knows(h)'
    BY <2>6 DEF Knows
  <2>10. InTurns'
    BY <1>1, <1>5, <2>2, <2>4, <2>5, <2>9, WorksOn DEF Working, files, histories, TypeOK
  <2> QED  BY <1>4, <2>2, <2>4, <2>5, <2>7, <2>8, <2>10, OneHost
<1>6. ASSUME NEW p \in Pids, births < MaxBorn, births' = births + 1, Tidied(h)[p].kind = "gone",
             table' \in {Started(h, p), Unseen(h, p)},
             \/ \E told \in {0, births'} :
                  /\ told = 0 => table' = Unseen(h, p)
                  /\ found' = [found EXCEPT ![h] = RecordOf(p, told)]
                  /\ at' = [at EXCEPT ![h] = "stage"] /\ UNCHANGED goal
             \/ PsHangs(h) /\ table' = Unseen(h, p)
      PROVE  IInv'
  <2>1. /\ Ages /\ births' \in 0..MaxBorn /\ \A g \in Hosts \ {h} : Spares(g)
        /\ table' \in Table
        /\ table'[p].kind = "plane" /\ table'[p].born = births' /\ table'[p].parent = h
        /\ table' = Unseen(h, p) => table'[p].fate # "well"
        /\ \A q \in Pids \ {p} : table'[q] = table[q] \/ (Zombie(h, q) /\ table'[q] = Gone) \/ Dims(q)
    BY <1>2, <1>6, BirthAges
  <2>2. births \in Nat /\ births' \in Nat
    BY <1>2, <1>6, Types
  <2>3. \A told \in {0, births'} : RecordOf(p, told) \in Identity /\ RecordOf(p, told) # None
    <3>1. \A told \in {0, births'} : RecordOf(p, told) \in [pid : Pids, born : Nat]
      BY <2>2 DEF RecordOf
    <3>2. 0 \in 0..MaxBorn
      BY <1>2, Types
    <3> QED  BY <2>1, <3>1, <3>2, ProcessAssumption DEF RecordOf, Identity
  <2>4. \/ /\ at' = [at EXCEPT ![h] = "stage"] /\ UNCHANGED goal
           /\ \E told \in {0, births'} :
                found' = [found EXCEPT ![h] = RecordOf(p, told)] /\ (told = 0 => table' = Unseen(h, p))
        \/ /\ at' = [at EXCEPT ![h] = "idle"] /\ goal' = [goal EXCEPT ![h] = "rest"]
           /\ found' = [found EXCEPT ![h] = None] /\ table' = Unseen(h, p)
    BY <1>6 DEF PsHangs, Rests
  <2>5. \A g \in Hosts \ {h} : Idles(g)
    BY <1>1, <1>2, <2>4 DEF Idles, TypeOK
  <2>6. TypeOK'
    <3>1. at' \in [Hosts -> Working \cup {"down", "idle"}]
          /\ goal' \in [Hosts -> {"rest", "open", "reattach", "stop"}]
          /\ found' \in [Hosts -> Identity \cup {None}]
      BY <1>2, <2>3, <2>4 DEF TypeOK, Working, Ending
    <3> QED  BY <1>1, <1>2, <2>1, <3>1 DEF TypeOK, files, histories
  <2>7. \/ /\ at'[h] = "stage" /\ goal'[h] = goal[h] /\ found'[h] # None
           /\ found'[h].pid = p /\ found'[h].born \in {0, births'}
           /\ found'[h].born = 0 => table'[p].fate # "well"
        \/ at'[h] = "idle" /\ goal'[h] = "rest" /\ found'[h] = None /\ table'[p].fate # "well"
    BY <1>2, <2>1, <2>3, <2>4 DEF TypeOK, RecordOf
  <2>8. p \in InSight' => table'[p].fate = "well"
    BY DEF InSight
  <2>9. Hosted(h)'
    <3>1. grip'[h] = None
      BY <1>1, <1>3
    <3>2. Named(h)'
      BY <2>1, <2>2, <2>7, <3>1 DEF Named, Written
    <3>3. Placed(h)'
      BY <1>3, <2>7, <3>1 DEF Placed, Ending, Working, Signalled
    <3>4. Own(h)'
      BY <2>1, <2>7, <2>8, <3>1 DEF Own, IsChild
    <3>5. Past(h)'
      BY <2>7 DEF Past
    <3> QED  BY <3>2, <3>3, <3>4, <3>5 DEF Hosted
  <2>10. FilesNamed'
    BY <1>1, <2>1, CopiesAreWritten DEF Copied, FilesNamed, Written, WrittenNext, files
  <2>11. InTurns'
    <3> SUFFICES ASSUME ~together
                 PROVE  /\ \A f, g \in Hosts : at'[f] \in Working /\ at'[g] \in Working => f = g
                        /\ \A q \in InSight' : at'[h] = "stage"
                        /\ \A g \in Hosts : Knows(g)'
      BY <1>1 DEF InTurns, histories
    <3>1. InSight = {} /\ \A g \in Hosts \ {h} : at[g] \notin Working
      BY <1>1 DEF IInv, InTurns, Knows, Working
    <3>2. \A g \in Hosts \ {h} : at'[g] \notin Working
      BY <2>5, <3>1 DEF Idles
    <3>3. \A g \in Hosts \ {h} : Knows(g)'
      BY <3>2 DEF Knows, Working
    <3>4. InSight' \subseteq {p}
      BY <2>1, <3>1 DEF InSight, Planes, Gone, Dims
    <3>5. at'[h] # "stage" => InSight' = {}
      BY <2>7, <2>8, <3>4
    <3>6. Knows(h)'
      BY <2>7, <3>4 DEF Knows
    <3> QED  BY <2>7, <3>2, <3>3, <3>5, <3>6
  <2> QED  BY <1>4, <2>1, <2>5, <2>6, <2>9, <2>10, <2>11, OneHost
<1>7. ASSUME NEW p \in Pids, births < MaxBorn, births' = births + 1, Tidied(h)[p].kind = "gone",
             \/ \E told \in StartTime(Started(h, p), p) :
                     /\ table' = IF told = 0 THEN Unseen(h, p) ELSE Started(h, p)
                     /\ found' = [found EXCEPT ![h] = RecordOf(p, told)]
                     /\ at' = [at EXCEPT ![h] = "stage"] /\ UNCHANGED goal
             \/ PsHangs(h) /\ table' = Unseen(h, p)
      PROVE  IInv'
  <2>1. table' \in {Started(h, p), Unseen(h, p)}
    BY <1>7
  <2>2. StartTime(Started(h, p), p) = {0, births'}
    BY <1>2, <1>7, <2>1, BirthAges DEF StartTime
  <2> QED  BY <1>6, <1>7, <2>1, <2>2
<1>8. \/ table' = Tidied(h) /\ Rests(h, "idle") /\ UNCHANGED births
      \/ /\ births < MaxBorn /\ births' = births + 1
         /\ \E p \in Pids :
              /\ Tidied(h)[p].kind = "gone"
              /\ \/ \E told \in StartTime(Started(h, p), p) :
                       /\ table' = IF told = 0 THEN Unseen(h, p) ELSE Started(h, p)
                       /\ found' = [found EXCEPT ![h] = RecordOf(p, told)]
                       /\ at' = [at EXCEPT ![h] = "stage"] /\ UNCHANGED goal
                 \/ PsHangs(h) /\ table' = Unseen(h, p)
  BY DEF Spawn, Started, Unseen
<1> QED  BY <1>5, <1>7, <1>8

LEMMA StageKeeps ==
    ASSUME IInv, NEW h \in Hosts, Stage(h)
    PROVE  IInv'
<1>1. /\ at[h] = "stage" /\ at' = [at EXCEPT ![h] = "replace"] /\ staged' = found[h]
      /\ UNCHANGED <<table, births, record, goal, found, grip, histories>>
  BY DEF Stage, Goes
<1>2. TypeOK /\ Hosted(h)
  BY DEF IInv
<1>3. Reaps(h)
  BY <1>1 DEF Reaps
<1>4. Ages /\ SameSight /\ \A g \in Hosts \ {h} : Spares(g)
  BY <1>2, <1>3, ReapsFacts
<1>5. \A g \in Hosts \ {h} : Idles(g)
  BY <1>1, <1>2 DEF Idles, TypeOK
<1>6. at'[h] = "replace"
  BY <1>1, <1>2 DEF TypeOK
<1>7. TypeOK'
  BY <1>1, <1>2 DEF TypeOK, histories, Working, Ending, Signalled
<1>8. FilesNamed'
  BY <1>1, <1>4, CopiesAreWritten DEF Copied, FilesNamed, Written, WrittenNext
<1>9. Hosted(h)'
  <2>1. Named(h)'
    BY <1>1, <1>2 DEF Hosted, Named, Written
  <2>2. Placed(h)'
    BY <1>1, <1>2, <1>6 DEF Hosted, Placed, Working, Ending, Signalled
  <2>3. Own(h)'
    BY <1>1, <1>2, <1>6 DEF Hosted, Own, IsChild, InSight, Planes
  <2>4. Past(h)'
    BY <1>6 DEF Past
  <2> QED  BY <2>1, <2>2, <2>3, <2>4 DEF Hosted
<1>10. ~together' => Knows(h)'
  <2>1. InSight' = InSight
    BY <1>1 DEF InSight, Planes
  <2> QED  BY <1>1, <1>6, <2>1 DEF IInv, InTurns, Knows, histories
<1>11. InTurns'
  BY <1>1, <1>2, <1>4, <1>5, <1>6, <1>10, WorksOn DEF Working, histories, TypeOK
<1>12. OwnChildIsTheTarget'
  BY <1>1 DEF IInv, OwnChildIsTheTarget, histories
<1> QED  BY <1>4, <1>5, <1>7, <1>8, <1>9, <1>11, <1>12, OneHost

LEMMA ReplaceKeeps ==
    ASSUME IInv, NEW h \in Hosts, Replace(h)
    PROVE  IInv'
<1>1. /\ at[h] = "replace" /\ UNCHANGED <<births, histories>>
      /\ at' = [at EXCEPT ![h] = "idle"] /\ goal' = [goal EXCEPT ![h] = "rest"]
      /\ found' = [found EXCEPT ![h] = None]
  BY DEF Replace, Rests
<1>2. TypeOK /\ Hosted(h)
  BY DEF IInv
<1>3. /\ found[h] \in Identity /\ found[h] # None /\ IsChild(h, found[h]) /\ grip[h] = None
      /\ found[h].born = 0 => found[h].pid \notin InSight
  BY <1>1, <1>2, HostTypes DEF Hosted, Placed, Own, Working, Ending, Signalled
<1>4. at'[h] = "idle" /\ goal'[h] = "rest" /\ found'[h] = None
  BY <1>1, <1>2 DEF TypeOK
<1>5. OwnChildIsTheTarget'
  BY <1>1 DEF IInv, OwnChildIsTheTarget, histories
<1>6. CASE staged # None /\ record' = staged /\ staged' = None /\ UNCHANGED table
           /\ grip' = [grip EXCEPT ![h] = Identified(found[h], "held")]
  <2>1. Reaps(h)
    BY <1>1, <1>6 DEF Reaps
  <2>2. Ages /\ SameSight /\ \A g \in Hosts \ {h} : Spares(g)
    BY <1>2, <2>1, ReapsFacts
  <2>3. \A g \in Hosts \ {h} : Idles(g)
    BY <1>1, <1>2, <1>6 DEF Idles, TypeOK
  <2>4. grip'[h] = Identified(found[h], "held")
    BY <1>2, <1>6 DEF TypeOK
  <2>5. TypeOK'
    <3>1. Identified(found[h], "held") \in Handle
      BY <1>3 DEF Identity, Identified, Handle
    <3> QED  BY <1>1, <1>2, <1>6, <3>1 DEF TypeOK, histories
  <2>6. FilesNamed'
    BY <1>1, <1>6, <2>2, CopiesAreWritten DEF Copied, FilesNamed, Written, WrittenNext
  <2>7. Hosted(h)'
    <3>1. Written(found[h])
      BY <1>2, <1>3 DEF Hosted, Named
    <3>2. Named(h)'
      BY <1>1, <1>4, <1>6, <2>4, <3>1 DEF Named, Written, Identified
    <3>3. Placed(h)'
      BY <1>4, <2>4 DEF Placed, Working, Ending, Signalled, Identified
    <3>4. Own(h)'
      BY <1>3, <1>4, <1>6, <2>4 DEF Own, IsChild, Identified
    <3>5. Past(h)'
      BY <1>4 DEF Past
    <3> QED  BY <3>2, <3>3, <3>4, <3>5 DEF Hosted
  <2>8. ASSUME ~together, NEW p \in Pids, p \in InSight'  PROVE Recorded(p)'
    <3>1. Knows(h)
      BY <2>8 DEF IInv, InTurns
    <3>2. p \in InSight /\ p = found[h].pid /\ staged = found[h]
      BY <1>1, <2>2, <2>8, <3>1 DEF Knows, SameSight
    <3> QED  BY <1>3, <1>6, <3>2 DEF Recorded, Names, IsChild
  <2>9. Knows(h)'
    BY <1>4 DEF Knows
  <2>10. together' = together /\ together' \in BOOLEAN
    BY <1>1, <1>2 DEF TypeOK, histories
  <2>11. InTurns'
    BY <1>1, <2>2, <2>3, <2>8, <2>9, <2>10, WorksOn DEF Working
  <2> QED  BY <1>5, <2>2, <2>3, <2>5, <2>6, <2>7, <2>11, OneHost
<1>7. CASE staged = None /\ UNCHANGED <<files, grip>>
           /\ table' = [table EXCEPT ![found[h].pid] = IF @.alive THEN @ ELSE Gone]
  <2>1. Reaps(h) /\ table' \in Table
    <3>1. table \in Table /\ found[h].pid \in Pids /\ Gone \in Entry
      BY <1>2, <1>3, Types DEF TypeOK, Gone, Entry
    <3> QED  BY <1>1, <1>3, <1>7, <3>1 DEF Reaps, IsChild, Zombie, Table
  <2>2. Ages /\ SameSight /\ \A g \in Hosts \ {h} : Spares(g)
    BY <1>2, <2>1, ReapsFacts
  <2>3. \A g \in Hosts \ {h} : Idles(g)
    BY <1>1, <1>2, <1>7 DEF Idles, TypeOK
  <2>4. TypeOK'
    BY <1>1, <1>2, <1>7, <2>1 DEF TypeOK, files, histories
  <2>5. FilesNamed'
    BY <1>7, <2>2, CopiesAreWritten DEF Copied, FilesNamed, Written, WrittenNext, files
  <2>6. Hosted(h)'
    BY <1>3, <1>4, <1>7 DEF Hosted, Named, Placed, Own, Past, Working, Ending, Signalled
  <2>7. InTurns'
    <3>1. ~together => staged = found[h]
      BY <1>1 DEF IInv, InTurns, Knows
    <3> QED  BY <1>1, <1>3, <1>7, <3>1 DEF InTurns, histories
  <2> QED  BY <1>5, <2>2, <2>3, <2>4, <2>5, <2>6, <2>7, OneHost
<1> QED  BY <1>6, <1>7 DEF Replace
-----------------------------------------------------------------------------
(* The link lets go; hosts and other processes come and go.                  *)

\* Whatever it did of its process, an idle link lets go of it.
LEMMA LettingGoKeeps ==
    ASSUME IInv, NEW h \in Hosts, at[h] = "idle", grip' = [grip EXCEPT ![h] = None],
           table' \in {table, Reaped(h)}, UNCHANGED <<births, files, at, goal, found, histories>>
    PROVE  IInv'
<1>1. TypeOK /\ Hosted(h)
  BY DEF IInv
<1>2. Reaps(h) /\ table' \in Table
  BY <1>1, TidyingReaps DEF Tidyings
<1>3. Ages /\ SameSight /\ \A g \in Hosts \ {h} : Spares(g)
  BY <1>1, <1>2, ReapsFacts
<1>4. \A g \in Hosts \ {h} : Idles(g)
  BY <1>1 DEF Idles, TypeOK
<1>5. TypeOK'
  BY <1>1, <1>2 DEF TypeOK, files, histories
<1>6. FilesNamed'
  BY <1>3, CopiesAreWritten DEF Copied, FilesNamed, Written, WrittenNext, files
<1>7. grip'[h] = None
  BY <1>1 DEF TypeOK
<1>8. Hosted(h)'
  <2>1. Named(h)'
    BY <1>3, <1>7, CopiesAreWritten DEF Copied, Named, Written, WrittenNext
  <2> QED  BY <1>7, <2>1 DEF Hosted, Placed, Own, Past, Working, Ending, Signalled
<1>9. InTurns'
  BY <1>3, GoesOn DEF histories
<1>10. OwnChildIsTheTarget'
  BY DEF IInv, OwnChildIsTheTarget, histories
<1> QED  BY <1>3, <1>4, <1>5, <1>6, <1>8, <1>9, <1>10, OneHost

LEMMA DownKeeps ==
    ASSUME IInv, NEW h \in Hosts, Down(h)
    PROVE  IInv'
<1>1. /\ downs < MaxDowns /\ downs' = downs + 1 /\ UNCHANGED <<births, files, wronged, together>>
      /\ at' = [at EXCEPT ![h] = "down"] /\ goal' = [goal EXCEPT ![h] = "rest"]
      /\ found' = [found EXCEPT ![h] = None] /\ grip' = [grip EXCEPT ![h] = None]
  BY DEF Down, Rests
<1>2. TypeOK /\ Hosted(h)
  BY DEF IInv
<1>3. table \in Table /\ Gone \in Entry
  BY <1>2, Types DEF TypeOK, Gone, Entry
<1>4. PICK processes \in Table :
         /\ at[h] \notin {"stage", "replace"} => processes = table
         /\ at[h] \in {"stage", "replace"} => processes = GoesAstray(table, found[h])
         /\ \A p \in Pids : processes[p] = table[p] \/ processes[p] = [table[p] EXCEPT !.fate = "astray"]
         /\ table' = [p \in Pids |->
              IF table[p].parent # h THEN table[p]
              ELSE IF table[p].alive THEN [processes[p] EXCEPT !.parent = None] ELSE Gone]
  <2>1. at[h] \in {"stage", "replace"} => found[h].pid \in Pids
    BY <1>2, HostTypes DEF Hosted, Placed, Working, Identity
  <2>2. CASE at[h] \in {"stage", "replace"}
    <3>1. /\ GoesAstray(table, found[h]) \in Table
          /\ \A p \in Pids : \/ GoesAstray(table, found[h])[p] = table[p]
                             \/ GoesAstray(table, found[h])[p] = [table[p] EXCEPT !.fate = "astray"]
      BY <1>3, <2>1, <2>2, AstrayFacts
    <3> QED  BY <2>2, <3>1 DEF Down
  <2>3. CASE at[h] \notin {"stage", "replace"}
    BY <1>3, <2>3 DEF Down
  <2> QED  BY <2>2, <2>3
<1>5. \A p \in Pids : /\ table'[p] \in Entry
                      /\ \/ table'[p] = table[p] /\ table[p].parent # h
                         \/ /\ table'[p].kind = table[p].kind /\ table'[p].born = table[p].born
                            /\ table'[p].parent = None /\ table'[p].alive = table[p].alive
                            /\ table[p].parent = h /\ table'[p].fate = processes[p].fate
                            /\ (table'[p].fate = "well" => table[p].fate = "well")
                         \/ table'[p] = Gone /\ table[p].parent = h
  <2> SUFFICES ASSUME NEW p \in Pids
               PROVE  /\ table'[p] \in Entry
                      /\ \/ table'[p] = table[p] /\ table[p].parent # h
                         \/ /\ table'[p].kind = table[p].kind /\ table'[p].born = table[p].born
                            /\ table'[p].parent = None /\ table'[p].alive = table[p].alive
                            /\ table[p].parent = h /\ table'[p].fate = processes[p].fate
                            /\ (table'[p].fate = "well" => table[p].fate = "well")
                         \/ table'[p] = Gone /\ table[p].parent = h
    OBVIOUS
  <2>1. table[p] \in Entry /\ processes[p] \in Entry
    BY <1>3, <1>4 DEF Table
  <2>2. /\ processes[p].kind = table[p].kind /\ processes[p].born = table[p].born
        /\ processes[p].alive = table[p].alive
        /\ (processes[p].fate = "well" => table[p].fate = "well")
    BY <1>4, <2>1 DEF Entry
  <2>3. CASE table'[p] = [processes[p] EXCEPT !.parent = None] /\ table[p].parent = h
    BY <2>1, <2>2, <2>3 DEF Entry
  <2>4. CASE table'[p] = table[p] /\ table[p].parent # h
    BY <2>1, <2>4
  <2>5. CASE table'[p] = Gone /\ table[p].parent = h
    BY <1>3, <2>5
  <2> QED  BY <1>4, <2>3, <2>4, <2>5
<1>6. table' \in Table
  BY <1>4, <1>5 DEF Table
<1>7. Ages
  BY <1>1, <1>5, Types, <1>2 DEF Ages, Fades
<1>8. SameSight
  BY <1>5 DEF SameSight, InSight, Planes, Gone
<1>9. ASSUME NEW g \in Hosts \ {h}  PROVE Spares(g)
  BY <1>5, <1>8, <1>9 DEF Spares, Keeps, SameSight
<1>10. \A g \in Hosts \ {h} : Idles(g)
  BY <1>1, <1>2 DEF Idles, TypeOK
<1>11. at'[h] = "down" /\ goal'[h] = "rest" /\ found'[h] = None /\ grip'[h] = None
  BY <1>1, <1>2 DEF TypeOK
<1>12. TypeOK'
  <2>2. downs' \in 0..MaxDowns
    BY <1>1, <1>2, ProcessAssumption DEF TypeOK
  <2> QED  BY <1>1, <1>2, <1>6, <2>2 DEF TypeOK, files
<1>13. FilesNamed'
  BY <1>1, <1>7, CopiesAreWritten DEF Copied, FilesNamed, Written, WrittenNext, files
<1>14. Hosted(h)'
  BY <1>11 DEF Hosted, Named, Placed, Own, Past, Working, Ending, Signalled
<1>15. ~together' => ~together /\ (at[h] \notin {"stage", "replace"} \/ InSight' = {})
  <2> SUFFICES ASSUME ~together, at[h] \in {"stage", "replace"}, NEW p \in InSight'  PROVE FALSE
    BY <1>1
  <2>1. p \in Pids /\ p \in InSight
    BY <1>8 DEF SameSight, InSight, Planes
  <2>2. p = found[h].pid
    BY <2>1 DEF IInv, InTurns, Knows
  <2>3. IsChild(h, found[h]) /\ found[h].born = table[p].born
    BY <1>2, <2>1, <2>2 DEF Hosted, Own, IsChild
  <2>4. RunsIn(table, found[h])
    BY <2>1, <2>2, <2>3 DEF RunsIn, InSight, Planes
  <2>5. processes[p].fate # "well"
    BY <1>3, <1>4, <2>1, <2>2, <2>4, AstrayFacts
  <2>6. table'[p].fate = "well" /\ table'[p].alive
    BY DEF InSight, Planes
  <2> QED  BY <1>5, <2>1, <2>2, <2>3, <2>5, <2>6 DEF IsChild, Gone
<1>16. InTurns'
  BY <1>1, <1>7, <1>8, <1>10, <1>11, <1>15, StandsBack
<1>17. OwnChildIsTheTarget'
  BY <1>1 DEF IInv, OwnChildIsTheTarget
<1> QED  BY <1>7, <1>9, <1>10, <1>12, <1>13, <1>14, <1>16, <1>17, OneHost

LEMMA UpKeeps ==
    ASSUME IInv, NEW h \in Hosts, Up(h)
    PROVE  IInv'
<1>1. /\ at[h] = "down" /\ at' = [at EXCEPT ![h] = "idle"]
      /\ UNCHANGED <<table, births, files, goal, found, grip, histories>>
  BY DEF Up, Goes
<1>2. TypeOK /\ Hosted(h)
  BY DEF IInv
<1>3. Reaps(h)
  BY <1>1 DEF Reaps
<1>4. Ages /\ SameSight /\ \A g \in Hosts \ {h} : Spares(g)
  BY <1>2, <1>3, ReapsFacts
<1>5. (\A g \in Hosts \ {h} : Idles(g)) /\ at'[h] = "idle"
  BY <1>1, <1>2 DEF Idles, TypeOK
<1>6. TypeOK'
  BY <1>1, <1>2 DEF TypeOK, files, histories
<1>7. FilesNamed'
  BY <1>1 DEF IInv, FilesNamed, Written, files
<1>8. Hosted(h)'
  <2>1. Named(h)'
    BY <1>1, <1>2 DEF Named, Written, Hosted
  <2> QED  BY <1>1, <1>2, <1>5, <2>1 DEF Hosted, Placed, Own, Past, Working, Ending, Signalled
<1>9. InTurns'
  BY <1>1, <1>4, <1>5, StandsBack DEF histories
<1>10. OwnChildIsTheTarget'
  BY <1>1 DEF IInv, OwnChildIsTheTarget, histories
<1> QED  BY <1>4, <1>5, <1>6, <1>7, <1>8, <1>9, <1>10, OneHost

LEMMA OthersKeep ==
    ASSUME IInv, NEW p \in Pids, PlaneExits(p) \/ StrangerStarts(p) \/ StrangerExits(p)
    PROVE  IInv'
<1>1. TypeOK /\ Aged /\ UNCHANGED <<files, hostVars, histories>>
  BY DEF IInv, PlaneExits, StrangerStarts, StrangerExits
<1>2. CASE PlaneExits(p) \/ StrangerExits(p)
  <2>1. births' = births /\ table' = Ended(p)
    BY <1>2 DEF PlaneExits, StrangerExits
  <2>2. Ages /\ SameSight /\ (\A g \in Hosts : Spares(g)) /\ table' \in Table
    BY <1>1, <2>1, EndedFacts
  <2> QED  BY <1>1, <2>1, <2>2, NobodyActs DEF TypeOK
<1>3. CASE StrangerStarts(p)
  <2>1. /\ table[p].kind = "gone" /\ births < MaxBorn /\ births' = births + 1
        /\ table' = [table EXCEPT ![p] = Born("stranger", None)]
    BY <1>3 DEF StrangerStarts
  <2>2. births \in Nat /\ births' \in 0..MaxBorn /\ births' # 0 /\ births + 1 \in 0..MaxBorn
    BY <1>1, <2>1, Types DEF TypeOK
  <2>3. Born("stranger", None) \in Entry
    BY <2>2, Zenon DEF Born, Entry
  <2>4. /\ table' \in Table /\ table'[p] = Born("stranger", None)
        /\ \A q \in Pids \ {p} : table'[q] = table[q]
    BY <1>1, <2>1, <2>3 DEF TypeOK, Table
  <2>5. Ages
    <3>1. Starts(p)
      BY <2>1, <2>2, <2>4 DEF Starts, Born
    <3>2. \A q \in Pids \ {p} : Fades(q)
      BY <2>4, Types, <1>1 DEF Fades
    <3> QED  BY <2>1, <2>2, <3>1, <3>2 DEF Ages
  <2>6. SameSight
    BY <2>4 DEF SameSight, InSight, Planes, Born
  <2>7. ASSUME NEW g \in Hosts  PROVE Spares(g)
    BY <1>1, <2>1, <2>4, <2>6, <2>7, ProcessAssumption DEF Aged, Spares, Keeps, SameSight
  <2> QED  BY <1>1, <2>2, <2>4, <2>5, <2>6, <2>7, NobodyActs
<1> QED  BY <1>2, <1>3
-----------------------------------------------------------------------------
(* One lemma for each step of Stop.                                          *)

\* Where a step of Stop leaves the host: at rest, about to forget, or further on.
ChildNext(h, id) ==
    /\ table'[id.pid].parent = h /\ table'[id.pid].kind = "plane"
    /\ id.born \in {0, table'[id.pid].born}
GivesUp(h) ==
    /\ at' = [at EXCEPT ![h] = "idle"] /\ goal' = [goal EXCEPT ![h] = "rest"]
    /\ found' = [found EXCEPT ![h] = None] /\ grip' = [grip EXCEPT ![h] = None]
IsOver(h) ==
    /\ at' = [at EXCEPT ![h] = "forget"] /\ ~Sees(found[h])
    /\ grip' = [grip EXCEPT ![h] = None] /\ UNCHANGED <<goal, found>>
GoesFurther(h, step) ==
    /\ at' = [at EXCEPT ![h] = step] /\ UNCHANGED <<goal, found>>
    /\ step \in {"dying", "wait"} => ~SeesNext(found[h])
    /\ step = "unasked" => grip[h].child = "held" \/ ~SeesNext(found[h])
    /\ step \in Signalled => grip[h].born # 0
    /\ \/ grip' = grip /\ at[h] # "wait" /\ (grip[h].child = "held" => ChildNext(h, grip[h]))
       \/ step = "wait" /\ grip' = ReapedGrip(h)

LEMMA StopGoesOn ==
    ASSUME IInv, NEW h \in Hosts, at[h] \in Ending, Ages, SameSight,
           \A g \in Hosts \ {h} : Spares(g), table' \in Table,
           wronged' \in SUBSET {"no", "held", "reaped"}, OwnChildIsTheTarget',
           UNCHANGED <<births, files, together, downs>>,
           GivesUp(h) \/ IsOver(h) \/ \E step \in Ending : GoesFurther(h, step)
    PROVE  IInv'
<1>1. TypeOK /\ Hosted(h)
  BY DEF IInv
<1>2. /\ goal[h] = "stop" /\ grip[h] # None /\ found[h] \in Identity /\ found[h] # None
      /\ Names(found[h], grip[h].pid, grip[h].born)
  BY <1>1, HostTypes DEF Hosted, Placed, Working
<1>3. \A g \in Hosts \ {h} : Idles(g)
  BY <1>1 DEF Idles, TypeOK, GivesUp, IsOver, GoesFurther, ReapedGrip
<1>4. FilesNamed'
  BY CopiesAreWritten DEF Copied, FilesNamed, Written, WrittenNext, files
<1>5. WrittenNext(found[h])
  BY <1>2, CopiesAreWritten DEF Copied
<1>6. TypeOK' /\ Hosted(h)' /\ Knows(h)'
  <2>1. CASE GivesUp(h)
    <3>1. at'[h] = "idle" /\ goal'[h] = "rest" /\ found'[h] = None /\ grip'[h] = None
      BY <1>1, <2>1 DEF GivesUp, TypeOK
    <3>2. TypeOK'
      BY <1>1, <2>1 DEF GivesUp, TypeOK, files
    <3>3. Hosted(h)' /\ Knows(h)'
      BY <3>1 DEF Hosted, Named, Placed, Own, Past, Knows, Working, Ending, Signalled
    <3> QED  BY <3>2, <3>3
  <2>2. CASE IsOver(h)
    <3>1. at'[h] = "forget" /\ goal'[h] = "stop" /\ found'[h] = found[h] /\ grip'[h] = None
      BY <1>1, <1>2, <2>2 DEF IsOver, TypeOK
    <3>2. TypeOK'
      BY <1>1, <2>2 DEF IsOver, TypeOK, files, Working
    <3>3. ~SeesNext(found[h])
      <4>1. found[h].pid \in Pids /\ found[h].born \in Nat
        BY <1>1, <1>2, Types
      <4>2. Written(found[h])
        BY <1>1, <1>2 DEF Hosted, Named
      <4> QED  BY <2>2, <4>1, <4>2, IdentitiesStay DEF IInv, IsOver
    <3>4. Named(h)' /\ Past(h)'
      BY <1>5, <3>1, <3>3 DEF Named, Past, Written, WrittenNext, Sees, SeesNext, Runs, RunsIn, RunsNext
    <3>5. Placed(h)' /\ Own(h)' /\ Knows(h)'
      BY <1>2, <3>1 DEF Placed, Own, Knows, Working, Ending, Signalled
    <3> QED  BY <3>2, <3>4, <3>5 DEF Hosted
  <2>3. ASSUME NEW step \in Ending, GoesFurther(h, step)  PROVE TypeOK' /\ Hosted(h)' /\ Knows(h)'
    <3>1. at'[h] = step /\ goal'[h] = "stop" /\ found'[h] = found[h]
      BY <1>1, <1>2, <2>3 DEF GoesFurther, TypeOK
    <3>2. grip[h] \in Handle
      BY <1>1, <1>2 DEF TypeOK
    <3>3. /\ grip'[h] \in Handle
          /\ grip'[h].pid = grip[h].pid /\ grip'[h].born = grip[h].born
          /\ \/ grip'[h] = grip[h] /\ at[h] # "wait"
                /\ (grip[h].child = "held" => ChildNext(h, grip[h]))
             \/ step = "wait" /\ grip'[h].child # "held"
      BY <1>1, <2>3, <3>2 DEF GoesFurther, TypeOK, ReapedGrip, Handle
    <3>4. grip' \in [Hosts -> Handle \cup {None}]
      BY <1>1, <2>3, <3>3 DEF GoesFurther, TypeOK, ReapedGrip
    <3>5. TypeOK'
      BY <1>1, <2>3, <3>4 DEF GoesFurther, TypeOK, files, Working
    <3>6. grip'[h] # None
      <4>1. grip'[h] \in [pid : Pids, born : Nat, child : {"no", "held", "reaped"}]
        BY <1>1, <3>3, Types DEF Handle
      <4> QED  BY <4>1, ProcessAssumption
    <3>7. Named(h)'
      BY <1>2, <1>5, <3>1, <3>3 DEF Named, Written, WrittenNext, Names
    <3>8. Placed(h)'
      <4>1. grip[h].child = "reaped" => at[h] = "wait"
        BY <1>1, <1>2 DEF Hosted, Placed
      <4>2. step \in Signalled => grip'[h].born # 0
        BY <2>3, <3>3 DEF GoesFurther
      <4> QED  BY <1>2, <3>1, <3>3, <3>6, <4>1, <4>2 DEF Placed, Ending, Signalled, Working, Names
    <3>9. Own(h)'
      BY <3>1, <3>3 DEF Own, Ending, Signalled, IsChild, ChildNext
    <3>10. Past(h)'
      BY <2>3, <3>1, <3>3 DEF Past, GoesFurther, Ending, Signalled, Sees, SeesNext, Runs, RunsIn, RunsNext
    <3>11. Knows(h)'
      BY <3>1 DEF Knows, Ending, Signalled
    <3> QED  BY <3>5, <3>7, <3>8, <3>9, <3>10, <3>11 DEF Hosted
  <2> QED  BY <2>1, <2>2, <2>3
<1>7. InTurns'
  BY <1>1, <1>3, <1>6, WorksOn DEF Working, Ending, Signalled, files, TypeOK
<1> QED  BY <1>3, <1>4, <1>6, <1>7, OneHost

\* What does not answer does not run, and is not there once it was reaped.
LEMMA SilentIsOver ==
    ASSUME IInv, NEW h \in Hosts, grip[h] # None, at[h] # "wait", ~Answers(h), table' = Reaped(h),
           NEW id, Names(id, grip[h].pid, grip[h].born)
    PROVE  ~RunsNext(id)
<1>1. TypeOK /\ Hosted(h)
  BY DEF IInv
<1>2. grip[h].child # "reaped" /\ grip[h].pid \in Pids
  BY <1>1, HostTypes DEF Hosted, Placed
<1>3. table[grip[h].pid].kind = "gone" \/ Zombie(h, grip[h].pid)
  BY <1>2 DEF Answers
<1>4. table'[grip[h].pid] = table[grip[h].pid] \/ table'[grip[h].pid] = Gone
  BY <1>1, <1>2 DEF Reaped, TypeOK, Table
<1> QED  BY <1>3, <1>4 DEF Names, RunsNext, Zombie, Gone

LEMMA StopKeeps ==
    ASSUME IInv, NEW h \in Hosts, Stop(h)
    PROVE  IInv'
<1> DEFINE step == IF Answers(h) THEN "same" ELSE "wait"
           id == [pid |-> grip[h].pid, born |-> grip[h].born]
<1>1. /\ grip[h] # None /\ at[h] = "idle" /\ table' = Reaped(h) /\ UNCHANGED <<births, files, wronged, downs>>
      /\ at' = [at EXCEPT ![h] = step] /\ goal' = [goal EXCEPT ![h] = "stop"]
      /\ found' = [found EXCEPT ![h] = id]
      /\ together' = (together \/ \E other \in Hosts \ {h} : at[other] \notin {"idle", "down"})
      /\ grip' = IF Answers(h) THEN grip ELSE ReapedGrip(h)
  BY DEF Stop, Begins
<1>2. TypeOK /\ Hosted(h)
  BY DEF IInv
<1>3. Reaps(h) /\ table' \in Table
  BY <1>1, <1>2, TidyingReaps DEF Tidyings
<1>4. Ages /\ SameSight /\ \A g \in Hosts \ {h} : Spares(g)
  BY <1>2, <1>3, ReapsFacts
<1>5. \A g \in Hosts \ {h} : Idles(g)
  BY <1>1, <1>2 DEF Idles, TypeOK, ReapedGrip
<1>6. grip[h] \in Handle
  BY <1>1, <1>2 DEF TypeOK
<1>7. id \in Identity /\ id # None
  <2>1. id \in [pid : Pids, born : Nat]
    BY <1>6, <1>2, Types DEF Handle
  <2> QED  BY <1>6, <2>1, ProcessAssumption DEF Identity, Handle
<1>8. at'[h] = step /\ goal'[h] = "stop" /\ found'[h] = id
  BY <1>1, <1>2 DEF TypeOK
<1>9. /\ grip'[h] \in Handle
      /\ grip'[h].pid = grip[h].pid /\ grip'[h].born = grip[h].born
      /\ \/ Answers(h) /\ grip'[h] = grip[h]
         \/ ~Answers(h) /\ grip'[h].child # "held"
  BY <1>1, <1>2, <1>6 DEF TypeOK, ReapedGrip, Handle
<1>10. grip' \in [Hosts -> Handle \cup {None}]
  BY <1>1, <1>2, <1>9 DEF TypeOK, ReapedGrip
<1>11. TypeOK'
  <2>1. together' \in BOOLEAN
    BY <1>1
  <2>2. at' \in [Hosts -> Working \cup {"down", "idle"}]
    BY <1>1, <1>2 DEF TypeOK, Working, Ending, Signalled
  <2> QED  BY <1>1, <1>2, <1>3, <1>7, <1>10, <2>1, <2>2 DEF TypeOK, files
<1>12. FilesNamed'
  BY <1>1, <1>4, CopiesAreWritten DEF Copied, FilesNamed, Written, WrittenNext, files
<1>13. Hosted(h)'
  <2>1. WrittenNext(id)
    <3>1. Written(id)
      BY <1>1, <1>2 DEF Hosted, Named, Written
    <3>2. id.pid \in Pids /\ id.born \in Nat
      BY <1>7, <1>2, Types
    <3> QED  BY <1>4, <3>1, <3>2, IdentitiesStay DEF IInv
  <2>2. Named(h)'
    BY <1>8, <1>9, <2>1 DEF Named, Written, WrittenNext
  <2>3. grip'[h] # None
    <3>1. grip'[h] \in [pid : Pids, born : Nat, child : {"no", "held", "reaped"}]
      BY <1>2, <1>9, Types DEF Handle
    <3> QED  BY <3>1, ProcessAssumption
  <2>4. Placed(h)'
    <3>1. grip[h].child # "reaped"
      BY <1>1, <1>2 DEF Hosted, Placed
    <3> QED  BY <1>7, <1>8, <1>9, <2>3, <3>1 DEF Placed, Working, Ending, Signalled, Names
  <2>5. Own(h)'
    <3>1. ASSUME Answers(h)  PROVE table' = table
      BY <1>1, <1>2, <3>1 DEF Answers, Reaped, TypeOK, Table
    <3>2. grip[h].child = "held" => IsChild(h, grip[h])
      BY <1>1, <1>2 DEF Hosted, Own
    <3> QED  BY <1>8, <1>9, <3>1, <3>2 DEF Own, IsChild
  <2>6. Past(h)'
    <3>1. ~Answers(h) => ~RunsNext(id)
      BY <1>1, SilentIsOver DEF Names
    <3> QED  BY <1>8, <3>1 DEF Past, Sees, Runs, RunsIn, RunsNext
  <2> QED  BY <2>2, <2>4, <2>5, <2>6 DEF Hosted
<1>14. InTurns'
  <2> SUFFICES ASSUME ~together'
               PROVE  /\ \A f, g \in Hosts : at'[f] \in Working /\ at'[g] \in Working => f = g
                      /\ \A p \in InSight' : Recorded(p)'
                      /\ \A g \in Hosts : Knows(g)'
    BY DEF InTurns
  <2>1. ~together /\ \A g \in Hosts \ {h} : at[g] \in {"idle", "down"} /\ at'[g] = at[g]
    BY <1>1, <1>5 DEF Idles
  <2>2. \A p \in InSight' : p \in InSight /\ table'[p].born = table[p].born
    BY <1>4 DEF SameSight, InSight, Planes
  <2>3. \A p \in InSight : Recorded(p)
    BY <1>1, <2>1 DEF IInv, InTurns
  <2>4. \A p \in InSight' : Recorded(p)'
    BY <1>1, <2>2, <2>3 DEF Recorded, Names, files
  <2>5. \A g \in Hosts \ {h} : Knows(g)' /\ at'[g] \notin Working
    BY <2>1 DEF Knows, Working, Ending, Signalled
  <2>6. Knows(h)'
    BY <1>8 DEF Knows
  <2> QED  BY <2>4, <2>5, <2>6
<1>15. OwnChildIsTheTarget'
  BY <1>1 DEF IInv, OwnChildIsTheTarget
<1> QED  BY <1>4, <1>5, <1>11, <1>12, <1>13, <1>14, <1>15, OneHost

LEMMA StopsTheSameKeeps ==
    ASSUME IInv, NEW h \in Hosts, StopsTheSame(h)
    PROVE  IInv'
<1>1. at[h] = "same" /\ UNCHANGED <<births, files, histories>>
  BY DEF StopsTheSame
<1>2. TypeOK /\ Hosted(h) /\ grip[h] # None /\ Names(found[h], grip[h].pid, grip[h].born)
  BY <1>1 DEF IInv, Hosted, Placed, Ending, Signalled
<1>3. found[h] \in Identity /\ found[h].pid \in Pids /\ found[h].pid = grip[h].pid
  BY <1>1, <1>2, HostTypes DEF Hosted, Placed, Working, Ending, Identity, Names
<1>4. Reaps(h) /\ table' \in Table /\ (table' = GoesAstray(Tidied(h), found[h]) => ~SeesNext(found[h]))
  <2>1. Tidied(h) \in Tidyings(h) /\ [p \in Pids |-> IF Zombie(h, p) THEN Gone ELSE table[p]] \in Tidyings(h)
    BY DEF Tidyings
  <2>2. \/ table' \in {Tidied(h), [p \in Pids |-> IF Zombie(h, p) THEN Gone ELSE table[p]]}
        \/ table' = GoesAstray(Tidied(h), found[h])
    BY DEF StopsTheSame
  <2> QED  BY <1>1, <1>2, <1>3, <2>1, <2>2, TidyingReaps, AstrayReaps
<1>5. Ages /\ SameSight /\ \A g \in Hosts \ {h} : Spares(g)
  BY <1>2, <1>4, ReapsFacts
<1>6. wronged' \in SUBSET {"no", "held", "reaped"} /\ OwnChildIsTheTarget'
  BY <1>1, <1>2 DEF IInv, TypeOK, OwnChildIsTheTarget, histories
<1>7. GivesUp(h) \/ \E step \in Ending : GoesFurther(h, step)
  <2>1. CASE PsHangs(h) /\ grip' = [grip EXCEPT ![h] = None]
    BY <2>1 DEF PsHangs, Rests, GivesUp
  <2>2. CASE /\ UNCHANGED grip
             /\ \/ Goes(h, "terminate") /\ found[h].born # 0
                \/ /\ Goes(h, "unasked")
                   /\ grip[h].child # "held" => table' = GoesAstray(Tidied(h), found[h])
    <3>1. grip[h].child = "held" => ChildNext(h, grip[h])
      <4>1. grip[h].child = "held" => IsChild(h, grip[h]) /\ Holds(h, grip[h].pid)
        BY <1>2 DEF Hosted, Own, Holds
      <4>2. ASSUME NEW p \in Pids, table[p].parent = h, Holds(h, p)
            PROVE  table'[p].parent = h /\ table'[p].kind = table[p].kind /\ table'[p].born = table[p].born
        <5>1. Tidied(h)[p] = table[p]
          BY <4>2 DEF Tidied
        <5>2. table' = Tidied(h) \/ table' = GoesAstray(Tidied(h), found[h])
          BY <2>2, <1>1, <1>2 DEF StopsTheSame, TypeOK
        <5>3. table[p] \in Entry
          BY <1>2 DEF TypeOK, Table
        <5> QED  BY <4>2, <5>1, <5>2, <5>3 DEF GoesAstray, Entry
      <4> QED  BY <1>3, <4>1, <4>2 DEF IsChild, ChildNext
    <3>2. found[h].born = grip[h].born
      BY <1>2 DEF Names
    <3>3. GoesFurther(h, "terminate") \/ GoesFurther(h, "unasked")
      BY <1>1, <1>4, <2>2, <3>1, <3>2 DEF GoesFurther, Goes, Signalled
    <3> QED  BY <3>3 DEF Ending, Signalled
  <2> QED  BY <2>1, <2>2 DEF StopsTheSame, IsExact
<1> QED  BY <1>1, <1>4, <1>5, <1>6, <1>7, StopGoesOn DEF Ending, Signalled, histories

\* A signal may raise; otherwise what a host started itself is what it signals.
LEMMA SignalKeeps ==
    ASSUME IInv, NEW h \in Hosts, NEW step \in {"grace", "dying"}, at[h] \in {"terminate", "kill"},
           Signal(h, step, step = "dying"), UNCHANGED <<births, files, together, downs>>
    PROVE  IInv'
<1> DEFINE p == grip[h].pid
<1>1. /\ TypeOK /\ Hosted(h) /\ grip[h] # None /\ Names(found[h], p, grip[h].born)
      /\ found[h] \in Identity
  BY HostTypes DEF IInv, Hosted, Placed, Ending, Signalled, Working
<1>2. /\ p \in Pids /\ grip[h].child \in {"no", "held", "reaped"} /\ grip[h].child # "reaped"
      /\ grip[h].born # 0
  BY <1>1, Types DEF Hosted, Placed, Signalled
<1>3. grip[h].child = "held" => IsChild(h, grip[h])
  BY <1>1 DEF Hosted, Own
<1>4. \/ table' = table
      \/ step = "dying" /\ table' = [table EXCEPT ![p].fate = "killed"]
  BY DEF Signal
<1>5. Reaps(h) /\ table' \in Table
  <2>1. table \in Table /\ table[p] \in Entry
    BY <1>1, <1>2 DEF TypeOK, Table
  <2>2. CASE table' = table
    BY <2>1, <2>2 DEF Reaps
  <2>3. CASE table' = [table EXCEPT ![p].fate = "killed"]
    <3>1. table'[p] = [table[p] EXCEPT !.fate = "killed"] /\ \A q \in Pids \ {p} : table'[q] = table[q]
      BY <1>2, <2>1, <2>3 DEF Table
    <3>2. table'[p] \in Entry /\ Dims(p)
      BY <2>1, <3>1 DEF Entry, Dims
    <3>3. table' \in Table
      BY <2>1, <2>3, <3>1, <3>2 DEF Table
    <3> QED  BY <3>1, <3>2, <3>3 DEF Reaps
  <2> QED  BY <1>4, <2>2, <2>3
<1>8. Ages /\ SameSight /\ (\A g \in Hosts \ {h} : Spares(g))
  BY <1>1, <1>5, ReapsFacts
<1>9. \A q \in Pids : table'[q].born = table[q].born /\ table'[q].parent = table[q].parent
                     /\ table'[q].kind = table[q].kind
  <2>1. CASE table' = [table EXCEPT ![p].fate = "killed"]
    <3>1. \A q \in Pids : table[q] \in Entry
      BY <1>1 DEF TypeOK, Table
    <3> QED  BY <1>1, <1>2, <2>1, <3>1 DEF TypeOK, Table, Entry
  <2> QED  BY <1>4, <2>1
<1>6. wronged' \in SUBSET {"no", "held", "reaped"} /\ OwnChildIsTheTarget'
  <2>1. wronged' = wronged \/ (wronged' = wronged \cup {grip[h].child} /\ grip[h].child # "held")
    BY <1>2, <1>3 DEF Signal, IsChild
  <2> QED  BY <1>1, <1>2, <2>1 DEF IInv, TypeOK, OwnChildIsTheTarget
<1>7. GivesUp(h) \/ GoesFurther(h, step)
  <2>1. CASE Rests(h, "idle") /\ grip' = [grip EXCEPT ![h] = None]
    BY <2>1 DEF Rests, GivesUp
  <2>2. CASE Goes(h, step) /\ UNCHANGED grip
             /\ table' = IF step = "dying" /\ table[p].alive THEN [table EXCEPT ![p].fate = "killed"] ELSE table
    <3>1. grip[h].child = "held" => ChildNext(h, grip[h])
      BY <1>2, <1>3, <1>9 DEF IsChild, ChildNext
    <3>2. step = "dying" => (table'[p].alive => table'[p].fate # "well")
      <4>1. table[p] \in Entry /\ table \in [Pids -> Entry]
        BY <1>1, <1>2 DEF TypeOK, Table
      <4> QED  BY <1>2, <2>2, <4>1 DEF Entry
    <3>3. step = "dying" => ~SeesNext(found[h])
      BY <1>1, <3>2 DEF SeesNext, RunsNext, Names
    <3> QED  BY <1>2, <2>2, <3>1, <3>3 DEF GoesFurther, Goes, Signalled
  <2> QED  BY <2>1, <2>2 DEF Signal
<1> QED  BY <1>5, <1>6, <1>7, <1>8, StopGoesOn DEF Ending, Signalled

\* Waiting for the end: either it does not answer any more, or the grace is over.
LEMMA WaitingKeeps ==
    ASSUME IInv, NEW h \in Hosts, ItEnded(h) \/ GraceIsOver(h) \/ Wait(h)
    PROVE  IInv'
<1>1. at[h] \in {"grace", "dying", "wait", "unasked"} /\ UNCHANGED <<births, files, histories>>
  BY DEF ItEnded, GraceIsOver, Wait
<1>2. /\ TypeOK /\ Hosted(h) /\ grip[h] # None /\ Names(found[h], grip[h].pid, grip[h].born)
      /\ found[h] \in Identity /\ goal[h] = "stop"
  BY <1>1, HostTypes DEF IInv, Hosted, Placed, Ending, Signalled, Working
<1>3. table' \in {table, Reaped(h)}
  BY DEF ItEnded, GraceIsOver, Wait, LetGo
<1>4. Reaps(h) /\ table' \in Table
  BY <1>1, <1>2, <1>3, TidyingReaps DEF Tidyings
<1>5. Ages /\ SameSight /\ \A g \in Hosts \ {h} : Spares(g)
  BY <1>2, <1>4, ReapsFacts
<1>6. wronged' \in SUBSET {"no", "held", "reaped"} /\ OwnChildIsTheTarget'
  BY <1>1, <1>2 DEF IInv, TypeOK, OwnChildIsTheTarget, histories
<1>7. IsOver(h) \/ \E step \in Ending : GoesFurther(h, step)
  <2>1. CASE ItEnded(h)
    <3>1. ~RunsNext(found[h])
      BY <1>2, <2>1, SilentIsOver DEF ItEnded
    <3>2. GoesFurther(h, "wait")
      BY <2>1, <3>1 DEF ItEnded, AfterEnd, Goes, GoesFurther, SeesNext, Signalled
    <3> QED  BY <3>2 DEF Ending, Signalled
  <2>2. CASE GraceIsOver(h)
    <3>1. grip[h].child = "held" => ChildNext(h, grip[h])
      BY <1>2, <2>2 DEF GraceIsOver, Hosted, Own, IsChild, ChildNext
    <3>2. at[h] = "dying" => ~SeesNext(found[h])
      BY <1>2, <2>2 DEF GraceIsOver, Hosted, Past, Sees, SeesNext, Runs, RunsIn, RunsNext
    <3>3. GoesFurther(h, IF at[h] = "grace" THEN "kill" ELSE "wait")
      <4>1. grip[h].born # 0
        BY <1>2, <2>2 DEF GraceIsOver, Hosted, Placed, Signalled
      <4> QED  BY <2>2, <3>1, <3>2, <4>1 DEF GraceIsOver, AfterGrace, Goes, GoesFurther
    <3> QED  BY <3>3 DEF Ending, Signalled
  <2>3. CASE Wait(h)
    <3>1. ~Sees(found[h])
      <4>1. CASE grip[h].child = "held"
        BY <1>2, <2>3, <4>1 DEF Wait, Sees, Runs, RunsIn, Names
      <4>2. CASE grip[h].child # "held"
        BY <1>2, <2>3, <4>2 DEF Wait, Hosted, Past
      <4> QED  BY <4>1, <4>2
    <3> QED  BY <2>3, <3>1 DEF Wait, LetGo, Goes, IsOver
  <2> QED  BY <2>1, <2>2, <2>3
<1> QED  BY <1>1, <1>4, <1>5, <1>6, <1>7, StopGoesOn DEF Ending, Signalled, histories
-----------------------------------------------------------------------------
LEMMA InitIInv == Init => IInv
<1> SUFFICES ASSUME Init  PROVE IInv
  OBVIOUS
<1>1. births = 0 /\ 0 \in 0..MaxBorn /\ 0 \in 0..MaxDowns
  BY ProcessAssumption DEF Init
<1>2. table \in Table
  <2>1. Gone \in Entry
    BY <1>1 DEF Gone, Entry
  <2> QED  BY <2>1 DEF Init, Table
<1>3. TypeOK
  BY <1>1, <1>2 DEF Init, TypeOK
<1>4. Aged
  BY <1>1 DEF Init, Aged, Gone
<1>5. FilesNamed /\ OwnChildIsTheTarget
  BY DEF Init, FilesNamed, OwnChildIsTheTarget
<1>6. ASSUME NEW h \in Hosts  PROVE Hosted(h)
  <2>1. at[h] = "down" /\ goal[h] = "rest" /\ found[h] = None /\ grip[h] = None
    BY <1>6 DEF Init
  <2> QED  BY <2>1 DEF Hosted, Named, Placed, Own, Past, Working, Ending, Signalled
<1>7. InTurns
  <2>1. InSight = {}
    BY DEF Init, InSight, Planes, Gone
  <2>2. \A h \in Hosts : at[h] = "down"
    BY DEF Init
  <2> QED  BY <2>1, <2>2 DEF InTurns, Knows, Working, Ending, Signalled
<1> QED  BY <1>3, <1>4, <1>5, <1>6, <1>7 DEF IInv

LEMMA NextKeeps == IInv /\ [Next]_vars => IInv'
<1> SUFFICES ASSUME IInv, [Next]_vars  PROVE IInv'
  OBVIOUS
<1>1. ASSUME NEW h \in Hosts, Opening(h)  PROVE IInv'
  BY <1>1, ReadRecordKeeps, CheckRecordKeeps, ForgetKeeps, UnlinkKeeps, SpawnKeeps, StageKeeps,
     ReplaceKeeps DEF Opening
<1>2. ASSUME NEW h \in Hosts, Stopping(h)  PROVE IInv'
  <2>1. CASE Terminate(h)
    BY <2>1, SignalKeeps DEF Terminate
  <2>2. CASE Kill(h)
    BY <2>2, SignalKeeps DEF Kill
  <2> QED  BY <1>2, <2>1, <2>2, StopKeeps, StopsTheSameKeeps, WaitingKeeps DEF Stopping
<1>3. ASSUME NEW h \in Hosts, NoticeExit(h)  PROVE IInv'
  BY <1>3, LettingGoKeeps DEF NoticeExit
<1>4. ASSUME NEW h \in Hosts, Detach(h)  PROVE IInv'
  BY <1>4, LettingGoKeeps DEF Detach, LetGo
<1>5. CASE UNCHANGED vars
  <2>1. births' = births /\ table' = table /\ InSight' = InSight
    BY <1>5 DEF vars, InSight, Planes
  <2>2. Ages /\ SameSight /\ \A g \in Hosts : Spares(g)
    BY <2>1, Types DEF IInv, Ages, Fades, SameSight, Spares, Keeps
  <2> QED  BY <1>5, <2>1, <2>2, NobodyActs DEF vars, IInv, TypeOK
<1> QED  BY <1>1, <1>2, <1>3, <1>4, <1>5, DownKeeps, UpKeeps, OthersKeep DEF Next

\* Hosts, PIDs and start times belong together as IInv says, in every behaviour.
THEOREM ProcessInvariant == Spec => []IInv
BY InitIInv, NextKeeps, PTL DEF Spec

\* The process table, the files and what each host holds always have their shapes
\* (process.py:97-209).
THEOREM ProcessTypes == Spec => []TypeOK
<1>1. IInv => TypeOK
  BY DEF IInv
<1> QED  BY <1>1, ProcessInvariant, PTL

\* Whoever reuses PIDs, a host never signals anything but the Realtime Plane it started
\* itself while it has it as its child (process.py:151, 172-185).
THEOREM OwnChildIsAlwaysTheTarget == Spec => []OwnChildIsTheTarget
<1>1. IInv => OwnChildIsTheTarget
  BY DEF IInv
<1> QED  BY <1>1, ProcessInvariant, PTL

\* For any number of hosts and of PIDs: what Stop is done with has ended, or was killed and
\* ends, unless `ps' told no start time of a process that was only found (process.py:172-186).
THEOREM StoppingAlwaysEnds == Spec => []StopEndsIt
<1>1. ASSUME IInv, NEW h \in Hosts, at[h] \in {"forget", "unlink"}, Runs(found[h])
      PROVE  table[found[h].pid].fate # "well"
  BY <1>1 DEF IInv, Hosted, Past, Sees
<1>2. IInv => StopEndsIt
  BY <1>1 DEF StopEndsIt
<1> QED  BY <1>2, ProcessInvariant, PTL

\* What runs is found by the next host, for any number of hosts that take turns
\* (process.py:5-6).
LEMMA RunningIsKnown ==
    ASSUME IInv, ~together, NEW p \in InSight
    PROVE  \/ Recorded(p)
           \/ \E h \in Hosts : at[h] \in {"stage", "replace"} /\ found[h].pid = p
<1>1. ASSUME NEW h \in Hosts, at[h] \in {"stage", "replace"}  PROVE found[h].pid = p
  BY <1>1 DEF IInv, InTurns, Knows
<1> QED  BY <1>1 DEF IInv, InTurns

\* The state file names what runs (process.py:5-6), for any number of hosts that take turns.
THEOREM RunningIsAlwaysRecorded == Spec => []RunningIsRecorded
<1>1. ASSUME IInv  PROVE RunningIsRecorded
  <2> SUFFICES ASSUME ~together, NEW p \in InSight
               PROVE  \/ record = [pid |-> p, born |-> table[p].born]
                      \/ \E h \in Hosts : at[h] \in {"stage", "replace"} /\ found[h].pid = p
    BY DEF RunningIsRecorded
  <2>1. Recorded(p) => record = [pid |-> p, born |-> table[p].born]
    <3>1. record # None => record \in Identity
      BY <1>1 DEF IInv, TypeOK
    <3> QED  BY <3>1 DEF Recorded, Names, Identity
  <2> QED  BY <1>1, <2>1, RunningIsKnown
<1> QED  BY <1>1, ProcessInvariant, PTL

\* One user has one Realtime Plane (process.py:4-7), for any number of hosts that take turns.
THEOREM AlwaysOnePlane == Spec => []OnePlane
<1>1. ASSUME IInv  PROVE OnePlane
  <2> SUFFICES ASSUME ~together  PROVE Cardinality(InSight) <= 1
    BY DEF OnePlane
  <2>1. ASSUME NEW p \in InSight, NEW q \in InSight  PROVE p = q
    <3>1. CASE \E h \in Hosts : at[h] \in {"stage", "replace"}
      <4>1. PICK h \in Hosts : at[h] \in {"stage", "replace"}
        BY <3>1
      <4>2. InSight \subseteq {found[h].pid}
        BY <1>1, <4>1 DEF IInv, InTurns, Knows
      <4> QED  BY <4>2
    <3>2. CASE ~\E h \in Hosts : at[h] \in {"stage", "replace"}
      BY <1>1, <3>2, RunningIsKnown DEF Recorded, Names
    <3> QED  BY <3>1, <3>2
  <2>2. CASE InSight = {}
    BY <2>2, FS_EmptySet
  <2>3. CASE InSight # {}
    <3>1. PICK p \in InSight : TRUE
      BY <2>3
    <3>2. InSight = {p}
      BY <2>1
    <3> QED  BY <3>2, FS_Singleton
  <2> QED  BY <2>2, <2>3
<1> QED  BY <1>1, ProcessInvariant, PTL

\* A link takes hold only of what `ps' just told exactly the recorded start time of, or of
\* the child it just started.
NewlyFound(h) ==
    /\ grip'[h].child = "no" /\ grip'[h].born # 0
    /\ grip'[h].born \in StartTime(Tidied(h), grip'[h].pid) /\ table' = Tidied(h)
NewlyStarted(h) == grip'[h].child = "held"
LEMMA NewGrip ==
    ASSUME IInv, Next, NEW h \in Hosts, grip[h] = None, grip'[h] # None
    PROVE  NewlyFound(h) \/ NewlyStarted(h)
<1>1. grip \in [Hosts -> Handle \cup {None}]
  BY DEF IInv, TypeOK
<1>2. ASSUME NEW g \in Hosts, Opening(g)
      PROVE  NewlyFound(h) \/ NewlyStarted(h)
  <2>1. CASE CheckRecord(g)
    <3>1. PICK told \in StartTime(Tidied(g), found[g].pid) :
            /\ told # 0 /\ told = found[g].born /\ table' = Tidied(g)
            /\ grip' = [grip EXCEPT ![g] = Identified(found[g], "no")]
      BY <1>1, <2>1 DEF CheckRecord, IsExact
    <3>2. g = h
      BY <1>1, <3>1
    <3>3. /\ grip'[h].child = "no" /\ grip'[h].born = found[h].born
          /\ grip'[h].pid = found[h].pid
      BY <1>1, <3>1, <3>2 DEF Identified
    <3> QED  BY <3>1, <3>2, <3>3 DEF NewlyFound
  <2>2. CASE Replace(g)
    BY <1>1, <2>2 DEF Replace, Identified, NewlyStarted
  <2>3. CASE ~CheckRecord(g) /\ ~Replace(g)
    <3>1. grip' = grip
      BY <1>2, <2>3 DEF Opening, ReadRecord, Forget, Unlink, Spawn, Stage
    <3> QED  BY <3>1
  <2> QED  BY <2>1, <2>2, <2>3
<1>3. ASSUME NEW g \in Hosts, Stopping(g)  PROVE FALSE
  <2>1. Placed(g)
    BY DEF IInv, Hosted
  <2>2. grip[g] # None
    BY <1>3, <2>1 DEF Stopping, Stop, StopsTheSame, Terminate, ItEnded, GraceIsOver, Kill, Wait,
                      Placed, Ending, Signalled
  <2>3. grip'[h] = grip[h]
    BY <1>1, <1>3, <2>2 DEF Stopping, Stop, StopsTheSame, Terminate, ItEnded, GraceIsOver, Kill,
                            Wait, Signal, LetGo, ReapedGrip
  <2> QED  BY <2>3
<1>4. ASSUME NEW g \in Hosts, NoticeExit(g) \/ Detach(g) \/ Down(g) \/ Up(g)  PROVE FALSE
  BY <1>1, <1>4 DEF NoticeExit, Detach, LetGo, Down, Up
<1>5. ASSUME NEW p \in Pids, PlaneExits(p) \/ StrangerStarts(p) \/ StrangerExits(p)  PROVE FALSE
  BY <1>5 DEF PlaneExits, StrangerStarts, StrangerExits, hostVars
<1> QED  BY <1>2, <1>3, <1>4, <1>5 DEF Next

\* What a link takes hold of was started as a Realtime Plane, whatever `ps' leaves untold and
\* whoever got its PID later (process.py:199-209, 233), for any number of hosts and PIDs.
THEOREM AlwaysAttachesToAPlane == Spec => AttachesToAPlane
<1>1. ASSUME IInv, IInv', [Next]_vars, NEW h \in Hosts, grip[h] = None, grip'[h] # None
      PROVE  /\ table'[grip'[h].pid].kind = "plane"
             /\ IF grip'[h].child = "held" THEN table'[grip'[h].pid].parent = h
                ELSE table'[grip'[h].pid].born = grip'[h].born
  <2>1. Next
    BY <1>1 DEF vars, hostVars
  <2>2. Written(grip[h])' /\ Own(h)' /\ grip'[h] \in Handle
    BY <1>1 DEF IInv, Hosted, Named, TypeOK
  <2>3. CASE NewlyStarted(h)
    BY <1>1, <2>2, <2>3 DEF NewlyStarted, Own, IsChild
  <2>4. CASE NewlyFound(h)
    <3>1. table'[grip'[h].pid].born = grip'[h].born
      BY <2>4 DEF NewlyFound, StartTime
    <3> QED  BY <2>2, <2>4, <3>1 DEF NewlyFound, Written
  <2> QED  BY <1>1, <2>1, <2>3, <2>4, NewGrip
<1>2. IInv /\ IInv' /\ [Next]_vars =>
        [\A h \in Hosts : grip[h] = None /\ grip'[h] # None =>
            LET p == grip'[h].pid IN
            /\ table'[p].kind = "plane"
            /\ IF grip'[h].child = "held" THEN table'[p].parent = h
               ELSE table'[p].born = grip'[h].born]_vars
  BY <1>1
<1> QED  BY <1>2, ProcessInvariant, PTL DEF Spec, AttachesToAPlane
=============================================================================
