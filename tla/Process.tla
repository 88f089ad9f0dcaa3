------------------------------- MODULE Process -------------------------------
(***************************************************************************)
(* Starting, finding and stopping the Realtime Plane process                *)
(* (extension/realtime_plane/process.py), as the links of one user's hosts  *)
(* do it (link.py: Reattach, Open, Advance's watch, Detach, Stop).          *)
(*                                                                          *)
(* What the hosts share is outside them all: the system's process table,    *)
(* where a PID is free again once its process was reaped, and the state     *)
(* file.  A host's operation is a row of system calls with everything else  *)
(* between them, so it is a row of steps here and at[h] says which is next. *)
(*                                                                          *)
(* An operator whose name starts with Slip is a mistake the code could have *)
(* made in the definition that follows it, which some run must notice.      *)
(***************************************************************************)
EXTENDS Integers, FiniteSets

CONSTANTS
    Hosts,          \* programs of one user that enable the extension
    Pids,           \* process identities the system hands out again and again
    None,
    MaxBorn,        \* bound: processes ever started
    MaxDowns        \* bound: how often a host ends

ASSUME ProcessAssumption ==
    /\ Hosts \cap Pids = {} /\ None \notin Hosts \cup Pids
    /\ None \notin [pid : Pids, born : Nat]
    /\ None \notin [pid : Pids, born : Nat, child : {"no", "held", "reaped"}]
    /\ MaxBorn \in Nat /\ MaxDowns \in Nat

VARIABLES
    table,          \* the system's process table
    births,         \* processes ever started; the count is the start time `ps' tells
    record,         \* the state file
    staged,         \* the file beside it that Start renames
    at,             \* the step each host is at
    goal,           \* what that step is part of
    found,          \* the record each host read or is about to write
    grip,           \* its RealtimePlaneProcess
    wronged,        \* history: how a process was signalled that was not the one meant
    together,       \* history: two hosts were at work at once
    downs

files == <<record, staged>>
hostVars == <<at, goal, found, grip>>
histories == <<wronged, together, downs>>
vars == <<table, births, files, hostVars, histories>>

\* A child that ended is a zombie, not alive, until its parent reaps it.  What is killed
\* ends some time later.  Astray is history: a Realtime Plane that runs and that the hosts
\* lost, for a reason that the step says.
Gone == [kind |-> "gone", born |-> 0, parent |-> None, alive |-> FALSE, fate |-> "well"]
Born(kind, parent) ==
    [kind |-> kind, born |-> births + 1, parent |-> parent, alive |-> TRUE, fate |-> "well"]

\* The very process of an identity runs as a Realtime Plane.
RunsIn(processes, id) ==
    LET process == processes[id.pid] IN
    process.kind = "plane" /\ process.born = id.born /\ process.alive
Runs(id) == RunsIn(table, id)
GoesAstray(processes, id) ==
    [p \in Pids |->
        IF p = id.pid /\ RunsIn(processes, id) /\ processes[p].fate = "well"
        THEN [processes[p] EXCEPT !.fate = "astray"] ELSE processes[p]]

Init ==
    /\ table = [p \in Pids |-> Gone] /\ births = 0
    /\ record = None /\ staged = None
    /\ at = [h \in Hosts |-> "down"] /\ goal = [h \in Hosts |-> "rest"]
    /\ found = [h \in Hosts |-> None] /\ grip = [h \in Hosts |-> None]
    /\ wronged = {} /\ together = FALSE /\ downs = 0
-----------------------------------------------------------------------------
\* Looking at a process.

\* _startTime: what `ps' may tell of a PID.  It may fail, or print nothing, for a process
\* that runs too.  No start time, and the empty one that Start records for it, are 0.
StartTime(processes, pid) == {0} \cup {processes[pid].born}

\* Popen objects that hold their child: the link's, or the one Start is about to return.
Holds(h, p) ==
    \/ grip[h] # None /\ grip[h].child = "held" /\ grip[h].pid = p
    \/ at[h] \in {"stage", "replace"} /\ found[h].pid = p

\* Every Popen, also the one that runs `ps', first reaps the children whose own Popen
\* was let go: this host's zombies that nothing holds.
Zombie(h, p) == table[p].parent = h /\ ~table[p].alive
Tidied(h) == [p \in Pids |-> IF Zombie(h, p) /\ ~Holds(h, p) THEN Gone ELSE table[p]]

\* A child whose Popen was let go is not waited for, only signalled.
SlipAnswers(h) ==
    LET process == table[grip[h].pid] IN
    /\ grip[h].child # "reaped" /\ process.kind # "gone"
    /\ grip[h].child = "held" => ~Zombie(h, grip[h].pid)
\* Alive: what it answers, and what it leaves of the process.  A zombie of another
\* parent answers signals.
Answers(h) ==
    LET process == table[grip[h].pid] IN
    /\ grip[h].child # "reaped" /\ process.kind # "gone"
    /\ ~Zombie(h, grip[h].pid)
Reaped(h) ==
    LET p == grip[h].pid IN
    [table EXCEPT ![p] = IF Zombie(h, p) /\ grip[h].child # "reaped" THEN Gone ELSE @]
ReapedGrip(h) == [grip EXCEPT ![h].child = IF @ = "held" THEN "reaped" ELSE @]

\* Letting go of a RealtimePlaneProcess: a Popen that is let go reaps its child if that ended.
Identified(identity, child) == [pid |-> identity.pid, born |-> identity.born, child |-> child]
LetGo(h) ==
    /\ table' = IF grip[h].child = "held" THEN Reaped(h) ELSE table
    /\ grip' = [grip EXCEPT ![h] = None]

Goes(h, step) == at' = [at EXCEPT ![h] = step] /\ UNCHANGED <<goal, found>>
Rests(h, step) ==
    /\ at' = [at EXCEPT ![h] = step]
    /\ goal' = [goal EXCEPT ![h] = "rest"] /\ found' = [found EXCEPT ![h] = None]
\* `ps' takes longer than its five seconds: TimeoutExpired ends the operation.
PsHangs(h) == Rests(h, "idle")
Begins(h, step, what, identity) ==
    /\ at[h] = "idle" /\ at' = [at EXCEPT ![h] = step]
    /\ goal' = [goal EXCEPT ![h] = what] /\ found' = [found EXCEPT ![h] = identity]
    /\ together' = (together \/ \E other \in Hosts \ {h} : at[other] \notin {"idle", "down"})
-----------------------------------------------------------------------------
\* Reattach and Open, called by a host whose link holds no process.  (The button
\* that opens is only there then, and a link is new when the add-on is enabled.)

\* Attach reads the state file.
ReadRecord(h, what) ==
    /\ grip[h] = None
    /\ \/ record = None /\ what = "open" /\ Begins(h, "spawn", what, None)
       \/ record # None /\ Begins(h, "check", what, record)
    /\ UNCHANGED <<table, births, files, grip, wronged, downs>>

\* Any process with the recorded PID will do.
SlipIsExact(told, r) == told # 0
\* A record without a start time is matched by a `ps' that tells none.
SlipIsExactOrEmpty(told, r) == told = r.born
\* It is that exact process.
IsExact(told, r) == told # 0 /\ told = r.born

\* Told no start time of a process that runs, Attach forgets it.
CheckRecord(h) ==
    /\ at[h] = "check"
    /\ \/ \E told \in StartTime(Tidied(h), found[h].pid) :
            \/ /\ IsExact(told, found[h])
               /\ table' = Tidied(h)
               /\ grip' = [grip EXCEPT ![h] = Identified(found[h], "no")]
               /\ Rests(h, "idle")
            \/ /\ ~IsExact(told, found[h])
               /\ table' = GoesAstray(Tidied(h), found[h])
               /\ Goes(h, "forget") /\ UNCHANGED grip
       \/ PsHangs(h) /\ table' = Tidied(h) /\ UNCHANGED grip
    /\ UNCHANGED <<births, files, histories>>

\* The state file is removed whatever it names.
SlipStillNames(pid) == record # None
StillNames(pid) == record # None /\ record.pid = pid

\* _forget: read, then unlink.
Forgotten(h) == IF goal[h] = "open" THEN Goes(h, "spawn") ELSE Rests(h, "idle")
Forget(h) ==
    /\ at[h] = "forget"
    /\ IF StillNames(found[h].pid) THEN Goes(h, "unlink") ELSE Forgotten(h)
    /\ UNCHANGED <<table, births, files, grip, histories>>
\* The record it removes may be a newer process's that has the same PID.
Unlink(h) ==
    /\ at[h] = "unlink" /\ Forgotten(h)
    /\ record' = None
    /\ table' = IF record \notin {None, found[h]} /\ record.pid = found[h].pid
                THEN GoesAstray(table, record) ELSE table
    /\ UNCHANGED <<births, staged, grip, histories>>

RecordOf(pid, told) == [pid |-> pid, born |-> told]

\* Start: run the program, in a session of its own, and ask for its start time.  It may be
\* impossible to run it; if `ps' hangs nothing records the child, and if `ps' tells no
\* start time the record has none, by which nobody finds it.
Spawn(h) ==
    /\ at[h] = "spawn"
    /\ \/ /\ births < MaxBorn /\ births' = births + 1
          /\ \E p \in Pids :
               LET started == [Tidied(h) EXCEPT ![p] = Born("plane", h)]
                   lost == GoesAstray(started, RecordOf(p, births + 1)) IN
               /\ Tidied(h)[p].kind = "gone"
               /\ \/ \E told \in StartTime(started, p) :
                       /\ table' = IF told = 0 THEN lost ELSE started
                       /\ found' = [found EXCEPT ![h] = RecordOf(p, told)]
                       /\ at' = [at EXCEPT ![h] = "stage"] /\ UNCHANGED goal
                  \/ PsHangs(h) /\ table' = lost
       \/ table' = Tidied(h) /\ Rests(h, "idle") /\ UNCHANGED births
    /\ UNCHANGED <<files, grip, histories>>

Stage(h) ==
    /\ at[h] = "stage" /\ Goes(h, "replace")
    /\ staged' = found[h]
    /\ UNCHANGED <<table, births, record, grip, histories>>

\* The rename raises when another host has renamed the staged file already; then
\* Start lets go of a child nothing records.
Replace(h) ==
    /\ at[h] = "replace" /\ Rests(h, "idle")
    /\ \/ /\ staged # None
          /\ record' = staged /\ staged' = None
          /\ grip' = [grip EXCEPT ![h] = Identified(found[h], "held")]
          /\ UNCHANGED table
       \/ /\ staged = None
          /\ table' = [table EXCEPT ![found[h].pid] = IF @.alive THEN @ ELSE Gone]
          /\ UNCHANGED <<files, grip>>
    /\ UNCHANGED <<births, histories>>
-----------------------------------------------------------------------------
\* The link watches its process on every turn of the timer, and lets go of it when
\* the host disables the add-on or quits.

NoticeExit(h) ==
    /\ at[h] = "idle" /\ grip[h] # None /\ ~Answers(h)
    /\ table' = Reaped(h) /\ grip' = [grip EXCEPT ![h] = None]
    /\ UNCHANGED <<births, files, at, goal, found, histories>>

Detach(h) ==
    /\ at[h] = "idle" /\ grip[h] # None
    /\ LetGo(h)
    /\ UNCHANGED <<births, files, at, goal, found, histories>>
-----------------------------------------------------------------------------
\* Stop: end the process, politely first, and forget it.

Stop(h) ==
    /\ grip[h] # None
    /\ Begins(h, IF Answers(h) THEN "same" ELSE "wait", "stop",
              [pid |-> grip[h].pid, born |-> grip[h].born])
    /\ table' = Reaped(h)
    /\ grip' = IF Answers(h) THEN grip ELSE ReapedGrip(h)
    /\ UNCHANGED <<births, files, wronged, downs>>

\* Not told the start time it knows, Stop signals nothing: it goes on to forget a process
\* it found, and to wait for its own child, whether that runs or not.
StopsTheSame(h) ==
    /\ at[h] = "same"
    /\ \/ \E told \in StartTime(Tidied(h), found[h].pid) :
            /\ UNCHANGED grip
            /\ \/ /\ IsExact(told, found[h])
                  /\ Goes(h, "terminate") /\ table' = Tidied(h)
               \/ /\ ~IsExact(told, found[h])
                  /\ Goes(h, "unasked")
                  /\ table' = IF grip[h].child = "held" THEN Tidied(h)
                              ELSE GoesAstray(Tidied(h), found[h])
       \/ /\ PsHangs(h) /\ grip' = [grip EXCEPT ![h] = None]
          /\ table' = [p \in Pids |-> IF Zombie(h, p) THEN Gone ELSE table[p]]
    /\ UNCHANGED <<births, files, histories>>

\* A process that ends leaves a zombie to a parent that is still there.
Ended(p) == [table EXCEPT ![p] = IF @.parent = None THEN Gone ELSE [@ EXCEPT !.alive = FALSE]]

\* Signal the PID.  No process has it: the exception leaves Stop.  What cannot be ignored
\* ends the process, but not at once.
Signal(h, step, fatal) ==
    LET p == grip[h].pid IN
    \/ /\ table[p].kind = "gone"
       /\ Rests(h, "idle") /\ grip' = [grip EXCEPT ![h] = None]
       /\ UNCHANGED <<table, wronged>>
    \/ /\ table[p].kind # "gone"
       /\ Goes(h, step) /\ UNCHANGED grip
       /\ table' = IF fatal /\ table[p].alive THEN [table EXCEPT ![p].fate = "killed"] ELSE table
       /\ wronged' = IF table[p].born # grip[h].born THEN wronged \cup {grip[h].child} ELSE wronged

\* SIGTERM asks; the program may ignore it.
Terminate(h) ==
    /\ at[h] = "terminate" /\ Signal(h, "grace", FALSE)
    /\ UNCHANGED <<births, files, together, downs>>

\* It is killed without asking again whether it still answers.
SlipAfterEnd(step) == IF step = "grace" THEN "kill" ELSE "wait"
AfterEnd(step) == "wait"
\* Waiting until it does not answer, or the grace is over; also what was killed has one.
ItEnded(h) ==
    /\ at[h] \in {"grace", "dying"} /\ ~Answers(h)
    /\ Goes(h, AfterEnd(at[h])) /\ table' = Reaped(h) /\ grip' = ReapedGrip(h)
    /\ UNCHANGED <<births, files, histories>>
\* A program that ignores the request is left running.
SlipAfterGrace == "wait"
AfterGrace == "kill"
GraceIsOver(h) ==
    /\ at[h] \in {"grace", "dying"} /\ Answers(h)
    /\ Goes(h, IF at[h] = "grace" THEN AfterGrace ELSE "wait")
    /\ UNCHANGED <<table, births, files, grip, histories>>

Kill(h) ==
    /\ at[h] = "kill" /\ Signal(h, "dying", TRUE)
    /\ UNCHANGED <<births, files, together, downs>>

\* A host that started the process waits for its own child without a limit.
Wait(h) ==
    /\ at[h] \in {"wait", "unasked"}
    /\ grip[h].child = "held" => ~table[grip[h].pid].alive
    /\ LetGo(h) /\ Goes(h, "forget")
    /\ UNCHANGED <<births, files, histories>>
-----------------------------------------------------------------------------
\* A host quits or crashes anywhere; what it started goes on, with the system as its
\* parent, which reaps it.  Another host, or the same again, starts later.

Down(h) ==
    LET processes == IF at[h] \in {"stage", "replace"} THEN GoesAstray(table, found[h]) ELSE table IN
    /\ at[h] # "down" /\ downs < MaxDowns
    /\ downs' = downs + 1
    /\ table' = [p \in Pids |->
         IF table[p].parent # h THEN table[p]
         ELSE IF table[p].alive THEN [processes[p] EXCEPT !.parent = None] ELSE Gone]
    /\ Rests(h, "down") /\ grip' = [grip EXCEPT ![h] = None]
    /\ UNCHANGED <<births, files, wronged, together>>

Up(h) ==
    /\ at[h] = "down" /\ Goes(h, "idle")
    /\ UNCHANGED <<table, births, files, grip, histories>>

\* The Realtime Plane exits: a person closes it, it obeys, it crashes.
PlaneExits(p) ==
    /\ table[p].kind = "plane" /\ table[p].alive
    /\ table' = Ended(p)
    /\ UNCHANGED <<births, files, hostVars, histories>>

\* Other programs come and go.
StrangerStarts(p) ==
    /\ table[p].kind = "gone" /\ births < MaxBorn
    /\ table' = [table EXCEPT ![p] = Born("stranger", None)] /\ births' = births + 1
    /\ UNCHANGED <<files, hostVars, histories>>
StrangerExits(p) ==
    /\ table[p].kind = "stranger"
    /\ table' = Ended(p)
    /\ UNCHANGED <<births, files, hostVars, histories>>
-----------------------------------------------------------------------------
Opening(h) ==
    \/ \E what \in {"open", "reattach"} : ReadRecord(h, what)
    \/ CheckRecord(h) \/ Forget(h) \/ Unlink(h) \/ Spawn(h) \/ Stage(h) \/ Replace(h)
Stopping(h) ==
    \/ Stop(h) \/ StopsTheSame(h) \/ Terminate(h) \/ ItEnded(h) \/ GraceIsOver(h)
    \/ Kill(h) \/ Wait(h)

Next ==
    \/ \E h \in Hosts : Opening(h) \/ Stopping(h) \/ NoticeExit(h) \/ Detach(h) \/ Down(h) \/ Up(h)
    \/ \E p \in Pids : PlaneExits(p) \/ StrangerStarts(p) \/ StrangerExits(p)

Spec == Init /\ [][Next]_vars

\* A host goes on with what it began, its timer runs, and what is killed ends.
Continues(h) == at[h] # "idle" /\ (Opening(h) \/ Stopping(h))
Dies(p) == table[p].fate = "killed" /\ (PlaneExits(p) \/ StrangerExits(p))
Fairness ==
    /\ \A h \in Hosts : WF_vars(Continues(h)) /\ WF_vars(NoticeExit(h))
    /\ \A p \in Pids : WF_vars(Dies(p))
FairSpec == Spec /\ Fairness
-----------------------------------------------------------------------------
Identity == [pid : Pids, born : 0..MaxBorn]

Entry == [kind : {"gone", "plane", "stranger"}, born : 0..MaxBorn,
          parent : Hosts \cup {None}, alive : BOOLEAN, fate : {"well", "astray", "killed"}]
Table == [Pids -> Entry]
Signalled == {"terminate", "grace", "kill", "dying"}
Ending == {"same", "unasked", "wait"} \cup Signalled
Working == {"check", "forget", "unlink", "spawn", "stage", "replace"} \cup Ending

\* Only a child that its host started has no start time: no link holds a process it found
\* without one.
Handle == [pid : Pids, born : 0..MaxBorn, child : {"held", "reaped"}]
          \cup [pid : Pids, born : 1..MaxBorn, child : {"no"}]

\* The process table, the two files and what each host holds have their shapes.
TypeOK ==
    /\ table \in Table
    /\ births \in 0..MaxBorn
    /\ record \in Identity \cup {None} /\ staged \in Identity \cup {None}
    /\ at \in [Hosts -> Working \cup {"down", "idle"}]
    /\ goal \in [Hosts -> {"rest", "open", "reattach", "stop"}]
    /\ found \in [Hosts -> Identity \cup {None}]
    /\ grip \in [Hosts -> Handle \cup {None}]
    /\ wronged \in SUBSET {"no", "held", "reaped"} /\ together \in BOOLEAN
    /\ downs \in 0..MaxDowns

Planes == {p \in Pids : table[p].kind = "plane" /\ table[p].alive}

\* Neither lost in a way that a step says, nor killed and about to end.
InSight == {p \in Planes : table[p].fate = "well"}

\* What a link takes hold of was started as a Realtime Plane, never a program that got its
\* PID later: by this host itself, or at the start time on record (process.py:199-209, 233).
AttachesToAPlane ==
    [][\A h \in Hosts : grip[h] = None /\ grip'[h] # None =>
        LET p == grip'[h].pid IN
        /\ table'[p].kind = "plane"
        /\ IF grip'[h].child = "held" THEN table'[p].parent = h ELSE table'[p].born = grip'[h].born]_vars

\* A host that started the Realtime Plane itself never signals anything else, however
\* PIDs are reused: its child keeps the PID until the host has reaped it, and Stop
\* asks again before each signal (process.py:151, 172-185).
OwnChildIsTheTarget == wronged \cap {"held", "reaped"} = {}

\* What Stop is done with, whoever started it and whatever it made of the polite request,
\* has ended, or was killed and ends; unless `ps' told no start time of a process that the
\* host only found, which is left running (process.py:172-186, 140).
StopEndsIt ==
    \A h \in Hosts : (goal[h] = "stop" /\ at[h] \in {"forget", "unlink"} /\ Runs(found[h]))
        => table[found[h].pid].fate # "well"

\* One user has one Realtime Plane (process.py:4-7): hosts that take turns find the one
\* that runs, through quits, crashes, exits, a `ps' that hangs and PIDs that strangers
\* reuse.  Another may run beside it only if it was killed, or if the hosts lost it: its
\* start was cut short, `ps' told no start time of it, or its record was forgotten for an
\* older process that had its PID.
OnePlane == ~together => Cardinality(InSight) <= 1

\* What runs is found by the next host (process.py:5-6): while hosts take turns, the state
\* file names the Realtime Plane that runs, unless a host is about to write it; the same
\* are left out.
RunningIsRecorded ==
    ~together => \A p \in InSight :
        \/ record = [pid |-> p, born |-> table[p].born]
        \/ \E h \in Hosts : at[h] \in {"stage", "replace"} /\ found[h].pid = p

\* A host notices that its child exited (link.py:10), also one whose Popen it let go and
\* that it found again through the state file, which only it can reap (process.py:155-163).
OwnExitIsNoticed ==
    \A h \in Hosts :
        (at[h] = "idle" /\ grip[h] # None /\ Zombie(h, grip[h].pid))
            ~> (at[h] = "down" \/ grip[h] = None)

\* Stop returns (process.py:172-186), although it waits for its own child without a limit;
\* but not while that child runs and was never asked to end, since `ps' did not tell the
\* start time on record, or there is none.
NeverAsked(h) == at[h] = "unasked" /\ grip[h].child = "held" /\ table[grip[h].pid].alive
StopReturns ==
    \A h \in Hosts :
        (goal[h] = "stop" /\ at[h] # "idle") ~> (at[h] \in {"idle", "down"} \/ NeverAsked(h))
=============================================================================
