--------------------------- MODULE PosixSchedule ---------------------------
(***************************************************************************)
(* PosixEnv::Schedule and BackgroundThreadMain (util/env_posix.cc): the    *)
(* queue of background work that all databases of a process share.         *)
(***************************************************************************)
EXTENDS Integers, Sequences, FiniteSets

CONSTANTS
    Caller,     \* threads that call Schedule
    MaxItems    \* bound: calls of Schedule

ASSUME ItemAssumption == MaxItems \in Nat

VARIABLES
    mutex,      \* who holds background_work_mutex_: {} or one thread
    caller,     \* where each caller is
    bg,         \* where the background thread is, "none" before it is started
    queue,      \* background_work_queue_, items numbered as they are scheduled
    running,    \* the item that runs: {} or one
    calls,      \* the calls of Schedule
    done        \* history: the items that have run, in order

workVars == <<mutex, caller, bg, queue, running, calls, done>>

WorkInit ==
    /\ mutex = {} /\ caller = [c \in Caller |-> "idle"] /\ bg = "none"
    /\ queue = << >> /\ running = {} /\ calls = 0 /\ done = << >>

\* Schedule takes the mutex ...
Enter(c) ==
    /\ caller[c] = "idle" /\ mutex = {} /\ calls < MaxItems
    /\ mutex' = {c} /\ caller' = [caller EXCEPT ![c] = "schedule"]
    /\ UNCHANGED <<bg, queue, running, calls, done>>

\* ... starts the thread with the first call, and signals if the queue is empty.
SignalIfBusy == bg = "waiting" /\ queue # << >>
Signal == bg = "waiting" /\ queue = << >>

Schedule(c) ==
    /\ caller[c] = "schedule"
    /\ bg' = IF bg = "none" THEN "started" ELSE IF Signal THEN "woken" ELSE bg
    /\ calls' = calls + 1 /\ queue' = Append(queue, calls + 1)
    /\ mutex' = {} /\ caller' = [caller EXCEPT ![c] = "idle"]
    /\ UNCHANGED <<running, done>>

\* BackgroundThreadMain: Lock(), also after Wait() returns.
LockQueue ==
    /\ bg \in {"started", "woken"} /\ mutex = {}
    /\ mutex' = {"bg"} /\ bg' = "locked"
    /\ UNCHANGED <<caller, queue, running, calls, done>>

\* Wait() may also return without a signal.
WakeByItself ==
    /\ bg = "waiting" /\ bg' = "woken" /\ UNCHANGED <<mutex, caller, queue, running, calls, done>>

Wait ==
    /\ bg = "locked" /\ queue = << >>
    /\ bg' = "waiting" /\ mutex' = {}
    /\ UNCHANGED <<caller, queue, running, calls, done>>

Take ==
    /\ bg = "locked" /\ queue # << >>
    /\ running' = {Head(queue)} /\ queue' = Tail(queue)
    /\ bg' = "running" /\ mutex' = {}
    /\ UNCHANGED <<caller, calls, done>>

\* background_work_function returns.
Finish ==
    /\ bg = "running" /\ bg' = "started"
    /\ \E i \in running : done' = Append(done, i)
    /\ running' = {} /\ UNCHANGED <<mutex, caller, queue, calls>>

WorkNext ==
    \/ \E c \in Caller : Enter(c) \/ Schedule(c)
    \/ LockQueue \/ WakeByItself \/ Wait \/ Take \/ Finish

\* The threads run, and the mutex is fair to the background thread.
WorkSpec ==
    /\ WorkInit /\ [][WorkNext]_workVars
    /\ \A c \in Caller : WF_workVars(Schedule(c))
    /\ SF_workVars(LockQueue) /\ WF_workVars(Wait) /\ WF_workVars(Take) /\ WF_workVars(Finish)

-----------------------------------------------------------------------------
\* Work runs once each, in the order in which it was scheduled, and one item
\* at a time.
WorkInOrder ==
    /\ \A i \in 1 .. Len(done) : done[i] = i
    /\ running \subseteq {Len(done) + 1}

\* Whatever was scheduled runs at last, the calls being bounded: no call's signal
\* is missed.
AllRuns == calls > Len(done) ~> Len(done) = calls

\* Whatever was scheduled runs at last, one item at a time and in the order of
\* Schedule.
WorkRuns == []WorkInOrder /\ AllRuns
=============================================================================
