---------------------------- MODULE Synchronizer ----------------------------
(***************************************************************************)
(* Buzz::Synchronizer (util/async_queue.h:30-42, util/async_queue.cc): a   *)
(* counter of work units, a mutex and a condition variable that any number *)
(* of AsyncQueues share.  Each operator below is one critical section, or  *)
(* one notification, of a member function; the module that EXTENDS this    *)
(* one sequences them per thread.                                          *)
(***************************************************************************)
EXTENDS Integers

VARIABLES
    work,   \* work_: units notified and not yet consumed
    asleep  \* the threads blocked in cv_.wait

syncVars == <<work, asleep>>

\* Every use of the class is std::make_shared<Synchronizer>(), which
\* value-initialises work_ although no constructor does.
SyncInit == work = 0 /\ asleep = {}

\* The predicate of cv_.wait.
HasWork == work > 0

\* First half of notify(): the increment, under the mutex.
AddWork == work' = work + 1 /\ UNCHANGED asleep

\* Mutant of WakeOne: the notification is forgotten.
WakeNobody == UNCHANGED syncVars

\* Second half of notify(): cv_.notify_one(), after the mutex was released.
\* The beneficiary is arbitrary, and a call that finds nobody is lost.
WakeOne ==
    /\ UNCHANGED work
    /\ IF asleep = {}
       THEN UNCHANGED asleep
       ELSE \E t \in asleep : asleep' = asleep \ {t}

\* wait() by thread t while the predicate is false: t releases the mutex and
\* blocks in one step.
Block(t) == ~HasWork /\ asleep' = asleep \cup {t} /\ UNCHANGED work

\* wait() returns; it leaves the counter alone.
Pass(t) == HasWork /\ UNCHANGED syncVars

\* Mutant of ConsumeWork: one unit per call instead of one per response.
ConsumeOne(n) == work' = work - 1 /\ UNCHANGED asleep

\* consume(n).
ConsumeWork(n) == work' = work - n /\ UNCHANGED asleep

=============================================================================
