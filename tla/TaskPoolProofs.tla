--------------------------- MODULE TaskPoolProofs ---------------------------
(***************************************************************************)
(* What every user of a TaskPool may rely on, for every set of tasks and   *)
(* every number of workers.  The lemmas are about single steps of the      *)
(* pool, so that a module that EXTENDS TaskPool and makes these steps part *)
(* of its own can cite them.                                               *)
(***************************************************************************)
EXTENDS TaskPool, FiniteSetTheorems, TLAPS

-----------------------------------------------------------------------------

\* The tasks in the queue.
Waiting == {queued[i] : i \in DOMAIN queued}

PoolTypeOK ==
    /\ queued \in Seq(Tasks)
    /\ running \in SUBSET Tasks
    /\ answered \in SUBSET Tasks
    /\ collected \in SUBSET Tasks
    /\ state \in {"open", "closing", "closed"}

\* A task is in one place, and in the queue at most once.
OnePlace ==
    /\ \A i, j \in DOMAIN queued : queued[i] = queued[j] => i = j
    /\ Waiting \cap (running \cup answered \cup collected) = {}
    /\ running \cap (answered \cup collected) = {}
    /\ answered \cap collected = {}

\* A closed pool is drained.
ClosedIsDrained == state = "closed" => queued = << >> /\ running = {}

PoolInv == PoolTypeOK /\ OnePlace /\ ClosedIsDrained

\* A new pool has no task.
LEMMA PoolInvInit == PoolInit => PoolInv
BY DEF PoolInit, PoolInv, PoolTypeOK, OnePlace, ClosedIsDrained, Waiting

\* The queue after a Submit.
LEMMA SubmitWaiting ==
    ASSUME PoolTypeOK, NEW t \in Tasks, Submit(t)
    PROVE  /\ Waiting' = Waiting \cup {t} /\ t \notin Waiting
           /\ \A i \in DOMAIN queued' : \/ i \in DOMAIN queued /\ queued'[i] = queued[i]
                                        \/ i = Len(queued) + 1 /\ queued'[i] = t
<1> USE DEF PoolTypeOK
<1>1. queued' = Append(queued, t) /\ t \notin Waiting
  BY DEF Submit, Unseen, Waiting
<1>2. \A i \in DOMAIN queued' : \/ i \in DOMAIN queued /\ queued'[i] = queued[i]
                                \/ i = Len(queued) + 1 /\ queued'[i] = t
  BY <1>1
<1>3. \A i \in DOMAIN queued : i \in DOMAIN queued' /\ queued'[i] = queued[i]
  BY <1>1
<1>4. Len(queued) + 1 \in DOMAIN queued' /\ queued'[Len(queued) + 1] = t
  BY <1>1
<1>5. Waiting' = Waiting \cup {t}
  BY <1>2, <1>3, <1>4 DEF Waiting
<1> QED
  BY <1>1, <1>2, <1>5

\* The queue after a Begin.
LEMMA BeginWaiting ==
    ASSUME PoolTypeOK, OnePlace, Begin
    PROVE  /\ Head(queued) \in Waiting
           /\ Waiting' = Waiting \ {Head(queued)}
           /\ \A i \in DOMAIN queued' : i + 1 \in DOMAIN queued /\ queued'[i] = queued[i + 1]
<1> USE DEF PoolTypeOK
<1>1. queued # << >> /\ queued' = Tail(queued)
  BY DEF Begin
<1>2. 1 \in DOMAIN queued /\ Head(queued) = queued[1]
  BY <1>1
<1>3. \A i \in DOMAIN queued' : i + 1 \in DOMAIN queued /\ i + 1 # 1 /\ queued'[i] = queued[i + 1]
  BY <1>1
<1>4. \A i \in DOMAIN queued : i # 1 => i - 1 \in DOMAIN queued' /\ queued'[i - 1] = queued[i]
  BY <1>1
<1>5. \A i \in DOMAIN queued : i # 1 => queued[i] # queued[1]
  BY <1>2 DEF OnePlace
<1>6. Waiting' \subseteq Waiting \ {Head(queued)}
  BY <1>2, <1>3, <1>5 DEF Waiting
<1>7. Waiting \ {Head(queued)} \subseteq Waiting'
  BY <1>2, <1>4 DEF Waiting
<1> QED
  BY <1>2, <1>3, <1>6, <1>7 DEF Waiting

\* A submitted task joins the end of the queue.
LEMMA SubmitPool ==
    ASSUME PoolInv, NEW t \in Tasks, Submit(t)
    PROVE  PoolInv'
<1> USE DEF PoolInv, PoolTypeOK
<1>1. PoolTypeOK'
  BY DEF Submit
<1>2. t \notin running \cup answered \cup collected /\ UNCHANGED <<running, answered, collected>>
  BY DEF Submit, Unseen
<1>3. \A i, j \in DOMAIN queued' : queued'[i] = queued'[j] => i = j
  BY SubmitWaiting DEF OnePlace, Waiting
<1>4. OnePlace'
  BY <1>2, <1>3, SubmitWaiting DEF OnePlace
<1>5. ClosedIsDrained'
  BY DEF Submit, ClosedIsDrained
<1> QED
  BY <1>1, <1>4, <1>5

\* The task at the head of the queue leaves it for a worker.
LEMMA BeginPool ==
    ASSUME PoolInv, Begin
    PROVE  PoolInv'
<1> USE DEF PoolInv, PoolTypeOK
<1>1. PoolTypeOK'
  BY DEF Begin
<1>2. running' = running \cup {Head(queued)} /\ UNCHANGED <<answered, collected>>
  BY DEF Begin
<1>3. \A i, j \in DOMAIN queued' : queued'[i] = queued'[j] => i = j
  <2> SUFFICES ASSUME NEW i \in DOMAIN queued', NEW j \in DOMAIN queued', queued'[i] = queued'[j]
               PROVE  i = j
    OBVIOUS
  <2>1. i + 1 = j + 1
    BY BeginWaiting DEF OnePlace
  <2>2. i \in Int /\ j \in Int
    BY <1>1
  <2> QED
    BY <2>1, <2>2
<1>4. OnePlace'
  BY <1>2, <1>3, BeginWaiting DEF OnePlace
<1>5. ClosedIsDrained'
  BY DEF Begin, ClosedIsDrained
<1> QED
  BY <1>1, <1>4, <1>5

\* The steps that leave the queue alone.
LEMMA OtherPoolSteps ==
    ASSUME PoolInv,
           \/ \E t \in Tasks : Finish(t)
           \/ Collect \/ BeginClose \/ EndClose
           \/ UNCHANGED poolVars
    PROVE  PoolInv' /\ Waiting' = Waiting
<1>1. UNCHANGED queued
  BY DEF Finish, Collect, BeginClose, EndClose, poolVars
<1>2. Waiting' = Waiting
  BY <1>1 DEF Waiting
<1>3. PoolInv'
  BY <1>1, <1>2 DEF Finish, Collect, BeginClose, EndClose, poolVars, PoolInv, PoolTypeOK, OnePlace,
                    ClosedIsDrained
<1> QED
  BY <1>2, <1>3

\* Every operation of the pool keeps the invariant.
LEMMA PoolStep ==
    ASSUME PoolInv, [PoolNext]_poolVars
    PROVE  PoolInv'
BY SubmitPool, BeginPool, OtherPoolSteps DEF PoolNext

\* A pool never loses a task, queues it twice or answers it twice, and it is
\* closed only when every accepted task was executed.
THEOREM PoolCorrect == PoolSpec => []PoolInv
BY PoolInvInit, PoolStep, PTL DEF PoolSpec

\* No more tasks run than the pool has workers, and so than ~AsyncQueue joins.
RunningBounded == IsFiniteSet(running) /\ Cardinality(running) <= PoolSize

\* No operation has more tasks under way than workers.
LEMMA RunningBoundedStep ==
    ASSUME RunningBounded, [PoolNext]_poolVars
    PROVE  RunningBounded'
<1> USE PoolSizeAssumption DEF RunningBounded
<1>0. Cardinality(running) \in Nat
  BY FS_CardinalityType
<1>1. CASE Begin
  <2>1. running' = running \cup {Head(queued)} /\ Cardinality(running) < PoolSize
    BY <1>1 DEF Begin
  <2>2. /\ IsFiniteSet(running')
        /\ Cardinality(running') \in {Cardinality(running), Cardinality(running) + 1}
    BY <2>1, FS_AddElement
  <2> QED
    BY <1>0, <2>1, <2>2
<1>2. ASSUME NEW t \in Tasks, Finish(t)
      PROVE  RunningBounded'
  BY <1>0, <1>2, FS_RemoveElement DEF Finish
<1> QED
  BY <1>1, <1>2 DEF PoolNext, Submit, Collect, BeginClose, EndClose, poolVars

\* pool_size bounds the requests in execution.
THEOREM PoolSizeRespected == PoolSpec => []RunningBounded
<1>1. PoolInit => RunningBounded
  BY PoolSizeAssumption, FS_EmptySet DEF PoolInit, RunningBounded
<1> QED
  BY <1>1, RunningBoundedStep, PTL DEF PoolSpec

=============================================================================
