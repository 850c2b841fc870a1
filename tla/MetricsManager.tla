--------------------------- MODULE MetricsManager ---------------------------
(***************************************************************************)
(* Buzz::MetricsManager (util/metrics.h, util/metrics.cc): the workers add *)
(* time-stamped records to three collections, each behind a mutex of its   *)
(* own; the dispatcher measures phases, which only it may do, and resets   *)
(* the manager.  A record is stamped first and pushed later; Reset() sets  *)
(* ref_time_ and then clears one collection after the other.               *)
(***************************************************************************)
EXTENDS Integers, FiniteSets

CONSTANTS
    Threads,  \* the threads that record
    Phases,   \* the names of phases
    MaxTime   \* bound on the clock

Kinds == {"events", "downloads", "init_connections"}
NotStarted == -1

VARIABLES
    now,       \* the clock, taken to be monotonic
    ref_time,  \* ref_time_
    records,   \* events_, downloads_ and init_connections_: who recorded when
    stamped,   \* each thread: the record it has built and not pushed, or none
    phases,    \* phase_durations_map_: the sum of the durations, and `started`
    to_clear   \* what the Reset that runs has still to clear

vars == <<now, ref_time, records, stamped, phases, to_clear>>

Nothing == [kind |-> "none", at |-> 0]

Init ==
    /\ now = 0
    /\ ref_time = 0
    /\ records = [k \in Kinds |-> {}]
    /\ stamped = [t \in Threads |-> Nothing]
    /\ phases = << >>
    /\ to_clear = {}

Tick ==
    /\ now < MaxTime
    /\ now' = now + 1
    /\ UNCHANGED <<ref_time, records, stamped, phases, to_clear>>

\* NewEvent, NewDownload and NewInitConnection: build the record, ...
Stamp(t, k) ==
    /\ stamped[t] = Nothing
    /\ stamped' = [stamped EXCEPT ![t] = [kind |-> k, at |-> now]]
    /\ UNCHANGED <<now, ref_time, records, phases, to_clear>>

\* ... and push it.
PushBack(t) ==
    /\ stamped[t] # Nothing
    /\ records' = [records EXCEPT ![stamped[t].kind] =
                      @ \cup {[thread |-> t, at |-> stamped[t].at]}]
    /\ stamped' = [stamped EXCEPT ![t] = Nothing]
    /\ UNCHANGED <<now, ref_time, phases, to_clear>>

Started(p) == p \in DOMAIN phases /\ phases[p].started # NotStarted

Known(p) == IF p \in DOMAIN phases THEN phases[p].spent ELSE 0

SetPhase(p, value) ==
    phases' = [q \in DOMAIN phases \cup {p} |-> IF q = p THEN value ELSE phases[q]]

\* EnterPhase; a phase that was entered already is left alone.
EnterPhase(p) ==
    /\ to_clear = {}
    /\ ~Started(p)
    /\ SetPhase(p, [spent |-> Known(p), started |-> now])
    /\ UNCHANGED <<now, ref_time, records, stamped, to_clear>>

\* ExitPhase; one that is not entered is left alone.
ExitPhase(p) ==
    /\ to_clear = {}
    /\ Started(p)
    /\ SetPhase(p, [spent |-> Known(p) + (now - phases[p].started), started |-> NotStarted])
    /\ UNCHANGED <<now, ref_time, records, stamped, to_clear>>

\* Reset(), its first statement ...
Reset ==
    /\ to_clear = {}
    /\ ref_time' = now
    /\ to_clear' = Kinds
    /\ UNCHANGED <<now, records, stamped, phases>>

\* ... and the three clear().
Clear(k) ==
    /\ k \in to_clear
    /\ k = "downloads" => "events" \notin to_clear
    /\ k = "init_connections" => to_clear = {k}
    /\ records' = [records EXCEPT ![k] = {}]
    /\ to_clear' = to_clear \ {k}
    /\ UNCHANGED <<now, ref_time, stamped, phases>>

Next ==
    \/ Tick
    \/ \E t \in Threads : PushBack(t) \/ \E k \in Kinds : Stamp(t, k)
    \/ \E p \in Phases : EnterPhase(p) \/ ExitPhase(p)
    \/ Reset
    \/ \E k \in Kinds : Clear(k)

Spec == Init /\ [][Next]_vars

-----------------------------------------------------------------------------
(* Properties.                                                             *)

\* metrics.h:54: Reset() is to "empty the manager to start tracking a new
\* execution".
ResetEmpties == [][\A k \in Kinds : Clear(k) /\ to_clear' = {} => DOMAIN phases' = {}]_vars

=============================================================================
