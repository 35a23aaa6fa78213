------------------------------ MODULE TaskQueue ------------------------------
(***************************************************************************)
(* What ThreadPool promises its callers: tasks are started in the order    *)
(* they were accepted, each is executed at most once, and no more than     *)
(* Capacity tasks wait.  A task may also be executed at once by its caller *)
(* (a pool without threads).  Nothing is promised about tasks that are     *)
(* still waiting when the pool is stopped.                                 *)
(***************************************************************************)
EXTENDS Naturals, Sequences

CONSTANTS Tasks, Capacity       \* Capacity 0: unbounded

VARIABLES waiting, started, executed

vars == <<waiting, started, executed>>

Init == waiting = <<>> /\ started = {} /\ executed = {}

Fresh(t) == t \notin started /\ \A i \in DOMAIN waiting : waiting[i] # t

Accept(t) ==
    /\ Fresh(t)
    /\ Capacity > 0 => Len(waiting) < Capacity
    /\ waiting' = Append(waiting, t)
    /\ UNCHANGED <<started, executed>>

StartFirst ==
    /\ waiting # <<>>
    /\ waiting' = Tail(waiting)
    /\ started' = started \cup {Head(waiting)}
    /\ UNCHANGED executed

Execute(t) ==
    /\ t \in started \ executed
    /\ executed' = executed \cup {t}
    /\ UNCHANGED <<waiting, started>>

ExecuteAtOnce(t) ==
    /\ Fresh(t)
    /\ started' = started \cup {t}
    /\ executed' = executed \cup {t}
    /\ UNCHANGED waiting

Next ==
    \/ StartFirst
    \/ \E t \in Tasks : Accept(t) \/ Execute(t) \/ ExecuteAtOnce(t)

Spec == Init /\ [][Next]_vars
=============================================================================
