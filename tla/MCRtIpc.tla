------------------------------ MODULE MCRtIpc ------------------------------
(* Two workers, both more urgent than main, and the applications: each     *)
(* calls some of the operations on some of the objects.                    *)
EXTENDS RtIpc, TLC

CONSTANTS w1, w2, s1, m1, m2

MCPrio == w1 :> 0 @@ w2 :> 1

\* threads that yield; that come and go; that change priorities and lock the
\* scheduler
Yielding == [calls |-> {"create", "startup", "yield"}, objects |-> {}]
Scheduling ==
    [calls |-> {"create", "startup", "yield", "thread_suspend", "thread_resume", "thread_delete",
                "thread_close", "exit"}, objects |-> {}]
Locking ==
    [calls |-> {"create", "startup", "thread_suspend", "thread_resume", "control", "enter", "leave"},
     objects |-> {}]

\* a semaphore; two mutexes; one mutex that is also removed; timed waits on a
\* port that ticks
Signalling ==
    [calls |-> {"start", "suspend", "resume", "close", "sem_take", "sem_release", "sem_control",
                "sem_delete"}, objects |-> {s1}]
Excluding ==
    [calls |-> {"start", "close", "mutex_take", "mutex_timed_take", "mutex_release"},
     objects |-> {m1, m2}]
Removing ==
    [calls |-> {"start", "mutex_take", "mutex_release", "mutex_ceiling", "mutex_detach", "mutex_delete"},
     objects |-> {m1}]
Timing ==
    [calls |-> {"start", "tick", "sleep", "sem_timed_take", "sem_release"}, objects |-> {s1}]

MCApplications == {Yielding, Scheduling, Locking, Signalling, Excluding, Removing, Timing}

\* a mutex whose waiter another thread resumes
Resuming ==
    {[calls |-> {"start", "mutex_take", "mutex_release", "resume_any"}, objects |-> {m1}]}

=============================================================================
