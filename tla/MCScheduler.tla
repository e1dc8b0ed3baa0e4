---------------------------- MODULE MCScheduler ----------------------------
(* Model checking of Scheduler.  The constants that are numbers and small    *)
(* sets are given in the .cfg files.                                         *)
EXTENDS SchedulerInvariant

\* Behaviours up to the first switch inside a race window.  The liveness
\* properties say nothing after it, and this is a much smaller graph.
NextUntilRace == ~raced /\ Next

FairSpecUntilRace ==
    /\ Init /\ [][NextUntilRace]_vars
    /\ <>[](~raced /\ CanTick) => []<><<TimerIrq>>_vars
    /\ \A t \in Threads : []<>(~raced /\ CanStep(t)) => []<><<Step(t)>>_vars
=============================================================================
