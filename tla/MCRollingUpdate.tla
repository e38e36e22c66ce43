-------------------------- MODULE MCRollingUpdate --------------------------
(* RollingUpdate for TLC: the constants the configurations pick from.       *)
EXTENDS RollingUpdate

\* Every rule names every guest.
AffectsAll == [r \in Rule |-> Guest]

Base == [drain |-> TRUE, auto |-> TRUE, reboot |-> TRUE, restore |-> FALSE,
         parallel |-> 1, drs |-> FALSE, crs |-> FALSE]

\* One drained node; both balancers on, or only Nexara's.
Drained == {[Base EXCEPT !.auto = a, !.restore = r, !.drs = TRUE, !.crs = TRUE] :
                a, r \in BOOLEAN}
DrainedAuto  == {o \in Drained : o.auto}
DrainedNoCRS == {[o EXCEPT !.crs = FALSE] : o \in Drained}

\* Every way of updating a node.
AnyUpdate == {[Base EXCEPT !.drain = d, !.auto = a, !.reboot = b, !.restore = r] :
                d, a, b, r \in BOOLEAN}

\* An automatic drained job, or one in place.
InPlace  == {o \in AnyUpdate : ~o.drain /\ ~o.restore}
AnyDrain == DrainedAuto \cup InPlace

\* A drained job, one node at a time, two at once, or either (two by hand).
OneByOne  == {Base, [Base EXCEPT !.restore = TRUE]}
TwoAtOnce == {[Base EXCEPT !.parallel = 2]}
AnyPace   == OneByOne \cup {[Base EXCEPT !.parallel = 2, !.auto = FALSE, !.reboot = FALSE]}

\* What may go wrong together in one update: a crash of a drained job; two failed
\* calls, or one and a crash, of one that passes through every step; one failed call
\* of the others, or a guest moved by somebody else.
AnyFault == DrainedAuto \cup DrainedNoCRS \cup AnyUpdate
EveryStep == {o \in DrainedNoCRS : o.auto /\ o.restore}
Budget ==
    /\ spent.fault + spent.crash > 1 => opt \in EveryStep /\ spent.fault + spent.crash = 2
    /\ spent.crash > 0 => opt \in DrainedAuto \cup DrainedNoCRS
    /\ spent.move > 0 => opt \in AnyUpdate
    /\ spent.fault > 0 => opt \notin AnyUpdate \/ opt \in InPlace

\* A manual drained job that reboots nothing.
Manual == {[Base EXCEPT !.auto = FALSE, !.reboot = FALSE, !.drs = TRUE]}

\* What may happen to a job that has to end: a failed call; or, to a manual job, a
\* cancel, or another request.
FailedOrCancelled == AnyDrain \cup Manual
OneOrTheOther ==
    /\ spent.fault > 0 => opt \in AnyDrain
    /\ spent.cancel + spent.request > 0 => opt \in Manual
    /\ spent.cancel + spent.request <= 1
=============================================================================
