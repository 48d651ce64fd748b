------------------------ MODULE MCOfficialCoordinator ------------------------
(***************************************************************************)
(* Small schedules.  A tick is a minute: the tolerance of 120 s is two     *)
(* ticks, an assignment lives for three.                                   *)
(***************************************************************************)
EXTENDS OfficialCoordinator

CONSTANTS a, b

\* Two slots of one observer, a minute apart: offsets 0 and 60 of a cycle.
SameObserver == [s \in Slots |-> a]
MinuteApart == [s \in Slots |-> s - 1]

\* Two slots of two observers, due within the same minute.
TwoObservers == [s \in Slots |-> IF s = 1 THEN a ELSE b]
SameMinute == [s \in Slots |-> 0]
=============================================================================
