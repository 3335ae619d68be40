------------------------------ MODULE LeaveMC ------------------------------
(* Values for the constants of the leave modules in the runs. *)
EXTENDS LeaveSequential, TLC

CONSTANTS e1, hr, boss, annual, sick

\* The ids of requests are interchangeable, and so are handlers.
MCSymmetry == Permutations(Leaves) \cup Permutations(Workers)

\* Day 1 is in year 1 and day 2 in year 2.
MCYearOf == [d \in {1, 2} |-> d]

MCOneYear == [d \in {1} |-> 1]

MCManagerOf == [e \in {e1} |-> boss]

MCAdjustments == {-1, 1}

\* annual leave is carried forward, up to half a day; sick leave is not.
MCPolicy ==
  [t \in Types |->
     [active |-> TRUE, perYear |-> 2, maxConsecutive |-> 2,
      canCarry |-> t = annual, maxCarry |-> 1]]
=============================================================================
