-------------------------- MODULE LeaveSequential --------------------------
(***************************************************************************)
(* The leave handlers run one at a time implement LeaveLedger.  A balance  *)
(* is read as if the decision under way had not touched it yet: the days   *)
(* of an approval that has deducted but not decided are still available.   *)
(***************************************************************************)
EXTENDS Leave, FiniteSetsExt

ASSUME LedgerAssumption == NoRow \notin Keys /\ NoRow \notin Int

ThePreviousKey(k) ==
  IF k[3] - 1 \in Years THEN <<k[1], k[2], k[3] - 1>> ELSE NoRow

Entitlement(k) == Policy[k[2]].perYear

CarryLimit(k) == IF Carries(k[2]) THEN Policy[k[2]].maxCarry ELSE 0

\* What requests cost.
Charges == {Charge(first, last, half) : first, last \in Days, half \in BOOLEAN}

\* The rows applyLeave can insert.
NewRows == [emp: Employees, type: Types, first: Days, last: Days,
            charge: Charges \ {0}, status: {"PENDING"}]

\* Days a handler has moved for a decision that it has not stored yet.
Moved(w, k) ==
  IF job[w].at = "decide" /\ job[w].verdict = "APPROVED" /\ KeyOf(leaves[job[w].id]) = k
    THEN leaves[job[w].id].charge
  ELSE IF job[w].at = "cancel" /\ job[w].seen = "APPROVED" /\ KeyOf(leaves[job[w].id]) = k
    THEN - leaves[job[w].id].charge
  ELSE 0

AvailableNow ==
  [k \in Keys |->
     IF Exists(k) THEN balance[k].remaining + Moved(CHOOSE w \in Workers : TRUE, k) ELSE NoRow]

CarriedNow == [k \in Keys |-> IF Exists(k) THEN balance[k].carried ELSE 0]

Ledger == INSTANCE LeaveLedger WITH
  requests <- leaves, available <- AvailableNow, carried <- CarriedNow,
  RequestRows <- NewRows, KeyOf <- KeyOf, Overlap <- Overlap,
  Entitled <- Entitlement, MaxCarry <- CarryLimit, Previous <- ThePreviousKey

\* When nothing is under way and no balance was adjusted, the used column is
\* what the approved requests of the balance add up to: an approval is deducted
\* once and a cancelled one is restored.
UsedIsApproved ==
  (\A w \in Workers : Free(w)) =>
    \A k \in Keys : Exists(k) =>
      balance[k].used =
        MapThenSumSet(LAMBDA id : leaves[id].charge,
                      {id \in Leaves : /\ leaves[id] # NoLeave
                                       /\ leaves[id].status = "APPROVED"
                                       /\ KeyOf(leaves[id]) = k})

\* One handler at a time and none stopped half way: the leave module implements
\* the indivisible ledger.  Every handler's calls together have the effect of
\* one ledger step, at the call that makes it visible.
ImplementsLedger == Ledger!Spec
=============================================================================
