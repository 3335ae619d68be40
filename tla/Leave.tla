------------------------------- MODULE Leave -------------------------------
(***************************************************************************)
(* Leave requests and leave balances.                                      *)
(*                                                                         *)
(* Each API handler is a sequence of awaited database calls with no        *)
(* transaction around them, so a handler is modelled by one action per     *)
(* call that reads or writes the leave tables; several handlers (Workers)  *)
(* interleave at those points and any of them may stop between two calls.  *)
(* Days are counted in half days, so a half-day request costs 1.           *)
(***************************************************************************)
EXTENDS Integers, FiniteSets

CONSTANTS
  Employees,     \* active employees, each its own user
  Admins,        \* users with the role HR_ADMIN or SUPER_ADMIN
  Managers,      \* users with the role MANAGER
  ManagerOf,     \* the manager of each employee, or None
  Types,         \* leave types
  Policy,        \* the LeavePolicy row of each type
  Years,         \* the years with balances
  Days,          \* calendar days, in order
  Workdays,      \* the days that are neither Saturday nor Sunday
  YearOf,        \* the year of each day
  Leaves,        \* ids of leave requests
  Adjustments,   \* the amounts an administrator enters
  Workers,       \* handlers that may be in flight together
  MaxUnits,      \* bound: adjustments keep entitled and used below it
  MaxFailures,   \* bound: handlers that stop half way
  None, NoRow, NoLeave

Users == Employees \cup Admins \cup Managers

PolicyType == [active: BOOLEAN, perYear: Nat, maxConsecutive: Nat,
               canCarry: BOOLEAN, maxCarry: Nat]

ASSUME CalendarAssumption ==
  /\ Years \subseteq Int
  /\ Days \subseteq Int
  /\ Workdays \subseteq Days
  /\ YearOf \in [Days -> Years]
  /\ \A a, b \in Days : IsFiniteSet({d \in Workdays : a <= d /\ d <= b})

ASSUME PolicyAssumption ==
  /\ Policy \in [Types -> PolicyType]
  /\ ManagerOf \in [Employees -> Users \cup {None}]
  /\ Adjustments \subseteq Int \ {0}

VARIABLES
  balance,   \* leave_balances, keyed by (employee, type, year)
  leaves,    \* leave_requests, keyed by id
  job,       \* what each handler is in the middle of
  failures   \* handlers that stopped half way so far

vars == <<balance, leaves, job, failures>>

Keys == Employees \X Types \X Years

Rows == [entitled: Int, used: Int, carried: Int, remaining: Int]

Asked == [emp: Employees, type: Types, first: Days, last: Days, charge: Nat]

Status == {"PENDING", "APPROVED", "REJECTED", "CANCELLED"}

LeaveRows == [emp: Employees, type: Types, first: Days, last: Days,
              charge: Nat, status: Status]

Carry == [key: Keys, amount: Int]

Idle == [at |-> "idle"]

Jobs == {Idle}
   \cup [at: {"overlap", "create"}, id: Leaves, asked: Asked]
   \cup [at: {"deduct", "decide"}, id: Leaves, verdict: {"APPROVED", "REJECTED"}]
   \cup [at: {"refund", "cancel"}, id: Leaves, seen: {"PENDING", "APPROVED"}]
   \cup [at: {"initFind"}, todo: SUBSET Keys]
   \cup [at: {"initCreate"}, key: Keys, todo: SUBSET Keys]
   \cup [at: {"adjust"}, key: Keys, seen: Rows, by: Adjustments]
   \cup [at: {"carryFind"}, todo: SUBSET Carry]
   \cup [at: {"carryWrite"}, key: Keys, amount: Int, seen: Rows \cup {NoRow},
         todo: SUBSET Carry]

\* Every row has the columns of its table and every handler the locals of the
\* line it has reached in leave.service.ts or leave-admin.service.ts.
TypeOK ==
  /\ balance \in [Keys -> Rows \cup {NoRow}]
  /\ leaves \in [Leaves -> LeaveRows \cup {NoLeave}]
  /\ job \in [Workers -> Jobs]
  /\ failures \in Nat

ASSUME NullAssumption == NoRow \notin Rows /\ NoLeave \notin LeaveRows

-----------------------------------------------------------------------------
(* Helpers *)

Exists(k) == balance[k] # NoRow

\* totalDays of a request, in half days.
Charge(first, last, half) ==
  IF half THEN 1 ELSE 2 * Cardinality({d \in Workdays : first <= d /\ d <= last})

KeyOf(l) == <<l.emp, l.type, YearOf[l.first]>>

Active(id) == leaves[id] # NoLeave /\ leaves[id].status \in {"PENDING", "APPROVED"}

\* The stored requests the overlap query of applyLeave looks at.
Blocking_PendingOnly(id) == leaves[id] # NoLeave /\ leaves[id].status = "PENDING"

Blocking(id) == Active(id)

\* The balance check of applyLeave; without a row nothing is affordable.
Affordable_WithoutRow(k, c) == Exists(k) => balance[k].remaining >= c

Affordable(k, c) == Exists(k) /\ balance[k].remaining >= c

Overlap(a, b) == a.emp = b.emp /\ a.first <= b.last /\ a.last >= b.first

MayReview(u, e) == u \in Admins \/ (u \in Managers /\ ManagerOf[e] = u)

MayCancel_OwnerAlways(u, l) ==
  u = l.emp \/ (u \in Admins /\ l.status \in {"PENDING", "APPROVED"})

MayCancel(u, l) ==
  IF u = l.emp THEN l.status = "PENDING"
               ELSE u \in Admins /\ l.status \in {"PENDING", "APPROVED"}

\* The rows the four updates of a balance write.  An adjustment and a
\* carry-forward compute remaining from the row as they read it, old.
Deducted_UsedOnly(row, c) == [row EXCEPT !.used = row.used + c]

Deducted(row, c) == [row EXCEPT !.used = row.used + c, !.remaining = row.remaining - c]

Refunded_UsedOnly(row, c) == [row EXCEPT !.used = row.used - c]

Refunded_Nothing(row, c) == row

Refunded(row, c) == [row EXCEPT !.used = row.used - c, !.remaining = row.remaining + c]

Adjusted(row, old, a) ==
  LET entitled == IF a > 0 THEN old.entitled + a ELSE old.entitled
      used == IF a < 0 THEN old.used - a ELSE old.used
  IN [row EXCEPT !.entitled = entitled, !.used = used,
                 !.remaining = entitled + old.carried - used]

CarriedInto_AddedAgain(row, old, n) ==
  [row EXCEPT !.carried = n, !.remaining = old.remaining + n]

CarriedInto(row, old, n) ==
  [row EXCEPT !.carried = n, !.remaining = old.entitled + n - old.used]

Carries(t) == Policy[t].active /\ Policy[t].canCarry

Smaller(a, b) == IF a < b THEN a ELSE b

Free(w) == job[w].at = "idle"

Goto(w, j) == job' = [job EXCEPT ![w] = j]

\* A loop that has nothing left to do returns.
InitLoop(todo) == IF todo = {} THEN Idle ELSE [at |-> "initFind", todo |-> todo]

CarryLoop(todo) == IF todo = {} THEN Idle ELSE [at |-> "carryFind", todo |-> todo]

\* Ids that no stored request has and no handler is about to insert.
FreshIds ==
  {id \in Leaves : /\ leaves[id] = NoLeave
                   /\ \A v \in Workers : job[v].at \in {"overlap", "create"} => job[v].id # id}

-----------------------------------------------------------------------------
(* leave.service.ts *)

\* applyLeave up to the balance check: dates, policy and remaining balance.
Apply(w) ==
  \E e \in Employees, t \in Types, first \in Days, last \in Days, half \in BOOLEAN, id \in FreshIds :
    LET c == Charge(first, last, half)
        k == <<e, t, YearOf[first]>>
    IN /\ Free(w)
       /\ first <= last
       /\ c > 0
       /\ Policy[t].active
       /\ c <= Policy[t].maxConsecutive
       /\ Affordable(k, c)
       /\ Goto(w, [at |-> "overlap", id |-> id,
                   asked |-> [emp |-> e, type |-> t, first |-> first, last |-> last, charge |-> c]])
       /\ UNCHANGED <<balance, leaves, failures>>

\* The query for an active request with overlapping dates; a hit is a 409.
ApplyOverlap(w) ==
  /\ job[w].at = "overlap"
  /\ IF \E id \in Leaves : Blocking(id) /\ Overlap(leaves[id], job[w].asked)
       THEN Goto(w, Idle)
       ELSE Goto(w, [job[w] EXCEPT !.at = "create"])
  /\ UNCHANGED <<balance, leaves, failures>>

\* The insert. The balance is not reserved.
ApplyCreate(w) ==
  /\ job[w].at = "create"
  /\ LET a == job[w].asked
     IN leaves' = [leaves EXCEPT ![job[w].id] =
                     [emp |-> a.emp, type |-> a.type, first |-> a.first, last |-> a.last,
                      charge |-> a.charge, status |-> "PENDING"]]
  /\ Goto(w, Idle)
  /\ UNCHANGED <<balance, failures>>

\* reviewLeave up to the authorisation: the request must be read as PENDING.
Review(w) ==
  \E id \in Leaves, u \in Users, verdict \in {"APPROVED", "REJECTED"} :
    /\ Free(w)
    /\ leaves[id] # NoLeave
    /\ leaves[id].status = "PENDING"
    /\ MayReview(u, leaves[id].emp)
    /\ Goto(w, [at |-> IF verdict = "APPROVED" THEN "deduct" ELSE "decide",
                id |-> id, verdict |-> verdict])
    /\ UNCHANGED <<balance, leaves, failures>>

\* The balance update of an approval: an atomic increment and decrement.
\* Prisma's update throws when the row does not exist.
ReviewDeduct(w) ==
  /\ job[w].at = "deduct"
  /\ LET l == leaves[job[w].id]
         k == KeyOf(l)
     IN IF Exists(k)
          THEN /\ balance' = [balance EXCEPT ![k] = Deducted(@, l.charge)]
               /\ Goto(w, [job[w] EXCEPT !.at = "decide"])
          ELSE /\ Goto(w, Idle)
               /\ UNCHANGED balance
  /\ UNCHANGED <<leaves, failures>>

\* The request update, whatever its status has become meanwhile.
ReviewDecide(w) ==
  /\ job[w].at = "decide"
  /\ leaves' = [leaves EXCEPT ![job[w].id].status = job[w].verdict]
  /\ Goto(w, Idle)
  /\ UNCHANGED <<balance, failures>>

\* cancelLeave up to the authorisation; the status read here decides the refund.
Cancel(w) ==
  \E id \in Leaves, u \in Users :
    /\ Free(w)
    /\ leaves[id] # NoLeave
    /\ MayCancel(u, leaves[id])
    /\ Goto(w, [at |-> IF leaves[id].status = "APPROVED" THEN "refund" ELSE "cancel",
                id |-> id, seen |-> leaves[id].status])
    /\ UNCHANGED <<balance, leaves, failures>>

\* The refund of an approved request.
CancelRefund(w) ==
  /\ job[w].at = "refund"
  /\ LET l == leaves[job[w].id]
         k == KeyOf(l)
     IN IF Exists(k)
          THEN /\ balance' = [balance EXCEPT ![k] = Refunded(@, l.charge)]
               /\ Goto(w, [job[w] EXCEPT !.at = "cancel"])
          ELSE /\ Goto(w, Idle)
               /\ UNCHANGED balance
  /\ UNCHANGED <<leaves, failures>>

\* The status update of a cancellation, unconditional as well.
CancelWrite_Misspelt(w) ==
  /\ job[w].at = "cancel"
  /\ leaves' = [leaves EXCEPT ![job[w].id].status = "CANCELED"]
  /\ Goto(w, Idle)
  /\ UNCHANGED <<balance, failures>>

CancelWrite(w) ==
  /\ job[w].at = "cancel"
  /\ leaves' = [leaves EXCEPT ![job[w].id].status = "CANCELLED"]
  /\ Goto(w, Idle)
  /\ UNCHANGED <<balance, failures>>

-----------------------------------------------------------------------------
(* leave-admin.service.ts *)

\* initializeEmployeeBalances for one employee, initializeAllBalances for all:
\* the rows to look at, one after the other.
Initialize(w) ==
  \E es \in {{e} : e \in Employees} \cup {Employees}, y \in Years :
    /\ Free(w)
    /\ Goto(w, InitLoop({k \in Keys : k[1] \in es /\ Policy[k[2]].active /\ k[3] = y}))
    /\ UNCHANGED <<balance, leaves, failures>>

InitializeFind(w) ==
  /\ job[w].at = "initFind"
  /\ \E k \in job[w].todo :
       Goto(w, IF Exists(k)
                 THEN InitLoop(job[w].todo \ {k})
                 ELSE [at |-> "initCreate", key |-> k, todo |-> job[w].todo \ {k}])
  /\ UNCHANGED <<balance, leaves, failures>>

\* The insert; the unique index rejects it when the row was created meanwhile.
InitializeCreate(w) ==
  /\ job[w].at = "initCreate"
  /\ LET k == job[w].key
         n == Policy[k[2]].perYear
     IN IF Exists(k)
          THEN /\ Goto(w, Idle)
               /\ UNCHANGED balance
          ELSE /\ balance' = [balance EXCEPT ![k] =
                    [entitled |-> n, used |-> 0, carried |-> 0, remaining |-> n]]
               /\ Goto(w, InitLoop(job[w].todo))
  /\ UNCHANGED <<leaves, failures>>

\* adjustBalance: read the row, then write absolute values computed from it.
Adjust(w) ==
  \E k \in Keys, a \in Adjustments :
    /\ Free(w)
    /\ Exists(k)
    /\ balance[k].entitled + a <= MaxUnits
    /\ balance[k].used - a <= MaxUnits
    /\ Goto(w, [at |-> "adjust", key |-> k, seen |-> balance[k], by |-> a])
    /\ UNCHANGED <<balance, leaves, failures>>

AdjustWrite(w) ==
  /\ job[w].at = "adjust"
  /\ balance' = [balance EXCEPT ![job[w].key] = Adjusted(@, job[w].seen, job[w].by)]
  /\ Goto(w, Idle)
  /\ UNCHANGED <<leaves, failures>>

\* carryForwardBalances: the amounts come from one read of the previous year.
CarryForward(w) ==
  \E y \in Years :
    /\ Free(w)
    /\ y - 1 \in Years
    /\ LET from == {k \in Keys : /\ k[3] = y - 1
                                 /\ Carries(k[2])
                                 /\ Exists(k)
                                 /\ Smaller(balance[k].remaining, Policy[k[2]].maxCarry) > 0}
       IN Goto(w, CarryLoop({[key |-> <<k[1], k[2], y>>,
                              amount |-> Smaller(balance[k].remaining, Policy[k[2]].maxCarry)] : k \in from}))
    /\ UNCHANGED <<balance, leaves, failures>>

CarryFind(w) ==
  /\ job[w].at = "carryFind"
  /\ \E c \in job[w].todo :
       Goto(w, [at |-> "carryWrite", key |-> c.key, amount |-> c.amount,
                seen |-> balance[c.key], todo |-> job[w].todo \ {c}])
  /\ UNCHANGED <<balance, leaves, failures>>

\* An update of the row that was read, or an insert when there was none.
CarryWrite(w) ==
  /\ job[w].at = "carryWrite"
  /\ LET k == job[w].key
         n == job[w].amount
         old == job[w].seen
         fresh == Policy[k[2]].perYear
     IN IF old # NoRow
          THEN /\ balance' = [balance EXCEPT ![k] = CarriedInto(@, old, n)]
               /\ Goto(w, CarryLoop(job[w].todo))
          ELSE IF Exists(k)
            THEN /\ Goto(w, Idle)
                 /\ UNCHANGED balance
            ELSE /\ balance' = [balance EXCEPT ![k] =
                      [entitled |-> fresh, used |-> 0, carried |-> n, remaining |-> fresh + n]]
                 /\ Goto(w, CarryLoop(job[w].todo))
  /\ UNCHANGED <<leaves, failures>>

-----------------------------------------------------------------------------
\* A database error or the end of the process between two calls.
Fail(w) ==
  /\ ~ Free(w)
  /\ failures < MaxFailures
  /\ failures' = failures + 1
  /\ Goto(w, Idle)
  /\ UNCHANGED <<balance, leaves>>

Init ==
  /\ balance = [k \in Keys |-> NoRow]
  /\ leaves = [id \in Leaves |-> NoLeave]
  /\ job = [w \in Workers |-> Idle]
  /\ failures = 0

RequestStep(w) ==
  \/ Apply(w) \/ ApplyOverlap(w) \/ ApplyCreate(w)
  \/ Review(w) \/ ReviewDeduct(w) \/ ReviewDecide(w)
  \/ Cancel(w) \/ CancelRefund(w) \/ CancelWrite(w)

AdminStep(w) ==
  \/ Initialize(w) \/ InitializeFind(w) \/ InitializeCreate(w)
  \/ Adjust(w) \/ AdjustWrite(w)
  \/ CarryForward(w) \/ CarryFind(w) \/ CarryWrite(w)

Next == \E w \in Workers : RequestStep(w) \/ AdminStep(w) \/ Fail(w)

Spec == Init /\ [][Next]_vars

-----------------------------------------------------------------------------
(* Properties *)

Balanced(r) == r = NoRow \/ r.remaining = r.entitled + r.carried - r.used

\* In a type that is not carried forward, remaining is always entitled plus
\* carried minus used, whatever approvals, cancellations and adjustments of the
\* row interleave and wherever one of them stops: the increments of
\* leave.service.ts and the recomputation of adjustBalance never part the columns.
BooksBalance == \A k \in Keys : ~ Carries(k[2]) => Balanced(balance[k])

\* The columns of a row part only when carryForwardBalances or adjustBalance
\* writes a remaining computed from a row that another handler changed after it
\* was read; no approval, cancellation or insert ever does it.
OnlyStaleWritesUnbalance ==
  [][\A k \in Keys : Balanced(balance[k]) /\ ~ Balanced(balance'[k]) =>
       \E w \in Workers :
         /\ job[w].at \in {"adjust", "carryWrite"}
         /\ job[w].key = k
         /\ job[w].seen # balance[k]]_vars

\* An active request is charged to a balance row that exists, so the update of
\* reviewLeave and cancelLeave never throws: applyLeave checks the row of the
\* same employee, type and year, and no handler deletes one.
ChargedRowExists == \A id \in Leaves : Active(id) => Exists(KeyOf(leaves[id]))

\* No two active requests of an employee share a day (applyLeave's 409).
NoOverlap ==
  \A a, b \in Leaves :
    a # b /\ Active(a) /\ Active(b) => ~ Overlap(leaves[a], leaves[b])

\* A request that was rejected or cancelled keeps that status, and an approved
\* one can only be cancelled (the status checks of reviewLeave and cancelLeave).
DecisionIsFinal ==
  [][\A id \in Leaves : leaves[id] # NoLeave /\ leaves'[id] # leaves[id] =>
       \/ leaves[id].status = "PENDING"
       \/ leaves[id].status = "APPROVED" /\ leaves'[id].status = "CANCELLED"]_vars

\* Every row balances, those that are carried forward too: what the sequential
\* code of leave.service.ts and leave-admin.service.ts promises.
AllBooksBalance == \A k \in Keys : Balanced(balance[k])

\* What requests handled one at a time keep: no shared day and no row out of balance.
InTurnAllAgrees == NoOverlap /\ AllBooksBalance
=============================================================================
