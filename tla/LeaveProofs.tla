---------------------------- MODULE LeaveProofs ----------------------------
(***************************************************************************)
(* Type correctness of the leave handlers, the balance equation of every   *)
(* row whose type is not carried forward, the rows that requests are       *)
(* charged to, and what alone can part the columns of a row, for any       *)
(* number of employees, requests, handlers and failures.                   *)
(***************************************************************************)
EXTENDS LeaveSequential, FiniteSetTheorems, TLAPS

\* A handler that decides or cancels a request works on a stored one.
Referenced ==
  \A w \in Workers :
    job[w].at \in {"deduct", "decide", "refund", "cancel"} => leaves[job[w].id] # NoLeave

\* A handler that updates a balance row read it, and rows are never deleted.
Stored ==
  \A w \in Workers :
    /\ job[w].at = "adjust" => Exists(job[w].key)
    /\ job[w].at = "carryWrite" /\ job[w].seen # NoRow => Exists(job[w].key)

\* Nothing is ever carried into a type that is not carried forward: neither by
\* a row, nor by the copy an adjustment holds, nor by the work list of a
\* carry-forward.
NothingCarried ==
  /\ \A k \in Keys : ~ Carries(k[2]) /\ Exists(k) => balance[k].carried = 0
  /\ \A w \in Workers :
       /\ job[w].at = "adjust" /\ ~ Carries(job[w].key[2]) => job[w].seen.carried = 0
       /\ job[w].at = "carryWrite" => Carries(job[w].key[2])
       /\ job[w].at \in {"carryFind", "carryWrite"} => \A c \in job[w].todo : Carries(c.key[2])

Typed == TypeOK /\ Referenced /\ Stored

IInv == Typed /\ NothingCarried /\ BooksBalance

-----------------------------------------------------------------------------
\* The locals a handler has at each line.
LEMMA JobLocals ==
  ASSUME NEW j \in Jobs
  PROVE  /\ j.at \in {"overlap", "create"} =>
              j \in [at: {"overlap", "create"}, id: Leaves, asked: Asked]
         /\ j.at \in {"deduct", "decide"} =>
              j \in [at: {"deduct", "decide"}, id: Leaves, verdict: {"APPROVED", "REJECTED"}]
         /\ j.at \in {"refund", "cancel"} =>
              j \in [at: {"refund", "cancel"}, id: Leaves, seen: {"PENDING", "APPROVED"}]
         /\ j.at = "initFind" => j.todo \subseteq Keys
         /\ j.at = "initCreate" => j.key \in Keys /\ j.todo \subseteq Keys
         /\ j.at = "adjust" => j.key \in Keys /\ j.seen \in Rows /\ j.by \in Adjustments
         /\ j.at = "carryFind" => j.todo \subseteq Carry
         /\ j.at = "carryWrite" =>
              /\ j.key \in Keys /\ j.amount \in Int /\ j.seen \in Rows \cup {NoRow}
              /\ j.todo \subseteq Carry
  BY DEF Jobs, Idle

\* A loop goes on with what is left of its work list, or returns.
LEMMA LoopJobs ==
  /\ \A todo \in SUBSET Keys : InitLoop(todo) \in Jobs
  /\ \A todo \in SUBSET Carry : CarryLoop(todo) \in Jobs
  BY DEF InitLoop, CarryLoop, Jobs, Idle

\* Only the moved handler changes its place.
LEMMA Moves ==
  ASSUME TypeOK, NEW w \in Workers, NEW j \in Jobs, Goto(w, j)
  PROVE  /\ job' \in [Workers -> Jobs]
         /\ job'[w] = j
         /\ \A v \in Workers : v # w => job'[v] = job[v]
  BY DEF TypeOK, Goto

\* A charge is a number of half days.
LEMMA ChargeType ==
  ASSUME NEW first \in Days, NEW last \in Days, NEW half \in BOOLEAN
  PROVE  Charge(first, last, half) \in Nat
  BY FS_CardinalityType, CalendarAssumption DEF Charge

\* A request is charged to a balance of its own.
LEMMA KeyType ==
  ASSUME NEW l \in LeaveRows
  PROVE  KeyOf(l) \in Keys
  BY CalendarAssumption DEF KeyOf, Keys, LeaveRows

\* A step that stores no request keeps Typed when it writes well-formed rows and
\* sends the handler to a line whose locals it has.
LEMMA PlaceStep ==
  ASSUME Typed, NEW w \in Workers, NEW j \in Jobs, Goto(w, j),
         balance' \in [Keys -> Rows \cup {NoRow}], failures' \in Nat, UNCHANGED leaves,
         \A k \in Keys : Exists(k) => Exists(k)',
         j.at \in {"deduct", "decide", "refund", "cancel"} => leaves[j.id] # NoLeave,
         j.at = "adjust" => Exists(j.key)',
         j.at = "carryWrite" => j.seen = NoRow \/ Exists(j.key)'
  PROVE  Typed'
<1>1. \A v \in Workers : job[v].at \in {"adjust", "carryWrite"} => job[v].key \in Keys
  BY JobLocals DEF Typed, TypeOK
<1>2. TypeOK' /\ Referenced'
  BY Moves DEF Typed, TypeOK, Referenced
<1>3. Stored'
  BY <1>1, Moves DEF Typed, Stored, Exists
<1> QED BY <1>2, <1>3 DEF Typed

\* The same for a step that stores a request and ends the handler.
LEMMA StoreStep ==
  ASSUME Typed, NEW w \in Workers, Goto(w, Idle), UNCHANGED <<balance, failures>>,
         NEW id \in Leaves, NEW l \in LeaveRows, leaves' = [leaves EXCEPT ![id] = l]
  PROVE  Typed'
<1>1. Idle \in Jobs /\ Idle.at = "idle"
  BY DEF Jobs, Idle
<1>2. leaves' \in [Leaves -> LeaveRows \cup {NoLeave}]
  BY DEF Typed, TypeOK
<1>3. \A v \in Workers : job[v].at \in {"deduct", "decide", "refund", "cancel"} => job[v].id \in Leaves
  BY JobLocals DEF Typed, TypeOK
<1>4. \A x \in Leaves : leaves[x] # NoLeave => leaves'[x] # NoLeave
  BY NullAssumption DEF Typed, TypeOK
<1> QED BY <1>1, <1>2, <1>3, <1>4, Moves DEF Typed, TypeOK, Referenced, Stored, Exists

\* A handler with nothing to do is at no line.
LEMMA IdleJob == Idle \in Jobs /\ Idle.at = "idle"
  BY DEF Jobs, Idle

\* What the four updates write is a row.
LEMMA RowTypes ==
  ASSUME NEW row \in Rows, NEW old \in Rows, NEW c \in Int
  PROVE  /\ Deducted(row, c) \in Rows
         /\ Refunded(row, c) \in Rows
         /\ Adjusted(row, old, c) \in Rows
         /\ CarriedInto(row, old, c) \in Rows
<1>1. \A u, m \in Int : [row EXCEPT !.used = u, !.remaining = m] \in Rows
  BY DEF Rows
<1>2. \A u, m \in Int : [row EXCEPT !.carried = u, !.remaining = m] \in Rows
  BY DEF Rows
<1>3. /\ row.used + c \in Int /\ row.remaining - c \in Int
      /\ row.used - c \in Int /\ row.remaining + c \in Int
      /\ old.entitled \in Int /\ old.used \in Int /\ old.carried \in Int
  BY DEF Rows
<1>4. Deducted(row, c) \in Rows /\ Refunded(row, c) \in Rows
  BY <1>1, <1>3 DEF Deducted, Refunded
<1>5. CarriedInto(row, old, c) \in Rows
  <2>1. PICK m \in Int : m = old.entitled + c - old.used
    BY <1>3
  <2> QED BY <1>2, <2>1 DEF CarriedInto
<1>6. Adjusted(row, old, c) \in Rows
  <2> DEFINE entitled == IF c > 0 THEN old.entitled + c ELSE old.entitled
             used == IF c < 0 THEN old.used - c ELSE old.used
  <2>1. PICK e \in Int, u \in Int : e = entitled /\ u = used
    BY <1>3
  <2>2. PICK m \in Int : m = e + old.carried - u
    BY <1>3
  <2>3. Adjusted(row, old, c) = [row EXCEPT !.entitled = e, !.used = u, !.remaining = m]
    BY <2>1, <2>2 DEF Adjusted
  <2> QED BY <2>3 DEF Rows
<1> QED BY <1>4, <1>5, <1>6

\* One row replaced by another keeps the table well formed.
LEMMA WriteRow ==
  ASSUME TypeOK, NEW k \in Keys, NEW r \in Rows, balance' = [balance EXCEPT ![k] = r]
  PROVE  balance' \in [Keys -> Rows \cup {NoRow}] /\ \A x \in Keys : Exists(x) => Exists(x)'
  BY NullAssumption DEF TypeOK, Exists

\* The handlers of leave.service.ts keep every row and local well formed.
LEMMA RequestTyping ==
  ASSUME Typed, NEW w \in Workers, RequestStep(w)
  PROVE  Typed'
<1> USE DEF Typed, TypeOK, Exists
<1>1. CASE Apply(w)
  <2>1. PICK e \in Employees, t \in Types, first \in Days, last \in Days, half \in BOOLEAN, id \in Leaves :
          /\ Goto(w, [at |-> "overlap", id |-> id,
                      asked |-> [emp |-> e, type |-> t, first |-> first, last |-> last,
                                 charge |-> Charge(first, last, half)]])
          /\ UNCHANGED <<balance, leaves, failures>>
    BY <1>1 DEF Apply, FreshIds
  <2>2. [at |-> "overlap", id |-> id,
         asked |-> [emp |-> e, type |-> t, first |-> first, last |-> last,
                    charge |-> Charge(first, last, half)]] \in Jobs
    BY ChargeType DEF Jobs, Asked
  <2> QED BY <2>1, <2>2, PlaceStep
<1>2. CASE ApplyOverlap(w)
  <2>1. [job[w] EXCEPT !.at = "create"] \in Jobs /\ [job[w] EXCEPT !.at = "create"].at = "create"
    BY <1>2, JobLocals DEF ApplyOverlap, Jobs
  <2>2. Goto(w, Idle) \/ Goto(w, [job[w] EXCEPT !.at = "create"])
    BY <1>2 DEF ApplyOverlap
  <2>3. UNCHANGED <<balance, leaves, failures>>
    BY <1>2 DEF ApplyOverlap
  <2>4. CASE Goto(w, Idle)
    BY <2>3, <2>4, IdleJob, PlaceStep
  <2>5. CASE Goto(w, [job[w] EXCEPT !.at = "create"])
    BY <2>1, <2>3, <2>5, PlaceStep
  <2> QED BY <2>2, <2>4, <2>5
<1>3. CASE ApplyCreate(w)
  <2> DEFINE a == job[w].asked
             l == [emp |-> a.emp, type |-> a.type, first |-> a.first, last |-> a.last,
                   charge |-> a.charge, status |-> "PENDING"]
  <2>1. job[w].id \in Leaves /\ a \in Asked
    BY <1>3, JobLocals DEF ApplyCreate
  <2>2. l \in LeaveRows
    BY <2>1 DEF Asked, LeaveRows, Status
  <2>3. leaves' = [leaves EXCEPT ![job[w].id] = l] /\ Goto(w, Idle) /\ UNCHANGED <<balance, failures>>
    BY <1>3 DEF ApplyCreate
  <2> HIDE DEF l, Typed, TypeOK
  <2> QED BY <2>1, <2>2, <2>3, StoreStep
<1>4. CASE Review(w)
  <2>1. PICK id \in Leaves, verdict \in {"APPROVED", "REJECTED"} :
          /\ leaves[id] # NoLeave
          /\ Goto(w, [at |-> IF verdict = "APPROVED" THEN "deduct" ELSE "decide",
                      id |-> id, verdict |-> verdict])
          /\ UNCHANGED <<balance, leaves, failures>>
    BY <1>4 DEF Review
  <2>2. [at |-> IF verdict = "APPROVED" THEN "deduct" ELSE "decide",
         id |-> id, verdict |-> verdict] \in Jobs
    BY DEF Jobs
  <2> QED BY <2>1, <2>2, PlaceStep
<1>5. CASE ReviewDeduct(w)
  <2>1. job[w].id \in Leaves /\ leaves[job[w].id] \in LeaveRows
    BY <1>5, JobLocals DEF ReviewDeduct, Referenced
  <2>2. leaves[job[w].id].charge \in Nat /\ KeyOf(leaves[job[w].id]) \in Keys
    BY <2>1, KeyType DEF LeaveRows
  <2>3. balance' \in [Keys -> Rows \cup {NoRow}] /\ \A k \in Keys : Exists(k) => Exists(k)'
    <3>1. CASE Exists(KeyOf(leaves[job[w].id]))
      <4>1. balance[KeyOf(leaves[job[w].id])] \in Rows
        BY <2>2, <3>1
      <4>2. Deducted(balance[KeyOf(leaves[job[w].id])], leaves[job[w].id].charge) \in Rows
        BY <2>2, <4>1, RowTypes
      <4>3. balance' = [balance EXCEPT ![KeyOf(leaves[job[w].id])] =
              Deducted(balance[KeyOf(leaves[job[w].id])], leaves[job[w].id].charge)]
        BY <1>5, <2>2, <3>1 DEF ReviewDeduct
      <4> HIDE DEF Exists
      <4> QED BY <2>2, <4>2, <4>3, WriteRow
    <3>2. CASE ~ Exists(KeyOf(leaves[job[w].id]))
      BY <1>5, <3>2 DEF ReviewDeduct
    <3> QED BY <3>1, <3>2
  <2>4. /\ [job[w] EXCEPT !.at = "decide"] \in Jobs
        /\ [job[w] EXCEPT !.at = "decide"].id = job[w].id
        /\ [job[w] EXCEPT !.at = "decide"].at = "decide"
    BY <1>5, JobLocals DEF ReviewDeduct, Jobs
  <2>5. /\ Goto(w, Idle) \/ Goto(w, [job[w] EXCEPT !.at = "decide"])
        /\ UNCHANGED <<leaves, failures>>
    BY <1>5 DEF ReviewDeduct
  <2>6. CASE Goto(w, Idle)
    BY <2>3, <2>5, <2>6, IdleJob, PlaceStep
  <2>7. CASE Goto(w, [job[w] EXCEPT !.at = "decide"])
    BY <2>1, <2>3, <2>4, <2>5, <2>7, NullAssumption, PlaceStep
  <2> QED BY <2>5, <2>6, <2>7
<1>6. CASE ReviewDecide(w)
  <2> DEFINE l == [leaves[job[w].id] EXCEPT !.status = job[w].verdict]
  <2>1. job[w].id \in Leaves /\ leaves[job[w].id] \in LeaveRows /\ job[w].verdict \in Status
    BY <1>6, JobLocals DEF ReviewDecide, Referenced, Status
  <2>2. l \in LeaveRows
    BY <2>1 DEF LeaveRows
  <2>3. leaves' = [leaves EXCEPT ![job[w].id] = l] /\ Goto(w, Idle) /\ UNCHANGED <<balance, failures>>
    BY <1>6, <2>1 DEF ReviewDecide
  <2> HIDE DEF l, Typed, TypeOK
  <2> QED BY <2>1, <2>2, <2>3, StoreStep
<1>7. CASE Cancel(w)
  <2>1. PICK id \in Leaves, u \in Users :
          /\ leaves[id] # NoLeave
          /\ MayCancel(u, leaves[id])
          /\ Goto(w, [at |-> IF leaves[id].status = "APPROVED" THEN "refund" ELSE "cancel",
                      id |-> id, seen |-> leaves[id].status])
          /\ UNCHANGED <<balance, leaves, failures>>
    BY <1>7 DEF Cancel
  <2>2. leaves[id].status \in {"PENDING", "APPROVED"}
    BY <2>1 DEF MayCancel
  <2>3. [at |-> IF leaves[id].status = "APPROVED" THEN "refund" ELSE "cancel",
         id |-> id, seen |-> leaves[id].status] \in Jobs
    BY <2>2 DEF Jobs
  <2> QED BY <2>1, <2>3, PlaceStep
<1>8. CASE CancelRefund(w)
  <2>1. job[w].id \in Leaves /\ leaves[job[w].id] \in LeaveRows
    BY <1>8, JobLocals DEF CancelRefund, Referenced
  <2>2. leaves[job[w].id].charge \in Nat /\ KeyOf(leaves[job[w].id]) \in Keys
    BY <2>1, KeyType DEF LeaveRows
  <2>3. balance' \in [Keys -> Rows \cup {NoRow}] /\ \A k \in Keys : Exists(k) => Exists(k)'
    <3>1. CASE Exists(KeyOf(leaves[job[w].id]))
      <4>1. balance[KeyOf(leaves[job[w].id])] \in Rows
        BY <2>2, <3>1
      <4>2. Refunded(balance[KeyOf(leaves[job[w].id])], leaves[job[w].id].charge) \in Rows
        BY <2>2, <4>1, RowTypes
      <4>3. balance' = [balance EXCEPT ![KeyOf(leaves[job[w].id])] =
              Refunded(balance[KeyOf(leaves[job[w].id])], leaves[job[w].id].charge)]
        BY <1>8, <2>2, <3>1 DEF CancelRefund
      <4> HIDE DEF Exists
      <4> QED BY <2>2, <4>2, <4>3, WriteRow
    <3>2. CASE ~ Exists(KeyOf(leaves[job[w].id]))
      BY <1>8, <3>2 DEF CancelRefund
    <3> QED BY <3>1, <3>2
  <2>4. /\ [job[w] EXCEPT !.at = "cancel"] \in Jobs
        /\ [job[w] EXCEPT !.at = "cancel"].id = job[w].id
        /\ [job[w] EXCEPT !.at = "cancel"].at = "cancel"
    BY <1>8, JobLocals DEF CancelRefund, Jobs
  <2>5. /\ Goto(w, Idle) \/ Goto(w, [job[w] EXCEPT !.at = "cancel"])
        /\ UNCHANGED <<leaves, failures>>
    BY <1>8 DEF CancelRefund
  <2>6. CASE Goto(w, Idle)
    BY <2>3, <2>5, <2>6, IdleJob, PlaceStep
  <2>7. CASE Goto(w, [job[w] EXCEPT !.at = "cancel"])
    BY <2>1, <2>3, <2>4, <2>5, <2>7, NullAssumption, PlaceStep
  <2> QED BY <2>5, <2>6, <2>7
<1>9. CASE CancelWrite(w)
  <2> DEFINE l == [leaves[job[w].id] EXCEPT !.status = "CANCELLED"]
  <2>1. job[w].id \in Leaves /\ leaves[job[w].id] \in LeaveRows
    BY <1>9, JobLocals DEF CancelWrite, Referenced
  <2>2. l \in LeaveRows
    BY <2>1 DEF LeaveRows, Status
  <2>3. leaves' = [leaves EXCEPT ![job[w].id] = l] /\ Goto(w, Idle) /\ UNCHANGED <<balance, failures>>
    BY <1>9, <2>1 DEF CancelWrite
  <2> HIDE DEF l, Typed, TypeOK
  <2> QED BY <2>1, <2>2, <2>3, StoreStep
<1> QED BY <1>1, <1>2, <1>3, <1>4, <1>5, <1>6, <1>7, <1>8, <1>9 DEF RequestStep

\* The handlers of leave-admin.service.ts do.
LEMMA AdminTyping ==
  ASSUME Typed, NEW w \in Workers, AdminStep(w)
  PROVE  Typed'
<1> USE DEF Typed, TypeOK, Exists
<1>1. CASE Initialize(w)
  <2>1. PICK es \in {{e} : e \in Employees} \cup {Employees}, y \in Years :
          /\ Goto(w, InitLoop({k \in Keys : k[1] \in es /\ Policy[k[2]].active /\ k[3] = y}))
          /\ UNCHANGED <<balance, leaves, failures>>
    BY <1>1 DEF Initialize
  <2> DEFINE todo == {k \in Keys : k[1] \in es /\ Policy[k[2]].active /\ k[3] = y}
  <2>2. InitLoop(todo) \in Jobs /\ InitLoop(todo).at \in {"idle", "initFind"}
    BY LoopJobs DEF InitLoop, Idle
  <2> HIDE DEF todo, Typed
  <2> QED BY <2>1, <2>2, PlaceStep DEF Typed, todo
<1>2. CASE InitializeFind(w)
  <2>1. PICK k \in job[w].todo :
          /\ Goto(w, IF Exists(k)
                       THEN InitLoop(job[w].todo \ {k})
                       ELSE [at |-> "initCreate", key |-> k, todo |-> job[w].todo \ {k}])
          /\ UNCHANGED <<balance, leaves, failures>>
    BY <1>2 DEF InitializeFind
  <2>2. job[w].todo \subseteq Keys
    BY <1>2, JobLocals DEF InitializeFind
  <2> DEFINE rest == job[w].todo \ {k}
  <2>3. InitLoop(rest) \in Jobs /\ InitLoop(rest).at \in {"idle", "initFind"}
    BY <2>2, LoopJobs DEF InitLoop, Idle
  <2>4. [at |-> "initCreate", key |-> k, todo |-> rest] \in Jobs
    BY <2>2 DEF Jobs
  <2> HIDE DEF rest, Typed
  <2> QED BY <2>1, <2>3, <2>4, PlaceStep DEF Typed, rest
<1>3. CASE InitializeCreate(w)
  <2>1. job[w].key \in Keys /\ job[w].todo \subseteq Keys
    BY <1>3, JobLocals DEF InitializeCreate
  <2>2. Policy[job[w].key[2]].perYear \in Nat
    BY <2>1, PolicyAssumption DEF Keys, PolicyType
  <2>3. balance' \in [Keys -> Rows \cup {NoRow}] /\ \A k \in Keys : Exists(k) => Exists(k)'
    BY <1>3, <2>1, <2>2, NullAssumption DEF InitializeCreate, Rows
  <2>4. InitLoop(job[w].todo) \in Jobs /\ InitLoop(job[w].todo).at \in {"idle", "initFind"}
    BY <2>1, LoopJobs DEF InitLoop, Idle
  <2>5. /\ Goto(w, Idle) \/ Goto(w, InitLoop(job[w].todo))
        /\ UNCHANGED <<leaves, failures>>
    BY <1>3 DEF InitializeCreate
  <2> HIDE DEF Typed
  <2> QED BY <2>3, <2>4, <2>5, IdleJob, PlaceStep DEF Typed
<1>4. CASE Adjust(w)
  <2>1. PICK k \in Keys, a \in Adjustments :
          /\ Exists(k)
          /\ Goto(w, [at |-> "adjust", key |-> k, seen |-> balance[k], by |-> a])
          /\ UNCHANGED <<balance, leaves, failures>>
    BY <1>4 DEF Adjust
  <2>2. [at |-> "adjust", key |-> k, seen |-> balance[k], by |-> a] \in Jobs
    BY <2>1 DEF Jobs, Exists
  <2> QED BY <2>1, <2>2, PlaceStep
<1>5. CASE AdjustWrite(w)
  <2>1. job[w].key \in Keys /\ job[w].seen \in Rows /\ job[w].by \in Int
    BY <1>5, JobLocals, PolicyAssumption DEF AdjustWrite
  <2>2. balance' \in [Keys -> Rows \cup {NoRow}] /\ \A k \in Keys : Exists(k) => Exists(k)'
    <3>1. balance[job[w].key] \in Rows
      BY <1>5, <2>1 DEF Stored, AdjustWrite
    <3>2. Adjusted(balance[job[w].key], job[w].seen, job[w].by) \in Rows
      BY <2>1, <3>1, RowTypes
    <3>3. balance' = [balance EXCEPT ![job[w].key] =
            Adjusted(balance[job[w].key], job[w].seen, job[w].by)]
      BY <1>5, <2>1 DEF AdjustWrite
    <3> HIDE DEF Exists
    <3> QED BY <2>1, <3>2, <3>3, WriteRow
  <2> HIDE DEF Typed
  <2> QED BY <1>5, <2>2, IdleJob, PlaceStep DEF Typed, AdjustWrite
<1>6. CASE CarryForward(w)
  <2>1. PICK y \in Years :
          LET from == {k \in Keys : /\ k[3] = y - 1
                                    /\ Carries(k[2])
                                    /\ Exists(k)
                                    /\ Smaller(balance[k].remaining, Policy[k[2]].maxCarry) > 0}
          IN Goto(w, CarryLoop({[key |-> <<k[1], k[2], y>>,
                                 amount |-> Smaller(balance[k].remaining, Policy[k[2]].maxCarry)] : k \in from}))
    BY <1>6 DEF CarryForward
  <2> DEFINE from == {k \in Keys : /\ k[3] = y - 1
                                   /\ Carries(k[2])
                                   /\ Exists(k)
                                   /\ Smaller(balance[k].remaining, Policy[k[2]].maxCarry) > 0}
             todo == {[key |-> <<k[1], k[2], y>>,
                       amount |-> Smaller(balance[k].remaining, Policy[k[2]].maxCarry)] : k \in from}
  <2>2. ASSUME NEW k \in from
        PROVE  [key |-> <<k[1], k[2], y>>,
                amount |-> Smaller(balance[k].remaining, Policy[k[2]].maxCarry)] \in Carry
    <3>1. <<k[1], k[2], y>> \in Keys /\ k[2] \in Types
      BY DEF Keys
    <3>2. Policy[k[2]].maxCarry \in Int /\ balance[k].remaining \in Int
      BY <3>1, PolicyAssumption DEF PolicyType, Rows
    <3> QED BY <3>1, <3>2 DEF Smaller, Carry
  <2>3. todo \subseteq Carry
    BY <2>2
  <2>4. CarryLoop(todo) \in Jobs /\ CarryLoop(todo).at \in {"idle", "carryFind"}
    BY <2>3, LoopJobs DEF CarryLoop, Idle
  <2>5. Goto(w, CarryLoop(todo)) /\ UNCHANGED <<balance, leaves, failures>>
    BY <1>6, <2>1 DEF CarryForward
  <2> HIDE DEF todo, Typed
  <2> QED BY <2>4, <2>5, PlaceStep DEF Typed
<1>7. CASE CarryFind(w)
  <2>1. PICK c \in job[w].todo :
          /\ Goto(w, [at |-> "carryWrite", key |-> c.key, amount |-> c.amount,
                      seen |-> balance[c.key], todo |-> job[w].todo \ {c}])
          /\ UNCHANGED <<balance, leaves, failures>>
    BY <1>7 DEF CarryFind
  <2>2. job[w].todo \subseteq Carry
    BY <1>7, JobLocals DEF CarryFind
  <2>3. c.key \in Keys /\ c.amount \in Int /\ balance[c.key] \in Rows \cup {NoRow}
    BY <2>2 DEF Carry
  <2>4. [at |-> "carryWrite", key |-> c.key, amount |-> c.amount,
         seen |-> balance[c.key], todo |-> job[w].todo \ {c}] \in Jobs
    BY <2>2, <2>3 DEF Jobs
  <2> QED BY <2>1, <2>4, PlaceStep
<1>8. CASE CarryWrite(w)
  <2>1. /\ job[w].key \in Keys /\ job[w].amount \in Int /\ job[w].seen \in Rows \cup {NoRow}
        /\ job[w].todo \subseteq Carry
    BY <1>8, JobLocals DEF CarryWrite
  <2>2. Policy[job[w].key[2]].perYear \in Nat
    BY <2>1, PolicyAssumption DEF Keys, PolicyType
  <2>3. balance' \in [Keys -> Rows \cup {NoRow}] /\ \A k \in Keys : Exists(k) => Exists(k)'
    <3>1. CASE job[w].seen # NoRow
      <4>1. job[w].seen \in Rows /\ balance[job[w].key] \in Rows
        BY <1>8, <2>1, <3>1 DEF Stored, CarryWrite
      <4>2. CarriedInto(balance[job[w].key], job[w].seen, job[w].amount) \in Rows
        BY <2>1, <4>1, RowTypes
      <4>3. balance' = [balance EXCEPT ![job[w].key] =
              CarriedInto(balance[job[w].key], job[w].seen, job[w].amount)]
        BY <1>8, <2>1, <3>1 DEF CarryWrite
      <4> HIDE DEF Exists
      <4> QED BY <2>1, <4>2, <4>3, WriteRow
    <3>2. CASE job[w].seen = NoRow
      BY <1>8, <2>1, <2>2, <3>2, NullAssumption DEF CarryWrite, Rows
    <3> QED BY <3>1, <3>2
  <2>4. CarryLoop(job[w].todo) \in Jobs /\ CarryLoop(job[w].todo).at \in {"idle", "carryFind"}
    BY <2>1, LoopJobs DEF CarryLoop, Idle
  <2>5. /\ Goto(w, Idle) \/ Goto(w, CarryLoop(job[w].todo))
        /\ UNCHANGED <<leaves, failures>>
    BY <1>8 DEF CarryWrite
  <2> HIDE DEF Typed
  <2> QED BY <2>3, <2>4, <2>5, IdleJob, PlaceStep DEF Typed
<1> QED BY <1>1, <1>2, <1>3, <1>4, <1>5, <1>6, <1>7, <1>8 DEF AdminStep

\* So does every step, and the first state is well formed.
LEMMA TypingStep == Typed /\ [Next]_vars => Typed'
<1> SUFFICES ASSUME Typed, [Next]_vars PROVE Typed'
  OBVIOUS
<1>1. ASSUME NEW w \in Workers, Fail(w) PROVE Typed'
  <2>1. /\ Goto(w, Idle) /\ UNCHANGED <<balance, leaves>> /\ failures' = failures + 1
    BY <1>1 DEF Fail
  <2> QED BY <2>1, IdleJob, PlaceStep DEF Typed, TypeOK, Exists
<1>2. CASE UNCHANGED vars
  BY <1>2 DEF vars, Typed, TypeOK, Referenced, Stored, Exists
<1> QED BY <1>1, <1>2, RequestTyping, AdminTyping DEF Next

LEMMA TypingInit == Init => Typed
  BY IdleJob, NullAssumption DEF Init, Typed, TypeOK, Referenced, Stored, Exists

\* Type correctness, together with the fact that no handler works on a request
\* or a balance row that is not stored.
THEOREM TypeCorrect == Spec => []TypeOK
<1>1. Spec => []Typed
  BY TypingInit, TypingStep, PTL DEF Spec
<1>2. Typed => TypeOK
  BY DEF Typed
<1> QED BY <1>1, <1>2, PTL

-----------------------------------------------------------------------------
\* Handlers that have not moved keep what NothingCarried says of them.
LEMMA CarriedJobs ==
  ASSUME Typed, NothingCarried, NEW w \in Workers, NEW j \in Jobs, Goto(w, j),
         j.at = "adjust" /\ ~ Carries(j.key[2]) => j.seen.carried = 0,
         j.at = "carryWrite" => Carries(j.key[2]),
         j.at \in {"carryFind", "carryWrite"} => \A c \in j.todo : Carries(c.key[2]),
         \A k \in Keys : ~ Carries(k[2]) /\ balance'[k] # NoRow => balance'[k].carried = 0
  PROVE  NothingCarried'
<1>1. \A v \in Workers : job'[v] = IF v = w THEN j ELSE job[v]
  BY Moves DEF Typed
<1>2. \A k \in Keys : ~ Carries(k[2]) /\ Exists(k)' => balance'[k].carried = 0
  BY DEF Exists
<1>3. ASSUME NEW v \in Workers
      PROVE /\ job'[v].at = "adjust" /\ ~ Carries(job'[v].key[2]) => job'[v].seen.carried = 0
            /\ job'[v].at = "carryWrite" => Carries(job'[v].key[2])
            /\ job'[v].at \in {"carryFind", "carryWrite"} => \A c \in job'[v].todo : Carries(c.key[2])
  <2>1. CASE v = w
    BY <1>1, <2>1
  <2>2. CASE v # w
    BY <1>1, <2>2 DEF NothingCarried
  <2> QED BY <2>1, <2>2
<1> QED BY <1>2, <1>3 DEF NothingCarried, Carries

\* A step that writes no balance row keeps both.
LEMMA QuietStep ==
  ASSUME IInv, UNCHANGED balance, NEW w \in Workers, NEW j \in Jobs, Goto(w, j),
         j.at = "adjust" /\ ~ Carries(j.key[2]) => j.seen.carried = 0,
         j.at = "carryWrite" => Carries(j.key[2]),
         j.at \in {"carryFind", "carryWrite"} => \A c \in j.todo : Carries(c.key[2])
  PROVE  NothingCarried' /\ BooksBalance'
<1>1. BooksBalance'
  BY DEF IInv, BooksBalance, Carries, Balanced
<1>2. \A k \in Keys : ~ Carries(k[2]) /\ balance'[k] # NoRow => balance'[k].carried = 0
  BY DEF IInv, NothingCarried, Exists
<1> QED BY <1>1, <1>2, CarriedJobs DEF IInv

\* A step that writes one row keeps both when that row is sound.
LEMMA RowStep ==
  ASSUME IInv, NEW w \in Workers, NEW j \in Jobs, Goto(w, j),
         NEW k \in Keys, NEW r \in Rows, balance' = [balance EXCEPT ![k] = r],
         ~ Carries(k[2]) => r.carried = 0 /\ Balanced(r),
         j.at \notin {"adjust", "carryWrite"},
         j.at = "carryFind" => \A c \in j.todo : Carries(c.key[2])
  PROVE  NothingCarried' /\ BooksBalance'
<1>1. \A x \in Keys : balance'[x] = IF x = k THEN r ELSE balance[x]
  BY DEF IInv, Typed, TypeOK
<1>2. BooksBalance'
  BY <1>1 DEF IInv, BooksBalance, Carries, Balanced
<1>3. \A x \in Keys : ~ Carries(x[2]) /\ balance'[x] # NoRow => balance'[x].carried = 0
  BY <1>1 DEF IInv, NothingCarried, Exists
<1> QED BY <1>2, <1>3, CarriedJobs DEF IInv

\* The handlers of leave.service.ts keep the rows that are not carried forward balanced.
LEMMA RequestBooks ==
  ASSUME IInv, NEW w \in Workers, RequestStep(w)
  PROVE  NothingCarried' /\ BooksBalance'
<1> USE DEF IInv, Typed, TypeOK
<1>1. ASSUME NEW j \in Jobs, Goto(w, j), UNCHANGED balance,
             j.at \notin {"adjust", "carryFind", "carryWrite"}
      PROVE  NothingCarried' /\ BooksBalance'
  BY <1>1, QuietStep
<1>2. CASE Apply(w)
  <2>1. PICK e \in Employees, t \in Types, first \in Days, last \in Days, half \in BOOLEAN, id \in Leaves :
          /\ Goto(w, [at |-> "overlap", id |-> id,
                      asked |-> [emp |-> e, type |-> t, first |-> first, last |-> last,
                                 charge |-> Charge(first, last, half)]])
          /\ UNCHANGED balance
    BY <1>2 DEF Apply, FreshIds
  <2>2. [at |-> "overlap", id |-> id,
         asked |-> [emp |-> e, type |-> t, first |-> first, last |-> last,
                    charge |-> Charge(first, last, half)]] \in Jobs
    BY ChargeType DEF Jobs, Asked
  <2> QED BY <1>1, <2>1, <2>2
<1>3. CASE ApplyOverlap(w)
  <2>1. [job[w] EXCEPT !.at = "create"] \in Jobs /\ [job[w] EXCEPT !.at = "create"].at = "create"
    BY <1>3, JobLocals DEF ApplyOverlap, Jobs
  <2> QED BY <1>1, <1>3, <2>1, IdleJob DEF ApplyOverlap
<1>4. CASE ApplyCreate(w) \/ ReviewDecide(w) \/ CancelWrite(w)
  BY <1>1, <1>4, IdleJob DEF ApplyCreate, ReviewDecide, CancelWrite
<1>5. CASE Review(w)
  <2>1. PICK id \in Leaves, verdict \in {"APPROVED", "REJECTED"} :
          /\ Goto(w, [at |-> IF verdict = "APPROVED" THEN "deduct" ELSE "decide",
                      id |-> id, verdict |-> verdict])
          /\ UNCHANGED balance
    BY <1>5 DEF Review
  <2>2. [at |-> IF verdict = "APPROVED" THEN "deduct" ELSE "decide",
         id |-> id, verdict |-> verdict] \in Jobs
    BY DEF Jobs
  <2> QED BY <1>1, <2>1, <2>2
<1>6. CASE Cancel(w)
  <2>1. PICK id \in Leaves, u \in Users :
          /\ MayCancel(u, leaves[id])
          /\ Goto(w, [at |-> IF leaves[id].status = "APPROVED" THEN "refund" ELSE "cancel",
                      id |-> id, seen |-> leaves[id].status])
          /\ UNCHANGED balance
    BY <1>6 DEF Cancel
  <2>2. [at |-> IF leaves[id].status = "APPROVED" THEN "refund" ELSE "cancel",
         id |-> id, seen |-> leaves[id].status] \in Jobs
    BY <2>1 DEF Jobs, MayCancel
  <2> QED BY <1>1, <2>1, <2>2
<1>7. CASE ReviewDeduct(w)
  <2> DEFINE l == leaves[job[w].id]
             k == KeyOf(l)
             r == [balance[k] EXCEPT !.used = balance[k].used + l.charge,
                                  !.remaining = balance[k].remaining - l.charge]
  <2>1. l.charge \in Nat /\ k \in Keys
    BY <1>7, JobLocals, KeyType DEF ReviewDeduct, Referenced, LeaveRows
  <2>2. /\ [job[w] EXCEPT !.at = "decide"] \in Jobs
        /\ [job[w] EXCEPT !.at = "decide"].at = "decide"
    BY <1>7, JobLocals DEF ReviewDeduct, Jobs
  <2>3. CASE Exists(k)
    <3>1. balance[k] \in Rows
      BY <2>1, <2>3 DEF Exists
    <3>2. r \in Rows /\ r.carried = balance[k].carried /\ (Balanced(balance[k]) => Balanced(r))
        <4>1. PICK row \in Rows, c \in Int : row = balance[k] /\ c = l.charge
        BY <2>1, <3>1
      <4>2. PICK u \in Int, m \in Int : u = row.used + c /\ m = row.remaining - c
        BY DEF Rows
      <4>3. r = [row EXCEPT !.used = u, !.remaining = m]
        BY <4>1, <4>2
      <4> HIDE DEF r, k, l
      <4>4. /\ r \in Rows /\ r.entitled = row.entitled /\ r.used = u
            /\ r.carried = row.carried /\ r.remaining = m
        BY <4>3 DEF Rows
      <4> QED BY <4>1, <4>2, <4>4, NullAssumption DEF Rows, Balanced
    <3>3. balance' = [balance EXCEPT ![k] = r] /\ Goto(w, [job[w] EXCEPT !.at = "decide"])
      BY <1>7, <2>1, <2>3 DEF ReviewDeduct, Deducted
    <3>4. ~ Carries(k[2]) => balance[k].carried = 0 /\ Balanced(balance[k])
      BY <2>1, <2>3 DEF NothingCarried, BooksBalance
    <3> HIDE DEF k, r, l, IInv, Typed, TypeOK
    <3> QED BY <2>1, <2>2, <3>2, <3>3, <3>4, RowStep
  <2>4. CASE ~ Exists(k)
    BY <1>1, <1>7, <2>4, IdleJob DEF ReviewDeduct
  <2> QED BY <2>3, <2>4
<1>8. CASE CancelRefund(w)
  <2> DEFINE l == leaves[job[w].id]
             k == KeyOf(l)
             r == [balance[k] EXCEPT !.used = balance[k].used - l.charge,
                                  !.remaining = balance[k].remaining + l.charge]
  <2>1. l.charge \in Nat /\ k \in Keys
    BY <1>8, JobLocals, KeyType DEF CancelRefund, Referenced, LeaveRows
  <2>2. /\ [job[w] EXCEPT !.at = "cancel"] \in Jobs
        /\ [job[w] EXCEPT !.at = "cancel"].at = "cancel"
    BY <1>8, JobLocals DEF CancelRefund, Jobs
  <2>3. CASE Exists(k)
    <3>1. balance[k] \in Rows
      BY <2>1, <2>3 DEF Exists
    <3>2. r \in Rows /\ r.carried = balance[k].carried /\ (Balanced(balance[k]) => Balanced(r))
        <4>1. PICK row \in Rows, c \in Int : row = balance[k] /\ c = l.charge
        BY <2>1, <3>1
      <4>2. PICK u \in Int, m \in Int : u = row.used - c /\ m = row.remaining + c
        BY DEF Rows
      <4>3. r = [row EXCEPT !.used = u, !.remaining = m]
        BY <4>1, <4>2
      <4> HIDE DEF r, k, l
      <4>4. /\ r \in Rows /\ r.entitled = row.entitled /\ r.used = u
            /\ r.carried = row.carried /\ r.remaining = m
        BY <4>3 DEF Rows
      <4> QED BY <4>1, <4>2, <4>4, NullAssumption DEF Rows, Balanced
    <3>3. balance' = [balance EXCEPT ![k] = r] /\ Goto(w, [job[w] EXCEPT !.at = "cancel"])
      BY <1>8, <2>1, <2>3 DEF CancelRefund, Refunded
    <3>4. ~ Carries(k[2]) => balance[k].carried = 0 /\ Balanced(balance[k])
      BY <2>1, <2>3 DEF NothingCarried, BooksBalance
    <3> HIDE DEF k, r, l, IInv, Typed, TypeOK
    <3> QED BY <2>1, <2>2, <3>2, <3>3, <3>4, RowStep
  <2>4. CASE ~ Exists(k)
    BY <1>1, <1>8, <2>4, IdleJob DEF CancelRefund
  <2> QED BY <2>3, <2>4
<1> QED BY <1>2, <1>3, <1>4, <1>5, <1>6, <1>7, <1>8 DEF RequestStep

\* The handlers of leave-admin.service.ts do.
LEMMA AdminBooks ==
  ASSUME IInv, NEW w \in Workers, AdminStep(w)
  PROVE  NothingCarried' /\ BooksBalance'
<1> USE DEF IInv, Typed, TypeOK
<1>1. ASSUME NEW j \in Jobs, Goto(w, j), UNCHANGED balance,
             j.at \notin {"adjust", "carryFind", "carryWrite"}
      PROVE  NothingCarried' /\ BooksBalance'
  BY <1>1, QuietStep
<1>2. CASE Initialize(w)
  <2>1. PICK es \in {{e} : e \in Employees} \cup {Employees}, y \in Years :
          /\ Goto(w, InitLoop({k \in Keys : k[1] \in es /\ Policy[k[2]].active /\ k[3] = y}))
          /\ UNCHANGED balance
    BY <1>2 DEF Initialize
  <2> DEFINE todo == {k \in Keys : k[1] \in es /\ Policy[k[2]].active /\ k[3] = y}
  <2>2. InitLoop(todo) \in Jobs /\ InitLoop(todo).at \in {"idle", "initFind"}
    BY LoopJobs DEF InitLoop, Idle
  <2> QED BY <1>1, <2>1, <2>2
<1>3. CASE InitializeFind(w)
  <2>1. PICK k \in job[w].todo :
          /\ Goto(w, IF Exists(k)
                       THEN InitLoop(job[w].todo \ {k})
                       ELSE [at |-> "initCreate", key |-> k, todo |-> job[w].todo \ {k}])
          /\ UNCHANGED balance
    BY <1>3 DEF InitializeFind
  <2>2. job[w].todo \subseteq Keys
    BY <1>3, JobLocals DEF InitializeFind
  <2> DEFINE rest == job[w].todo \ {k}
  <2>3. InitLoop(rest) \in Jobs /\ InitLoop(rest).at \in {"idle", "initFind"}
    BY <2>2, LoopJobs DEF InitLoop, Idle
  <2>4. [at |-> "initCreate", key |-> k, todo |-> rest] \in Jobs
    BY <2>2 DEF Jobs
  <2> QED BY <1>1, <2>1, <2>3, <2>4
<1>4. CASE InitializeCreate(w)
  <2>1. job[w].key \in Keys /\ job[w].todo \subseteq Keys
    BY <1>4, JobLocals DEF InitializeCreate
  <2> DEFINE n == Policy[job[w].key[2]].perYear
             r == [entitled |-> n, used |-> 0, carried |-> 0, remaining |-> n]
  <2>2. n \in Nat
    BY <2>1, PolicyAssumption DEF Keys, PolicyType
  <2>3. r \in Rows /\ r.carried = 0 /\ Balanced(r)
    BY <2>2 DEF Rows, Balanced
  <2>4. InitLoop(job[w].todo) \in Jobs /\ InitLoop(job[w].todo).at \in {"idle", "initFind"}
    BY <2>1, LoopJobs DEF InitLoop, Idle
  <2>5. CASE Exists(job[w].key)
    BY <1>1, <1>4, <2>5, IdleJob DEF InitializeCreate
  <2>6. CASE ~ Exists(job[w].key)
    <3>1. balance' = [balance EXCEPT ![job[w].key] = r] /\ Goto(w, InitLoop(job[w].todo))
      BY <1>4, <2>6 DEF InitializeCreate
    <3> HIDE DEF r, IInv, Typed, TypeOK
    <3> QED BY <2>1, <2>3, <2>4, <3>1, RowStep
  <2> QED BY <2>5, <2>6
<1>5. CASE Adjust(w)
  <2>1. PICK k \in Keys, a \in Adjustments :
          /\ Exists(k)
          /\ Goto(w, [at |-> "adjust", key |-> k, seen |-> balance[k], by |-> a])
          /\ UNCHANGED balance
    BY <1>5 DEF Adjust
  <2> DEFINE j == [at |-> "adjust", key |-> k, seen |-> balance[k], by |-> a]
  <2>2. j \in Jobs
    BY <2>1 DEF Jobs, Exists
  <2>3. j.at = "adjust" /\ j.key = k /\ (~ Carries(k[2]) => j.seen.carried = 0)
    BY <2>1 DEF NothingCarried
  <2> HIDE DEF j, IInv, Typed, TypeOK
  <2> QED BY <2>1, <2>2, <2>3, QuietStep DEF j
<1>6. CASE AdjustWrite(w)
  <2>1. job[w].key \in Keys /\ job[w].seen \in Rows /\ job[w].by \in Int
    BY <1>6, JobLocals, PolicyAssumption DEF AdjustWrite
  <2>2. balance[job[w].key] \in Rows
    BY <1>6, <2>1 DEF Stored, AdjustWrite, Exists
  <2> DEFINE a == job[w].by
             old == job[w].seen
             entitled == IF a > 0 THEN old.entitled + a ELSE old.entitled
             used == IF a < 0 THEN old.used - a ELSE old.used
             r == [balance[job[w].key] EXCEPT !.entitled = entitled, !.used = used,
                                              !.remaining = entitled + old.carried - used]
  <2>3. entitled \in Int /\ used \in Int /\ old.carried \in Int
    BY <2>1 DEF Rows
  <2>4. balance' = [balance EXCEPT ![job[w].key] = r] /\ Goto(w, Idle)
    BY <1>6, <2>1 DEF AdjustWrite, Adjusted
  <2>5. ~ Carries(job[w].key[2]) => old.carried = 0 /\ balance[job[w].key].carried = 0
    BY <1>6, <2>1, <2>2, NullAssumption DEF NothingCarried, AdjustWrite, Exists
  <2> HIDE DEF entitled, used
  <2>6. /\ r \in Rows /\ r.carried = balance[job[w].key].carried
        /\ r.remaining = r.entitled + old.carried - r.used
    <3>1. PICK row \in Rows : row = balance[job[w].key]
      BY <2>2
    <3>2. PICK m \in Int : m = entitled + old.carried - used
      BY <2>3
    <3>3. r = [row EXCEPT !.entitled = entitled, !.used = used, !.remaining = m]
      BY <3>1, <3>2
    <3> HIDE DEF r, old
    <3>4. r \in Rows /\ r.entitled = entitled /\ r.used = used /\ r.carried = row.carried /\ r.remaining = m
      BY <2>3, <3>3 DEF Rows
    <3> QED BY <2>3, <3>1, <3>2, <3>4
  <2> HIDE DEF r, old, IInv, Typed, TypeOK
  <2>7. ~ Carries(job[w].key[2]) => r.carried = 0 /\ Balanced(r)
    BY <2>5, <2>6 DEF Balanced
  <2> QED BY <2>1, <2>4, <2>6, <2>7, IdleJob, RowStep
<1>7. CASE CarryForward(w)
  <2>1. PICK y \in Years :
          LET from == {k \in Keys : /\ k[3] = y - 1
                                    /\ Carries(k[2])
                                    /\ Exists(k)
                                    /\ Smaller(balance[k].remaining, Policy[k[2]].maxCarry) > 0}
          IN Goto(w, CarryLoop({[key |-> <<k[1], k[2], y>>,
                                 amount |-> Smaller(balance[k].remaining, Policy[k[2]].maxCarry)] : k \in from}))
    BY <1>7 DEF CarryForward
  <2> DEFINE from == {k \in Keys : /\ k[3] = y - 1
                                   /\ Carries(k[2])
                                   /\ Exists(k)
                                   /\ Smaller(balance[k].remaining, Policy[k[2]].maxCarry) > 0}
             todo == {[key |-> <<k[1], k[2], y>>,
                       amount |-> Smaller(balance[k].remaining, Policy[k[2]].maxCarry)] : k \in from}
  <2>2. Goto(w, CarryLoop(todo)) /\ UNCHANGED <<balance, leaves, failures>>
    BY <1>7, <2>1 DEF CarryForward
  <2>3. \A c \in todo : Carries(c.key[2])
    OBVIOUS
  <2>4. CarryLoop(todo) \in Jobs
    <3>1. CarryLoop(todo) \in Jobs \/ todo # {}
      BY IdleJob DEF CarryLoop
    <3>2. ASSUME NEW k \in from
          PROVE  [key |-> <<k[1], k[2], y>>,
                  amount |-> Smaller(balance[k].remaining, Policy[k[2]].maxCarry)] \in Carry
      <4>1. <<k[1], k[2], y>> \in Keys /\ k[2] \in Types
        BY DEF Keys
      <4>2. Policy[k[2]].maxCarry \in Int /\ balance[k].remaining \in Int
        BY <4>1, PolicyAssumption DEF PolicyType, Rows, Exists
      <4> QED BY <4>1, <4>2 DEF Smaller, Carry
    <3> QED BY <3>2, LoopJobs
  <2> HIDE DEF todo, IInv, Typed, TypeOK
  <2>5. /\ CarryLoop(todo).at \notin {"adjust", "carryWrite"}
        /\ CarryLoop(todo).at = "carryFind" => CarryLoop(todo).todo = todo
    BY DEF CarryLoop, Idle
  <2> QED BY <2>2, <2>3, <2>4, <2>5, QuietStep
<1>8. CASE CarryFind(w)
  <2>1. PICK c \in job[w].todo :
          /\ Goto(w, [at |-> "carryWrite", key |-> c.key, amount |-> c.amount,
                      seen |-> balance[c.key], todo |-> job[w].todo \ {c}])
          /\ UNCHANGED balance
    BY <1>8 DEF CarryFind
  <2>2. job[w].todo \subseteq Carry /\ \A d \in job[w].todo : Carries(d.key[2])
    BY <1>8, JobLocals DEF CarryFind, NothingCarried
  <2> DEFINE j == [at |-> "carryWrite", key |-> c.key, amount |-> c.amount,
                   seen |-> balance[c.key], todo |-> job[w].todo \ {c}]
  <2>3. j \in Jobs
    BY <2>2 DEF Jobs, Carry
  <2>4. j.at = "carryWrite" /\ Carries(j.key[2]) /\ \A d \in j.todo : Carries(d.key[2])
    BY <2>2
  <2> HIDE DEF j, IInv, Typed, TypeOK
  <2> QED BY <2>1, <2>3, <2>4, QuietStep DEF j
<1>9. CASE CarryWrite(w)
  <2>1. /\ job[w].key \in Keys /\ job[w].amount \in Int /\ job[w].seen \in Rows \cup {NoRow}
        /\ job[w].todo \subseteq Carry
    BY <1>9, JobLocals DEF CarryWrite
  <2>2. Carries(job[w].key[2]) /\ \A c \in job[w].todo : Carries(c.key[2])
    BY <1>9 DEF CarryWrite, NothingCarried
  <2> DEFINE k == job[w].key
             n == job[w].amount
             old == job[w].seen
             fresh == Policy[k[2]].perYear
             next == CarryLoop(job[w].todo)
  <2>3. fresh \in Nat
    BY <2>1, PolicyAssumption DEF Keys, PolicyType
  <2>4. /\ next \in Jobs /\ next.at \notin {"adjust", "carryWrite"}
        /\ next.at = "carryFind" => next.todo = job[w].todo
    BY <2>1, LoopJobs DEF CarryLoop, Idle
  <2>5. CASE old # NoRow
    <3> DEFINE r == [balance[k] EXCEPT !.carried = n, !.remaining = old.entitled + n - old.used]
    <3>1. old \in Rows /\ balance[k] \in Rows
      BY <1>9, <2>1, <2>5 DEF Stored, CarryWrite, Exists
    <3>2. r \in Rows
      <4>1. PICK row \in Rows, seen \in Rows : row = balance[k] /\ seen = old
        BY <3>1
      <4>2. seen.entitled + n - seen.used \in Int
        BY <2>1 DEF Rows
      <4>3. r = [row EXCEPT !.carried = n, !.remaining = seen.entitled + n - seen.used]
        BY <4>1
      <4> HIDE DEF r, k, old, n
      <4> QED BY <2>1, <4>2, <4>3 DEF Rows, n
    <3>3. balance' = [balance EXCEPT ![k] = r] /\ Goto(w, next)
      BY <1>9, <2>1, <2>5 DEF CarryWrite, CarriedInto
    <3> HIDE DEF r, k, next, IInv, Typed, TypeOK
    <3> QED BY <2>1, <2>2, <2>4, <3>2, <3>3, RowStep DEF k
  <2>6. CASE old = NoRow /\ ~ Exists(k)
    <3> DEFINE r == [entitled |-> fresh, used |-> 0, carried |-> n, remaining |-> fresh + n]
    <3>1. r \in Rows
      BY <2>1, <2>3 DEF Rows
    <3>2. balance' = [balance EXCEPT ![k] = r] /\ Goto(w, next)
      BY <1>9, <2>6 DEF CarryWrite
    <3> HIDE DEF r, k, next, IInv, Typed, TypeOK
    <3> QED BY <2>1, <2>2, <2>4, <3>1, <3>2, RowStep DEF k
  <2>7. CASE old = NoRow /\ Exists(k)
    BY <1>1, <1>9, <2>7, IdleJob DEF CarryWrite
  <2> QED BY <2>5, <2>6, <2>7
<1> QED BY <1>2, <1>3, <1>4, <1>5, <1>6, <1>7, <1>8, <1>9 DEF AdminStep

\* So does every step, and at first there is no row.
LEMMA BooksStep == IInv /\ [Next]_vars => IInv'
<1> SUFFICES ASSUME IInv, [Next]_vars PROVE IInv'
  OBVIOUS
<1>1. Typed'
  BY TypingStep DEF IInv
<1>2. ASSUME NEW w \in Workers, Fail(w) PROVE NothingCarried' /\ BooksBalance'
  BY <1>2, IdleJob, QuietStep DEF Fail
<1>3. CASE UNCHANGED vars
  <2>1. UNCHANGED <<balance, job>>
    BY <1>3 DEF vars
  <2>2. NothingCarried' /\ BooksBalance'
    BY <2>1 DEF IInv, NothingCarried, BooksBalance, Carries, Balanced, Exists
  <2> QED BY <1>1, <2>2 DEF IInv
<1> QED BY <1>1, <1>2, <1>3, RequestBooks, AdminBooks DEF IInv, Next

LEMMA BooksInit == Init => IInv
  BY TypingInit, IdleJob DEF Init, IInv, NothingCarried, BooksBalance, Balanced, Exists

\* In every type that is not carried forward, remaining = entitled + carried -
\* used at every moment, for any number of interleaved approvals, cancellations,
\* adjustments and initialisations, wherever any of them stops.
THEOREM BooksAlwaysBalance == Spec => []BooksBalance
<1>1. Spec => []IInv
  BY BooksInit, BooksStep, PTL DEF Spec
<1>2. IInv => BooksBalance
  BY DEF IInv
<1> QED BY <1>1, <1>2, PTL
-----------------------------------------------------------------------------
\* A stored request, and one that is about to be stored, has its balance row.
RowsCharged ==
  /\ \A id \in Leaves : leaves[id] # NoLeave => Exists(KeyOf(leaves[id]))
  /\ \A w \in Workers : job[w].at \in {"overlap", "create"} => Exists(KeyOf(job[w].asked))

\* Only five actions write balance rows.
LEMMA OtherStepsWriteNoRow ==
  ASSUME NEW w \in Workers, RequestStep(w) \/ AdminStep(w) \/ Fail(w),
         ~ ReviewDeduct(w), ~ CancelRefund(w), ~ InitializeCreate(w), ~ AdjustWrite(w), ~ CarryWrite(w)
  PROVE  UNCHANGED balance
<1>1. RequestStep(w) => UNCHANGED balance
  <2>1. Apply(w) => UNCHANGED balance
    BY DEF Apply, FreshIds
  <2>2. ApplyOverlap(w) \/ ApplyCreate(w) => UNCHANGED balance
    BY DEF ApplyOverlap, ApplyCreate
  <2>3. Review(w) \/ ReviewDecide(w) => UNCHANGED balance
    BY DEF Review, ReviewDecide
  <2>4. Cancel(w) \/ CancelWrite(w) => UNCHANGED balance
    BY Zenon DEF Cancel, CancelWrite
  <2> QED BY <2>1, <2>2, <2>3, <2>4 DEF RequestStep
<1>2. AdminStep(w) => UNCHANGED balance
  <2>1. Initialize(w) \/ InitializeFind(w) => UNCHANGED balance
    BY Zenon DEF Initialize, InitializeFind
  <2>2. Adjust(w) => UNCHANGED balance
    BY Zenon DEF Adjust
  <2>3. CarryForward(w) \/ CarryFind(w) => UNCHANGED balance
    BY Zenon DEF CarryForward, CarryFind
  <2> QED BY <2>1, <2>2, <2>3 DEF AdminStep
<1>3. Fail(w) => UNCHANGED balance
  BY DEF Fail
<1> QED BY <1>1, <1>2, <1>3

\* No handler deletes a balance row.
LEMMA RowsStay ==
  ASSUME Typed, [Next]_vars
  PROVE  \A k \in Keys : Exists(k) => Exists(k)'
<1> USE DEF Typed, TypeOK
<1>1. ASSUME NEW w \in Workers, NEW k \in Keys, NEW r \in Rows, balance' = [balance EXCEPT ![k] = r]
      PROVE  \A x \in Keys : Exists(x) => Exists(x)'
  BY <1>1, WriteRow
<1>2. ASSUME UNCHANGED balance PROVE \A x \in Keys : Exists(x) => Exists(x)'
  BY <1>2 DEF Exists
<1>3. ASSUME NEW w \in Workers, ReviewDeduct(w) \/ CancelRefund(w)
      PROVE  \A x \in Keys : Exists(x) => Exists(x)'
  <2> DEFINE l == leaves[job[w].id]
             k == KeyOf(l)
  <2>1. l \in LeaveRows
    BY <1>3, JobLocals DEF ReviewDeduct, CancelRefund, Referenced
  <2>2. k \in Keys /\ l.charge \in Int
    BY <2>1, KeyType DEF LeaveRows
  <2>3. CASE UNCHANGED balance
    BY <2>3, <1>2
  <2>4. CASE Exists(k) /\ balance' = [balance EXCEPT ![k] = Deducted(@, l.charge)]
    <3>1. balance[k] \in Rows
      BY <2>2, <2>4 DEF Exists
    <3> HIDE DEF k, l
    <3>2. Deducted(balance[k], l.charge) \in Rows
      BY <2>2, <3>1, RowTypes
    <3>3. balance' = [balance EXCEPT ![k] = Deducted(balance[k], l.charge)]
      BY <2>4
    <3> QED BY <2>2, <3>2, <3>3, <1>1
  <2>5. CASE Exists(k) /\ balance' = [balance EXCEPT ![k] = Refunded(@, l.charge)]
    <3>1. balance[k] \in Rows
      BY <2>2, <2>5 DEF Exists
    <3> HIDE DEF k, l
    <3>2. Refunded(balance[k], l.charge) \in Rows
      BY <2>2, <3>1, RowTypes
    <3>3. balance' = [balance EXCEPT ![k] = Refunded(balance[k], l.charge)]
      BY <2>5
    <3> QED BY <2>2, <3>2, <3>3, <1>1
  <2> QED BY <1>3, <2>3, <2>4, <2>5 DEF ReviewDeduct, CancelRefund
<1>4. ASSUME NEW w \in Workers, InitializeCreate(w) PROVE \A x \in Keys : Exists(x) => Exists(x)'
  <2>1. job[w].key \in Keys
    BY <1>4, JobLocals DEF InitializeCreate
  <2>2. Policy[job[w].key[2]].perYear \in Nat
    BY <2>1, PolicyAssumption DEF Keys, PolicyType
  <2> QED BY <1>4, <2>1, <2>2, NullAssumption DEF InitializeCreate, Rows, Exists
<1>5. ASSUME NEW w \in Workers, AdjustWrite(w) PROVE \A x \in Keys : Exists(x) => Exists(x)'
  <2> DEFINE k == job[w].key
  <2>1. k \in Keys /\ job[w].seen \in Rows /\ job[w].by \in Int /\ balance[k] \in Rows
    BY <1>5, JobLocals, PolicyAssumption DEF AdjustWrite, Stored, Exists
  <2>2. Adjusted(balance[k], job[w].seen, job[w].by) \in Rows
    BY <2>1, RowTypes
  <2>3. balance' = [balance EXCEPT ![k] = Adjusted(balance[k], job[w].seen, job[w].by)]
    BY <1>5 DEF AdjustWrite
  <2> QED BY <2>1, <2>2, <2>3, <1>1
<1>6. ASSUME NEW w \in Workers, CarryWrite(w) PROVE \A x \in Keys : Exists(x) => Exists(x)'
  <2> DEFINE k == job[w].key
             n == job[w].amount
             fresh == Policy[k[2]].perYear
  <2>1. k \in Keys /\ n \in Int /\ job[w].seen \in Rows \cup {NoRow}
    BY <1>6, JobLocals DEF CarryWrite
  <2>2. fresh \in Nat
    BY <2>1, PolicyAssumption DEF Keys, PolicyType
  <2>3. CASE job[w].seen # NoRow
    <3>1. balance[k] \in Rows
      BY <1>6, <2>1, <2>3 DEF CarryWrite, Stored, Exists
    <3>2. CarriedInto(balance[k], job[w].seen, n) \in Rows
      BY <2>1, <2>3, <3>1, RowTypes
    <3>3. balance' = [balance EXCEPT ![k] = CarriedInto(balance[k], job[w].seen, n)]
      BY <1>6, <2>3 DEF CarryWrite
    <3> QED BY <2>1, <3>2, <3>3, <1>1
  <2>4. CASE job[w].seen = NoRow /\ Exists(k)
    BY <1>6, <2>4, <1>2 DEF CarryWrite
  <2>5. CASE job[w].seen = NoRow /\ ~ Exists(k)
    <3>1. [entitled |-> fresh, used |-> 0, carried |-> n, remaining |-> fresh + n] \in Rows
      BY <2>1, <2>2 DEF Rows
    <3>2. balance' = [balance EXCEPT ![k] =
                        [entitled |-> fresh, used |-> 0, carried |-> n, remaining |-> fresh + n]]
      BY <1>6, <2>5 DEF CarryWrite
    <3> QED BY <2>1, <3>1, <3>2, <1>1
  <2> QED BY <2>3, <2>4, <2>5
<1>7. CASE UNCHANGED vars
  BY <1>7, <1>2 DEF vars
<1> HIDE DEF Typed, TypeOK
<1> QED BY <1>2, <1>3, <1>4, <1>5, <1>6, <1>7, OtherStepsWriteNoRow DEF Next

\* A request that is stored keeps its key: only its status changes.
LEMMA KeysStay ==
  ASSUME Typed, NEW w \in Workers, NEW s \in Status, NEW id \in Leaves, leaves[id] # NoLeave,
         leaves' = [leaves EXCEPT ![id].status = s]
  PROVE  /\ leaves'[id] # NoLeave /\ KeyOf(leaves'[id]) = KeyOf(leaves[id])
         /\ \A x \in Leaves : x # id => leaves'[x] = leaves[x]
<1>1. leaves[id] \in LeaveRows
  BY DEF Typed, TypeOK
<1>2. leaves'[id] = [leaves[id] EXCEPT !.status = s]
  BY DEF Typed, TypeOK
<1>3. leaves'[id] \in LeaveRows /\ leaves'[id].emp = leaves[id].emp
      /\ leaves'[id].type = leaves[id].type /\ leaves'[id].first = leaves[id].first
  BY <1>1, <1>2 DEF LeaveRows, Status
<1> QED BY <1>3, NullAssumption DEF KeyOf, Typed, TypeOK

\* The keys of all that is stored or asked for are keys of the table.
LEMMA ChargedKeys ==
  ASSUME Typed
  PROVE  /\ \A id \in Leaves : leaves[id] # NoLeave => KeyOf(leaves[id]) \in Keys
         /\ \A w \in Workers : job[w].at \in {"overlap", "create"} => KeyOf(job[w].asked) \in Keys
<1>1. ASSUME NEW w \in Workers, job[w].at \in {"overlap", "create"} PROVE KeyOf(job[w].asked) \in Keys
  <2>1. job[w].asked \in Asked
    BY <1>1, JobLocals DEF Typed, TypeOK
  <2> QED BY <2>1, CalendarAssumption DEF KeyOf, Keys, Asked
<1> QED BY <1>1, KeyType DEF Typed, TypeOK

\* A step that leaves the requests alone, and sends a handler to an insert only
\* when the row is there.
LEMMA ChargedStay ==
  ASSUME Typed, RowsCharged, [Next]_vars, NEW w \in Workers, NEW j, Goto(w, j), UNCHANGED leaves,
         j.at \in {"overlap", "create"} => KeyOf(j.asked) \in Keys /\ Exists(KeyOf(j.asked))
  PROVE  RowsCharged'
<1>1. \A v \in Workers : job'[v] = IF v = w THEN j ELSE job[v]
  BY DEF Typed, TypeOK, Goto
<1>2. \A v \in Workers : job'[v].at \in {"overlap", "create"} =>
        KeyOf(job'[v].asked) \in Keys /\ Exists(KeyOf(job'[v].asked))
  BY <1>1, ChargedKeys DEF RowsCharged
<1>3. \A v \in Workers : job'[v].at \in {"overlap", "create"} => Exists(KeyOf(job[v].asked))'
  BY <1>2, RowsStay DEF KeyOf, Exists
<1>4. \A id \in Leaves : leaves'[id] # NoLeave => Exists(KeyOf(leaves[id]))'
  BY RowsStay, ChargedKeys DEF RowsCharged, KeyOf, Exists
<1> QED BY <1>3, <1>4 DEF RowsCharged

\* A handler that ends after it changed a request or stored one.
LEMMA ChargedEnd ==
  ASSUME Typed, RowsCharged, NEW w \in Workers, Goto(w, Idle), UNCHANGED balance, NEW id \in Leaves,
         leaves'[id] # NoLeave, Exists(KeyOf(leaves'[id])),
         \A x \in Leaves : x # id => leaves'[x] = leaves[x]
  PROVE  RowsCharged'
<1>1. \A v \in Workers : job'[v] = IF v = w THEN Idle ELSE job[v]
  BY DEF Typed, TypeOK, Goto
<1>2. \A v \in Workers : job'[v].at \in {"overlap", "create"} => Exists(KeyOf(job[v].asked))'
  BY <1>1, IdleJob DEF RowsCharged, KeyOf, Exists
<1>3. \A x \in Leaves : leaves'[x] # NoLeave => Exists(KeyOf(leaves[x]))'
  BY DEF RowsCharged, KeyOf, Exists
<1> QED BY <1>2, <1>3 DEF RowsCharged

\* The handlers of leave.service.ts keep the rows their requests are charged to.
LEMMA RequestCharged ==
  ASSUME Typed, RowsCharged, [Next]_vars, NEW w \in Workers, RequestStep(w)
  PROVE  RowsCharged'
<1>1. CASE Apply(w)
  <2>1. PICK e \in Employees, t \in Types, first \in Days, last \in Days, half \in BOOLEAN, id \in Leaves :
          /\ Affordable(<<e, t, YearOf[first]>>, Charge(first, last, half))
          /\ Goto(w, [at |-> "overlap", id |-> id,
                      asked |-> [emp |-> e, type |-> t, first |-> first, last |-> last,
                                 charge |-> Charge(first, last, half)]])
          /\ UNCHANGED leaves
    BY <1>1 DEF Apply, FreshIds
  <2> DEFINE a == [emp |-> e, type |-> t, first |-> first, last |-> last, charge |-> Charge(first, last, half)]
             j == [at |-> "overlap", id |-> id, asked |-> a]
  <2>2. KeyOf(a) = <<e, t, YearOf[first]>> /\ j.asked = a
    BY DEF KeyOf
  <2>3. KeyOf(a) \in Keys
    BY <2>2, CalendarAssumption DEF Keys
  <2>4. Exists(KeyOf(a))
    BY <2>1, <2>2 DEF Affordable
  <2>5. Goto(w, j) /\ UNCHANGED leaves
    BY <2>1
  <2> HIDE DEF a
  <2> QED BY <2>2, <2>3, <2>4, <2>5, ChargedStay
<1>2. CASE ApplyOverlap(w)
  <2>1. job[w].at = "overlap" /\ UNCHANGED leaves
        /\ (Goto(w, Idle) \/ Goto(w, [job[w] EXCEPT !.at = "create"]))
    BY <1>2 DEF ApplyOverlap
  <2>2. CASE Goto(w, Idle)
    BY <2>1, <2>2, IdleJob, ChargedStay
  <2>3. CASE Goto(w, [job[w] EXCEPT !.at = "create"])
    <3>1. job[w] \in [at: {"overlap", "create"}, id: Leaves, asked: Asked]
      BY <2>1, JobLocals DEF Typed, TypeOK
    <3>2. [job[w] EXCEPT !.at = "create"].asked = job[w].asked
      BY <3>1
    <3>3. KeyOf(job[w].asked) \in Keys /\ Exists(KeyOf(job[w].asked))
      BY <2>1, ChargedKeys DEF RowsCharged
    <3> QED BY <2>1, <2>3, <3>2, <3>3, ChargedStay
  <2> QED BY <2>1, <2>2, <2>3
<1>3. CASE ApplyCreate(w)
  <2> DEFINE a == job[w].asked
             l == [emp |-> a.emp, type |-> a.type, first |-> a.first, last |-> a.last,
                   charge |-> a.charge, status |-> "PENDING"]
  <2>1. job[w].at = "create" /\ job[w].id \in Leaves /\ a \in Asked
    BY <1>3, JobLocals DEF ApplyCreate, Typed, TypeOK
  <2>2. l \in LeaveRows
    BY <2>1 DEF Asked, LeaveRows, Status
  <2>3. Goto(w, Idle) /\ UNCHANGED balance /\ leaves' = [leaves EXCEPT ![job[w].id] = l]
    BY <1>3 DEF ApplyCreate
  <2>4. leaves'[job[w].id] = l /\ \A x \in Leaves : x # job[w].id => leaves'[x] = leaves[x]
    BY <2>1, <2>3 DEF Typed, TypeOK
  <2>5. KeyOf(l) = KeyOf(a)
    BY DEF KeyOf
  <2>6. Exists(KeyOf(l)) /\ l # NoLeave
    BY <2>1, <2>2, <2>5, NullAssumption DEF RowsCharged
  <2> HIDE DEF l
  <2> QED BY <2>1, <2>3, <2>4, <2>6, ChargedEnd
<1>4. CASE Review(w)
  <2>1. PICK id \in Leaves, verdict \in {"APPROVED", "REJECTED"} :
          Goto(w, [at |-> IF verdict = "APPROVED" THEN "deduct" ELSE "decide", id |-> id, verdict |-> verdict])
    BY <1>4 DEF Review
  <2>2. UNCHANGED leaves
    BY <1>4 DEF Review
  <2> QED BY <2>1, <2>2, ChargedStay
<1>5. CASE ReviewDeduct(w) \/ CancelRefund(w)
  <2>1. UNCHANGED leaves /\ (\/ Goto(w, Idle) \/ Goto(w, [job[w] EXCEPT !.at = "decide"])
                             \/ Goto(w, [job[w] EXCEPT !.at = "cancel"]))
    BY <1>5 DEF ReviewDeduct, CancelRefund
  <2>2. \A at \in {"decide", "cancel"} : [job[w] EXCEPT !.at = at].at = at
    <3>1. \/ job[w] \in [at: {"deduct", "decide"}, id: Leaves, verdict: {"APPROVED", "REJECTED"}]
          \/ job[w] \in [at: {"refund", "cancel"}, id: Leaves, seen: {"PENDING", "APPROVED"}]
      BY <1>5, JobLocals DEF ReviewDeduct, CancelRefund, Typed, TypeOK
    <3> QED BY <3>1
  <2> QED BY <2>1, <2>2, IdleJob, ChargedStay
<1>6. ASSUME ReviewDecide(w) \/ CancelWrite(w) PROVE RowsCharged'
  <2> DEFINE id == job[w].id
  <2>1. id \in Leaves /\ leaves[id] # NoLeave
    BY <1>6, JobLocals DEF ReviewDecide, CancelWrite, Typed, TypeOK, Referenced
  <2>2. PICK s \in Status : leaves' = [leaves EXCEPT ![id].status = s]
    <3>1. CASE ReviewDecide(w)
      <4>1. job[w].verdict \in Status
        BY <3>1, JobLocals DEF ReviewDecide, Typed, TypeOK, Status
      <4> QED BY <3>1, <4>1 DEF ReviewDecide
    <3>2. CASE CancelWrite(w)
      BY <3>2 DEF CancelWrite, Status
    <3> QED BY <1>6, <3>1, <3>2
  <2>3. Goto(w, Idle) /\ UNCHANGED balance
    BY <1>6 DEF ReviewDecide, CancelWrite
  <2>4. leaves'[id] # NoLeave /\ KeyOf(leaves'[id]) = KeyOf(leaves[id])
        /\ \A x \in Leaves : x # id => leaves'[x] = leaves[x]
    BY <2>1, <2>2, KeysStay
  <2>5. Exists(KeyOf(leaves'[id]))
    BY <2>1, <2>4 DEF RowsCharged
  <2> QED BY <2>1, <2>3, <2>4, <2>5, ChargedEnd
<1>7. CASE Cancel(w)
  <2>1. PICK id \in Leaves :
          Goto(w, [at |-> IF leaves[id].status = "APPROVED" THEN "refund" ELSE "cancel",
                   id |-> id, seen |-> leaves[id].status])
    BY <1>7 DEF Cancel
  <2>2. UNCHANGED leaves
    BY <1>7 DEF Cancel
  <2> QED BY <2>1, <2>2, ChargedStay
<1> QED BY <1>1, <1>2, <1>3, <1>4, <1>5, <1>6, <1>7 DEF RequestStep

\* The handlers of leave-admin.service.ts do.
LEMMA AdminCharged ==
  ASSUME Typed, RowsCharged, [Next]_vars, NEW w \in Workers, AdminStep(w) \/ Fail(w)
  PROVE  RowsCharged'
<1>1. UNCHANGED leaves
  BY DEF AdminStep, Fail, Initialize, InitializeFind, InitializeCreate, Adjust, AdjustWrite, CarryForward,
         CarryFind, CarryWrite
<1>2. \A todo : InitLoop(todo).at \in {"idle", "initFind"} /\ CarryLoop(todo).at \in {"idle", "carryFind"}
  BY DEF InitLoop, CarryLoop, Idle
<1>3. ASSUME Initialize(w) \/ InitializeFind(w) \/ InitializeCreate(w) PROVE RowsCharged'
  <2>1. \/ Goto(w, Idle)
        \/ \E todo : Goto(w, InitLoop(todo))
        \/ \E k, todo : Goto(w, [at |-> "initCreate", key |-> k, todo |-> todo])
    BY <1>3, Zenon DEF Initialize, InitializeFind, InitializeCreate
  <2> QED BY <1>1, <1>2, <2>1, IdleJob, ChargedStay
<1>4. ASSUME Adjust(w) \/ AdjustWrite(w) \/ Fail(w) PROVE RowsCharged'
  <2>1. \/ Goto(w, Idle)
        \/ \E k, a : Goto(w, [at |-> "adjust", key |-> k, seen |-> balance[k], by |-> a])
    BY <1>4, Zenon DEF Adjust, AdjustWrite, Fail
  <2> QED BY <1>1, <2>1, IdleJob, ChargedStay
<1>5. ASSUME CarryForward(w) \/ CarryFind(w) \/ CarryWrite(w) PROVE RowsCharged'
  <2>1. \/ Goto(w, Idle)
        \/ \E todo : Goto(w, CarryLoop(todo))
        \/ \E c, todo : Goto(w, [at |-> "carryWrite", key |-> c.key, amount |-> c.amount,
                                 seen |-> balance[c.key], todo |-> todo])
    BY <1>5, Zenon DEF CarryForward, CarryFind, CarryWrite
  <2> QED BY <1>1, <1>2, <2>1, IdleJob, ChargedStay
<1> QED BY <1>3, <1>4, <1>5 DEF AdminStep

\* So it is at the start and after every step.
LEMMA ChargedInit == Init => RowsCharged
  BY IdleJob DEF Init, RowsCharged

\* So does every step.
LEMMA ChargedStep == Typed /\ RowsCharged /\ [Next]_vars => RowsCharged'
<1>1. CASE UNCHANGED vars
  BY <1>1 DEF vars, RowsCharged, KeyOf, Exists
<1> QED BY <1>1, RequestCharged, AdminCharged DEF Next

\* Every active request is charged to a balance row that exists, so the update in
\* a review or a cancellation of one never throws: requests are stored under a
\* row that was found, keep its key, and no handler deletes a row.
THEOREM ChargedRowsAlwaysExist == Spec => []ChargedRowExists
<1>1. RowsCharged => ChargedRowExists
  BY DEF RowsCharged, ChargedRowExists, Active
<1>2. Spec => [](Typed /\ RowsCharged)
  BY ChargedInit, ChargedStep, TypingInit, TypingStep, PTL DEF Spec
<1> QED BY <1>1, <1>2, PTL

-----------------------------------------------------------------------------
\* The four updates keep the columns of a row together when they work on the row
\* as it is.
LEMMA UpdatesBalance ==
  ASSUME NEW row \in Rows, Balanced(row), NEW c \in Int
  PROVE  /\ Balanced(Deducted(row, c)) /\ Balanced(Refunded(row, c))
         /\ Balanced(Adjusted(row, row, c)) /\ Balanced(CarriedInto(row, row, c))
<1>1. /\ row.entitled \in Int /\ row.used \in Int /\ row.carried \in Int /\ row.remaining \in Int
      /\ row.remaining = row.entitled + row.carried - row.used
  BY NullAssumption DEF Rows, Balanced
<1>2. Deducted(row, c).remaining = row.remaining - c /\ Deducted(row, c).used = row.used + c
      /\ Deducted(row, c).entitled = row.entitled /\ Deducted(row, c).carried = row.carried
  BY DEF Deducted, Rows
<1>3. Refunded(row, c).remaining = row.remaining + c /\ Refunded(row, c).used = row.used - c
      /\ Refunded(row, c).entitled = row.entitled /\ Refunded(row, c).carried = row.carried
  BY DEF Refunded, Rows
<1>4. Balanced(Deducted(row, c)) /\ Balanced(Refunded(row, c))
  BY <1>1, <1>2, <1>3 DEF Balanced
<1>5. Balanced(CarriedInto(row, row, c))
  <2>1. CarriedInto(row, row, c).carried = c /\ CarriedInto(row, row, c).entitled = row.entitled
        /\ CarriedInto(row, row, c).used = row.used
        /\ CarriedInto(row, row, c).remaining = row.entitled + c - row.used
    BY DEF CarriedInto, Rows
  <2> QED BY <2>1 DEF Balanced
<1>6. Balanced(Adjusted(row, row, c))
  <2>1. Adjusted(row, row, c).remaining
          = Adjusted(row, row, c).entitled + row.carried - Adjusted(row, row, c).used
        /\ Adjusted(row, row, c).carried = row.carried
    BY DEF Adjusted, Rows
  <2> QED BY <2>1 DEF Balanced
<1> QED BY <1>4, <1>5, <1>6

\* A step that parts the columns of a row writes one computed from an older row.
LEMMA OnlyStaleParts ==
  ASSUME Typed, [Next]_vars, NEW k \in Keys, Balanced(balance[k]), ~ Balanced(balance'[k])
  PROVE  \E w \in Workers : /\ job[w].at \in {"adjust", "carryWrite"}
                            /\ job[w].key = k
                            /\ job[w].seen # balance[k]
<1>1. balance[k] \in Rows \cup {NoRow} /\ balance'[k] # balance[k]
  BY DEF Typed, TypeOK
<1>2. PICK w \in Workers : RequestStep(w) \/ AdminStep(w) \/ Fail(w)
  BY <1>1 DEF Next, vars
<1>3. ReviewDeduct(w) \/ CancelRefund(w) \/ InitializeCreate(w) \/ AdjustWrite(w) \/ CarryWrite(w)
  BY <1>1, <1>2, OtherStepsWriteNoRow
<1>4. ASSUME NEW x, NEW r, balance' = [balance EXCEPT ![x] = r] PROVE x = k /\ balance'[k] = r
  BY <1>1, <1>4 DEF Typed, TypeOK
<1>5. ASSUME ReviewDeduct(w) \/ CancelRefund(w) PROVE FALSE
  <2> DEFINE l == leaves[job[w].id]
  <2>1. l.charge \in Int
    <3>1. l \in LeaveRows
      BY <1>5, JobLocals DEF ReviewDeduct, CancelRefund, Referenced, Typed, TypeOK
    <3> QED BY <3>1 DEF LeaveRows
  <2>2. Exists(KeyOf(l)) /\ \/ balance' = [balance EXCEPT ![KeyOf(l)] = Deducted(balance[KeyOf(l)], l.charge)]
                            \/ balance' = [balance EXCEPT ![KeyOf(l)] = Refunded(balance[KeyOf(l)], l.charge)]
    BY <1>1, <1>5 DEF ReviewDeduct, CancelRefund
  <2>3. KeyOf(l) = k /\ balance'[k] \in {Deducted(balance[k], l.charge), Refunded(balance[k], l.charge)}
    BY <2>2, <1>4
  <2> QED BY <1>1, <2>1, <2>2, <2>3, UpdatesBalance DEF Exists
<1>6. ASSUME InitializeCreate(w) PROVE FALSE
  <2> DEFINE n == Policy[job[w].key[2]].perYear
             r == [entitled |-> n, used |-> 0, carried |-> 0, remaining |-> n]
  <2>1. n \in Nat
    BY <1>6, JobLocals, PolicyAssumption DEF InitializeCreate, Keys, PolicyType, Typed, TypeOK
  <2>2. balance' = [balance EXCEPT ![job[w].key] = r]
    BY <1>1, <1>6 DEF InitializeCreate
  <2>3. Balanced(r)
    BY <2>1 DEF Balanced
  <2> HIDE DEF r
  <2> QED BY <2>2, <2>3, <1>4
<1>7. CASE AdjustWrite(w)
  <2>1. job[w].at = "adjust" /\ job[w].seen \in Rows /\ job[w].by \in Int
    BY <1>7, JobLocals, PolicyAssumption DEF AdjustWrite, Typed, TypeOK
  <2>2. balance' = [balance EXCEPT ![job[w].key] = Adjusted(balance[job[w].key], job[w].seen, job[w].by)]
    BY <1>7 DEF AdjustWrite
  <2>3. job[w].key = k /\ balance'[k] = Adjusted(balance[k], job[w].seen, job[w].by)
    BY <2>2, <1>4
  <2>4. job[w].seen # balance[k]
    BY <2>1, <2>3, UpdatesBalance
  <2> QED BY <2>1, <2>3, <2>4
<1>8. CASE CarryWrite(w)
  <2> DEFINE n == job[w].amount
             fresh == Policy[job[w].key[2]].perYear
             r == [entitled |-> fresh, used |-> 0, carried |-> n, remaining |-> fresh + n]
  <2>1. job[w].at = "carryWrite" /\ job[w].seen \in Rows \cup {NoRow} /\ n \in Int /\ fresh \in Nat
    BY <1>8, JobLocals, PolicyAssumption DEF CarryWrite, Keys, PolicyType, Typed, TypeOK
  <2>2. CASE job[w].seen # NoRow
    <3>1. balance' = [balance EXCEPT ![job[w].key] = CarriedInto(balance[job[w].key], job[w].seen, n)]
      BY <1>8, <2>2 DEF CarryWrite
    <3>2. job[w].key = k /\ balance'[k] = CarriedInto(balance[k], job[w].seen, n)
      BY <3>1, <1>4
    <3>3. job[w].seen # balance[k]
      BY <2>1, <2>2, <3>2, UpdatesBalance
    <3> QED BY <2>1, <3>2, <3>3
  <2>3. CASE job[w].seen = NoRow
    <3>1. balance' = [balance EXCEPT ![job[w].key] = r]
      BY <1>1, <1>8, <2>3 DEF CarryWrite
    <3>2. Balanced(r)
      BY <2>1 DEF Balanced
    <3> HIDE DEF r
    <3> QED BY <3>1, <3>2, <1>4
  <2> QED BY <2>2, <2>3
<1> QED BY <1>3, <1>5, <1>6, <1>7, <1>8

\* The columns of a row part only when an adjustment or a carry-forward writes a
\* remaining computed from a row that another handler has changed since; reviews,
\* cancellations and inserts never part them.
THEOREM OnlyStaleWritesPart == Spec => OnlyStaleWritesUnbalance
<1>1. Typed /\ [Next]_vars =>
        [\A k \in Keys : Balanced(balance[k]) /\ ~ Balanced(balance'[k]) =>
           \E w \in Workers :
             /\ job[w].at \in {"adjust", "carryWrite"}
             /\ job[w].key = k
             /\ job[w].seen # balance[k]]_vars
  BY OnlyStaleParts
<1> QED BY <1>1, TypingInit, TypingStep, PTL DEF Spec, OnlyStaleWritesUnbalance

-----------------------------------------------------------------------------
(* One handler at a time.  What a handler has read is then still true when *)
(* it writes: InTurn says of each line what its locals say of the tables.  *)

OneHandler == \A v, w \in Workers : v = w

\* The balance that days are carried from, and an amount that is still what it was.
Source(k) == <<k[1], k[2], k[3] - 1>>

Due(c) ==
  /\ c \in Carry /\ Carries(c.key[2]) /\ c.key[3] - 1 \in Years /\ Exists(Source(c.key))
  /\ c.amount = Smaller(balance[Source(c.key)].remaining, Policy[c.key[2]].maxCarry) /\ c.amount > 0

\* What a carry-forward has still to write.
Owed(j) == IF j.at = "carryWrite" THEN j.todo \cup {[key |-> j.key, amount |-> j.amount]} ELSE j.todo

Asking(j) ==
  /\ j.at \in {"overlap", "create"} => /\ leaves[j.id] = NoLeave /\ j.asked.charge \in Charges \ {0}
                                       /\ Affordable(KeyOf(j.asked), j.asked.charge)
  /\ j.at = "create" => \A id \in Leaves : Active(id) => ~ Overlap(leaves[id], j.asked)

Deciding(j) ==
  /\ j.at = "deduct" => j.verdict = "APPROVED"
  /\ j.at = "refund" => j.seen = "APPROVED"
  /\ j.at \in {"deduct", "decide"} => leaves[j.id].status = "PENDING"
  /\ j.at \in {"refund", "cancel"} => leaves[j.id].status = j.seen

Administering(j) ==
  /\ j.at \in {"adjust", "carryWrite"} => j.seen = balance[j.key]
  /\ j.at \in {"carryFind", "carryWrite"} => /\ \A c \in Owed(j) : Due(c)
                                             /\ \A c, d \in Owed(j) : c.key[3] = d.key[3]

InTurn(j) == Asking(j) /\ Deciding(j) /\ Administering(j)

TurnInv == Typed /\ RowsCharged /\ NoOverlap /\ AllBooksBalance /\ \A w \in Workers : InTurn(job[w])

\* With one handler, where it goes is all there is.
LEMMA TurnStep ==
  ASSUME OneHandler, TurnInv, [Next]_vars, NEW w \in Workers, NEW j \in Jobs, Goto(w, j), InTurn(j)', NoOverlap'
  PROVE  TurnInv'
<1>1. Typed' /\ RowsCharged'  BY TypingStep, ChargedStep DEF TurnInv
<1>2. ASSUME NEW v \in Workers PROVE InTurn(job[v])'
  <2>1. v = w /\ job'[v] = j  BY Moves DEF TurnInv, Typed, OneHandler
  <2> QED  BY <2>1 DEF InTurn, Asking, Deciding, Administering, Owed, Due
<1>3. AllBooksBalance'
  <2> SUFFICES ASSUME NEW k \in Keys, ~ Balanced(balance'[k]) PROVE FALSE  BY DEF AllBooksBalance, Balanced
  <2>1. Balanced(balance[k])  BY DEF TurnInv, AllBooksBalance
  <2>2. PICK v \in Workers : job[v].at \in {"adjust", "carryWrite"} /\ job[v].key = k /\ job[v].seen # balance[k]
    BY <2>1, OnlyStaleParts DEF TurnInv
  <2> QED  BY <2>2 DEF TurnInv, InTurn, Administering
<1> QED  BY <1>1, <1>2, <1>3 DEF TurnInv

\* Before it has read anything, a handler is right about the tables.
LEMMA TurnFree == ASSUME NEW j, j.at \in {"idle", "initFind", "initCreate"} PROVE InTurn(j)'
  BY DEF InTurn, Asking, Deciding, Administering

\* Requests that keep their days and their employees do not come to overlap.
LEMMA OverlapStays == ASSUME NoOverlap, UNCHANGED leaves PROVE NoOverlap'
  BY DEF NoOverlap, Active, Overlap

\* A change of status changes nothing else.
LEMMA StatusWrite ==
  ASSUME Typed, NEW id \in Leaves, leaves[id] # NoLeave, NEW s \in Status,
         leaves' = [leaves EXCEPT ![id].status = s]
  PROVE  /\ leaves'[id] \in LeaveRows /\ leaves'[id] # NoLeave /\ leaves'[id].status = s
         /\ leaves'[id].emp = leaves[id].emp /\ leaves'[id].type = leaves[id].type
         /\ leaves'[id].first = leaves[id].first /\ leaves'[id].last = leaves[id].last
         /\ leaves'[id].charge = leaves[id].charge
         /\ \A x \in Leaves : x # id => leaves'[x] = leaves[x]
<1>1. leaves[id] \in LeaveRows /\ leaves \in [Leaves -> LeaveRows \cup {NoLeave}]  BY DEF Typed, TypeOK
<1>2. leaves'[id] = [leaves[id] EXCEPT !.status = s] /\ \A x \in Leaves : x # id => leaves'[x] = leaves[x]
  BY <1>1
<1> DEFINE r == leaves[id]
<1>3. [r EXCEPT !.status = s] \in LeaveRows /\ [r EXCEPT !.status = s].status = s
      /\ [r EXCEPT !.status = s].emp = r.emp /\ [r EXCEPT !.status = s].type = r.type
      /\ [r EXCEPT !.status = s].first = r.first /\ [r EXCEPT !.status = s].last = r.last
      /\ [r EXCEPT !.status = s].charge = r.charge
  BY <1>1 DEF LeaveRows
<1> QED  BY <1>2, <1>3, NullAssumption

\* So requests overlap after it only when they did before.
LEMMA OverlapAfterStatus ==
  ASSUME Typed, NoOverlap, NEW id \in Leaves, Active(id), NEW s \in Status,
         leaves' = [leaves EXCEPT ![id].status = s]
  PROVE  NoOverlap'
<1> SUFFICES ASSUME NEW a \in Leaves, NEW b \in Leaves, a # b, Active(a)', Active(b)'
             PROVE  ~ Overlap(leaves'[a], leaves'[b])
  BY DEF NoOverlap, Overlap
<1>1. /\ leaves'[id].emp = leaves[id].emp
      /\ leaves'[id].first = leaves[id].first /\ leaves'[id].last = leaves[id].last
      /\ \A x \in Leaves : x # id => leaves'[x] = leaves[x]
  BY StatusWrite DEF Active
<1>2. Active(a) /\ Active(b)  BY <1>1 DEF Active
<1>3. ~ Overlap(leaves[a], leaves[b])  BY <1>2 DEF NoOverlap
<1> QED  BY <1>1, <1>3 DEF Overlap

\* A step that changes no table.
LEMMA QuietTurn ==
  ASSUME OneHandler, TurnInv, [Next]_vars, NEW w \in Workers, NEW j \in Jobs, Goto(w, j),
         UNCHANGED <<balance, leaves>>, InTurn(j)
  PROVE  TurnInv'
<1>1. InTurn(j)'
  BY DEF InTurn, Asking, Deciding, Administering, Owed, Due, Affordable, Exists, Active
<1>2. NoOverlap'  BY OverlapStays DEF TurnInv
<1> QED  BY <1>1, <1>2, TurnStep

\* The handlers of requests.
LEMMA ApplyTurn == ASSUME OneHandler, TurnInv, [Next]_vars, NEW w \in Workers, Apply(w) PROVE TurnInv'
<1>1. PICK e \in Employees, t \in Types, first \in Days, last \in Days, half \in BOOLEAN, id \in FreshIds :
        /\ Charge(first, last, half) > 0
        /\ Affordable(<<e, t, YearOf[first]>>, Charge(first, last, half))
        /\ Goto(w, [at |-> "overlap", id |-> id,
                    asked |-> [emp |-> e, type |-> t, first |-> first, last |-> last,
                               charge |-> Charge(first, last, half)]])
        /\ UNCHANGED <<balance, leaves, failures>>
  BY DEF Apply
<1>2. PICK c \in Nat : c = Charge(first, last, half)  BY ChargeType
<1> DEFINE asked == [emp |-> e, type |-> t, first |-> first, last |-> last, charge |-> c]
<1>3. c \in Charges \ {0} /\ Affordable(<<e, t, YearOf[first]>>, c)  BY <1>1, <1>2 DEF Charges
<1>4. asked \in Asked /\ asked.charge = c /\ KeyOf(asked) = <<e, t, YearOf[first]>>  BY DEF Asked, KeyOf
<1>5. id \in Leaves /\ leaves[id] = NoLeave  BY DEF FreshIds
<1> HIDE DEF asked
<1>6. PICK j : j = [at |-> "overlap", id |-> id, asked |-> asked]  OBVIOUS
<1>7. j \in Jobs /\ j.at = "overlap" /\ j.id = id /\ j.asked = asked  BY <1>4, <1>5, <1>6 DEF Jobs
<1>8. Goto(w, j) /\ UNCHANGED <<balance, leaves>>  BY <1>1, <1>2, <1>6 DEF asked
<1>9. InTurn(j)  BY <1>3, <1>4, <1>5, <1>7 DEF InTurn, Asking, Deciding, Administering
<1> QED  BY <1>7, <1>8, <1>9, QuietTurn

\* The overlap query leaves the handler right about the requests it saw.
LEMMA ApplyOverlapTurn == ASSUME OneHandler, TurnInv, [Next]_vars, NEW w \in Workers, ApplyOverlap(w) PROVE TurnInv'
<1>1. job[w].at = "overlap" /\ UNCHANGED <<balance, leaves>> /\ InTurn(job[w]) /\ job[w] \in Jobs
  BY DEF ApplyOverlap, TurnInv, Typed, TypeOK
<1>2. CASE Goto(w, Idle)  BY <1>1, <1>2, IdleJob, QuietTurn DEF InTurn, Asking, Deciding, Administering
<1>3. CASE /\ \A id \in Leaves : ~ (Blocking(id) /\ Overlap(leaves[id], job[w].asked))
           /\ Goto(w, [job[w] EXCEPT !.at = "create"])
  <2>1. PICK j : j = [job[w] EXCEPT !.at = "create"]  OBVIOUS
  <2>2. job[w] \in [at: {"overlap", "create"}, id: Leaves, asked: Asked]  BY <1>1, JobLocals
  <2>3. j \in Jobs /\ j.at = "create" /\ j.id = job[w].id /\ j.asked = job[w].asked
    <3>1. j \in [at: {"overlap", "create"}, id: Leaves, asked: Asked]  BY <2>1, <2>2
    <3>2. j \in Jobs  BY <3>1 DEF Jobs
    <3> QED  BY <2>1, <2>2, <3>2
  <2>4. InTurn(j)  BY <1>1, <1>3, <2>3 DEF InTurn, Asking, Deciding, Administering, Blocking
  <2> QED  BY <1>1, <1>3, <2>1, <2>3, <2>4, QuietTurn
<1> QED  BY <1>2, <1>3 DEF ApplyOverlap

\* What is stored overlaps nothing: it was looked for, and nobody stored anything since.
LEMMA ApplyCreateTurn == ASSUME OneHandler, TurnInv, [Next]_vars, NEW w \in Workers, ApplyCreate(w) PROVE TurnInv'
<1> DEFINE a == job[w].asked  id == job[w].id
           l == [emp |-> a.emp, type |-> a.type, first |-> a.first, last |-> a.last, charge |-> a.charge, status |-> "PENDING"]
<1>1. job[w].at = "create" /\ Goto(w, Idle) /\ leaves' = [leaves EXCEPT ![id] = l]  BY DEF ApplyCreate
<1>2. InTurn(job[w]) /\ a \in Asked /\ id \in Leaves /\ leaves \in [Leaves -> LeaveRows \cup {NoLeave}]
  BY <1>1, JobLocals DEF TurnInv, Typed, TypeOK
<1>3. l.emp = a.emp /\ l.first = a.first /\ l.last = a.last  OBVIOUS
<1> HIDE DEF l, id
<1>4. leaves'[id] = l /\ \A x \in Leaves : x # id => leaves'[x] = leaves[x]  BY <1>1, <1>2
<1>5. \A x \in Leaves : Active(x) => ~ Overlap(leaves[x], a)  BY <1>1, <1>2 DEF InTurn, Asking
<1>6. ASSUME NEW x \in Leaves, Active(x), x # id PROVE ~ Overlap(leaves[x], l) /\ ~ Overlap(l, leaves[x])
  <2>1. leaves[x] \in LeaveRows  BY <1>2, <1>6 DEF Active
  <2>2. /\ leaves[x].first \in Int /\ leaves[x].last \in Int /\ a.first \in Int /\ a.last \in Int
    BY <1>2, <2>1, CalendarAssumption DEF LeaveRows, Asked
  <2> QED  BY <1>3, <1>5, <1>6, <2>2 DEF Overlap
<1>7. NoOverlap'
  <2> SUFFICES ASSUME NEW x \in Leaves, NEW y \in Leaves, x # y, Active(x)', Active(y)'
               PROVE  ~ Overlap(leaves'[x], leaves'[y])
    BY DEF NoOverlap, Overlap
  <2>1. CASE x = id  BY <1>4, <1>6, <2>1 DEF Active
  <2>2. CASE y = id  BY <1>4, <1>6, <2>2 DEF Active
  <2>3. CASE x # id /\ y # id  BY <1>4, <2>3 DEF Active, TurnInv, NoOverlap
  <2> QED  BY <2>1, <2>2, <2>3
<1> QED  BY <1>1, <1>7, IdleJob, TurnFree, TurnStep

\* A review starts on the request as it is stored.
LEMMA ReviewTurn == ASSUME OneHandler, TurnInv, [Next]_vars, NEW w \in Workers, Review(w) PROVE TurnInv'
<1>1. PICK id \in Leaves, u \in Users, verdict \in {"APPROVED", "REJECTED"} :
        /\ leaves[id].status = "PENDING"
        /\ Goto(w, [at |-> IF verdict = "APPROVED" THEN "deduct" ELSE "decide", id |-> id, verdict |-> verdict])
        /\ UNCHANGED <<balance, leaves, failures>>
  BY Zenon DEF Review
<1>2. PICK at : at = IF verdict = "APPROVED" THEN "deduct" ELSE "decide"  OBVIOUS
<1>3. PICK j : j = [at |-> at, id |-> id, verdict |-> verdict]  OBVIOUS
<1>4. j \in Jobs /\ j.at = at /\ j.id = id /\ j.verdict = verdict /\ at \in {"deduct", "decide"}
  BY <1>2, <1>3 DEF Jobs
<1>5. InTurn(j)  BY <1>1, <1>2, <1>4 DEF InTurn, Asking, Deciding, Administering
<1> QED  BY <1>1, <1>2, <1>3, <1>4, <1>5, QuietTurn

\* So does a cancellation.
LEMMA CancelTurn == ASSUME OneHandler, TurnInv, [Next]_vars, NEW w \in Workers, Cancel(w) PROVE TurnInv'
<1>1. PICK id \in Leaves, u \in Users :
        /\ MayCancel(u, leaves[id])
        /\ Goto(w, [at |-> IF leaves[id].status = "APPROVED" THEN "refund" ELSE "cancel",
                    id |-> id, seen |-> leaves[id].status])
        /\ UNCHANGED <<balance, leaves, failures>>
  BY Zenon DEF Cancel
<1>2. PICK seen : seen = leaves[id].status  OBVIOUS
<1>3. PICK at : at = IF seen = "APPROVED" THEN "refund" ELSE "cancel"  OBVIOUS
<1>4. PICK j : j = [at |-> at, id |-> id, seen |-> seen]  OBVIOUS
<1>5. seen \in {"PENDING", "APPROVED"}  BY <1>1, <1>2 DEF MayCancel
<1>6. j \in Jobs /\ j.at = at /\ j.id = id /\ j.seen = seen /\ at \in {"refund", "cancel"}
  BY <1>3, <1>4, <1>5 DEF Jobs
<1>7. InTurn(j)  BY <1>2, <1>3, <1>6 DEF InTurn, Asking, Deciding, Administering
<1> QED  BY <1>1, <1>2, <1>3, <1>4, <1>6, <1>7, QuietTurn

\* A decision that moved days: the handler goes on with what it has read, or ends.
LEMMA DeductTurn ==
  ASSUME OneHandler, TurnInv, [Next]_vars, NEW w \in Workers, ReviewDeduct(w) \/ CancelRefund(w)
  PROVE  TurnInv'
<1>1. /\ UNCHANGED leaves /\ InTurn(job[w]) /\ job[w] \in Jobs
      /\ job[w].at = "deduct" \/ job[w].at = "refund"
  BY Zenon DEF ReviewDeduct, CancelRefund, TurnInv, Typed, TypeOK
<1>2. NoOverlap'  BY <1>1, OverlapStays DEF TurnInv
<1>3. CASE Goto(w, Idle)  BY <1>2, <1>3, IdleJob, TurnFree, TurnStep
<1>4. CASE job[w].at = "deduct" /\ Goto(w, [job[w] EXCEPT !.at = "decide"])
  <2>1. PICK j : j = [job[w] EXCEPT !.at = "decide"]  OBVIOUS
  <2>2. job[w] \in [at: {"deduct", "decide"}, id: Leaves, verdict: {"APPROVED", "REJECTED"}]  BY <1>1, <1>4, JobLocals
  <2>3. j \in [at: {"deduct", "decide"}, id: Leaves, verdict: {"APPROVED", "REJECTED"}]  BY <2>1, <2>2
  <2>4. j.at = "decide" /\ j.id = job[w].id  BY <2>1, <2>2
  <2>5. j \in Jobs  BY <2>3 DEF Jobs
  <2>6. InTurn(j)'  BY <1>1, <1>4, <2>4 DEF InTurn, Asking, Deciding, Administering
  <2> QED  BY <1>2, <1>4, <2>1, <2>5, <2>6, TurnStep
<1>5. CASE job[w].at = "refund" /\ Goto(w, [job[w] EXCEPT !.at = "cancel"])
  <2>1. PICK j : j = [job[w] EXCEPT !.at = "cancel"]  OBVIOUS
  <2>2. job[w] \in [at: {"refund", "cancel"}, id: Leaves, seen: {"PENDING", "APPROVED"}]  BY <1>1, <1>5, JobLocals
  <2>3. j \in [at: {"refund", "cancel"}, id: Leaves, seen: {"PENDING", "APPROVED"}]  BY <2>1, <2>2
  <2>4. j.at = "cancel" /\ j.id = job[w].id /\ j.seen = job[w].seen  BY <2>1, <2>2
  <2>5. j \in Jobs  BY <2>3 DEF Jobs
  <2>6. InTurn(j)'  BY <1>1, <1>5, <2>4 DEF InTurn, Asking, Deciding, Administering
  <2> QED  BY <1>2, <1>5, <2>1, <2>5, <2>6, TurnStep
<1> QED  BY <1>3, <1>4, <1>5 DEF ReviewDeduct, CancelRefund

\* A decision that is stored: the request is still what it was when it was read.
LEMMA DecideTurn ==
  ASSUME OneHandler, TurnInv, [Next]_vars, NEW w \in Workers, ReviewDecide(w) \/ CancelWrite(w)
  PROVE  TurnInv'
<1> DEFINE id == job[w].id
<1>1. job[w].at \in {"decide", "cancel"} /\ Goto(w, Idle) /\ InTurn(job[w]) /\ job[w] \in Jobs
  BY DEF ReviewDecide, CancelWrite, TurnInv, Typed, TypeOK
<1>2. PICK s \in Status : leaves' = [leaves EXCEPT ![id].status = s]
  <2>1. CASE ReviewDecide(w)
    <3>1. job[w].verdict \in Status  BY <2>1, <1>1, JobLocals DEF Status, ReviewDecide
    <3> QED  BY <2>1, <3>1 DEF ReviewDecide
  <2>2. CASE CancelWrite(w)  BY <2>2 DEF CancelWrite, Status
  <2> QED  BY <2>1, <2>2
<1>3. id \in Leaves /\ leaves[id] # NoLeave  BY <1>1, JobLocals DEF TurnInv, Typed, Referenced
<1>4. leaves[id].status \in {"PENDING", "APPROVED"}  BY <1>1, JobLocals DEF InTurn, Deciding
<1> HIDE DEF id
<1>5. NoOverlap'  BY <1>2, <1>3, <1>4, OverlapAfterStatus DEF TurnInv, Active
<1> QED  BY <1>1, <1>5, IdleJob, TurnFree, TurnStep

\* The handlers of administrators.
LEMMA InitializeTurn ==
  ASSUME OneHandler, TurnInv, [Next]_vars, NEW w \in Workers,
         Initialize(w) \/ InitializeFind(w) \/ InitializeCreate(w)
  PROVE  TurnInv'
<1>1. UNCHANGED leaves  BY Zenon DEF Initialize, InitializeFind, InitializeCreate
<1>2. PICK j : Goto(w, j) /\ j.at \in {"idle", "initFind", "initCreate"}
  <2>1. \A todo : InitLoop(todo).at \in {"idle", "initFind"}  BY DEF InitLoop, Idle
  <2>2. \/ Goto(w, Idle)
        \/ \E todo : Goto(w, InitLoop(todo))
        \/ \E k, todo : Goto(w, [at |-> "initCreate", key |-> k, todo |-> todo])
    BY Zenon DEF Initialize, InitializeFind, InitializeCreate
  <2>3. \A k, todo : [at |-> "initCreate", key |-> k, todo |-> todo].at = "initCreate"  OBVIOUS
  <2> QED  BY <2>1, <2>2, <2>3, IdleJob, Zenon
<1>3. j \in Jobs
  <2>1. job' \in [Workers -> Jobs]  BY TypingStep DEF TurnInv, Typed, TypeOK
  <2>2. job'[w] = j  BY <1>2 DEF Goto, TurnInv, Typed, TypeOK
  <2> QED  BY <2>1, <2>2
<1>4. NoOverlap'  BY <1>1, OverlapStays DEF TurnInv
<1> QED  BY <1>2, <1>3, <1>4, TurnFree, TurnStep

\* An adjustment holds the row as it is stored, until it writes it.
LEMMA AdjustTurn ==
  ASSUME OneHandler, TurnInv, [Next]_vars, NEW w \in Workers, Adjust(w) \/ AdjustWrite(w) \/ Fail(w)
  PROVE  TurnInv'
<1>1. UNCHANGED leaves  BY Zenon DEF Adjust, AdjustWrite, Fail
<1>2. NoOverlap'  BY <1>1, OverlapStays DEF TurnInv
<1>3. CASE Goto(w, Idle)  BY <1>2, <1>3, IdleJob, TurnFree, TurnStep
<1>4. CASE Adjust(w)
  <2>1. PICK k \in Keys, a \in Adjustments : /\ Exists(k) /\ UNCHANGED <<balance, leaves>>
                                             /\ Goto(w, [at |-> "adjust", key |-> k, seen |-> balance[k], by |-> a])
    BY <1>4 DEF Adjust
  <2>2. PICK row : row = balance[k]  OBVIOUS
  <2>3. row \in Rows  BY <2>1, <2>2 DEF Exists, TurnInv, Typed, TypeOK
  <2>4. PICK j : j = [at |-> "adjust", key |-> k, seen |-> row, by |-> a]  OBVIOUS
  <2>5. j \in Jobs /\ j.at = "adjust" /\ j.key = k /\ j.seen = row  BY <2>3, <2>4 DEF Jobs
  <2>6. InTurn(j)  BY <2>2, <2>5 DEF InTurn, Asking, Deciding, Administering
  <2> QED  BY <2>1, <2>2, <2>4, <2>5, <2>6, QuietTurn
<1> QED  BY <1>3, <1>4 DEF AdjustWrite, Fail

\* What one row keeps of the others is what a carry-forward has still to write.
LEMMA CarryLoopTurn ==
  ASSUME NEW todo \in SUBSET Carry, \A c \in todo : Due(c)', \A c, d \in todo : c.key[3] = d.key[3]
  PROVE  InTurn(CarryLoop(todo))'
<1>1. CASE todo = {}  BY <1>1, IdleJob, TurnFree DEF CarryLoop
<1>2. CASE todo # {}
  <2>1. PICK j : j = [at |-> "carryFind", todo |-> todo]  OBVIOUS
  <2>2. CarryLoop(todo) = j  BY <1>2, <2>1 DEF CarryLoop
  <2>3. j.at = "carryFind" /\ j.todo = todo  BY <2>1
  <2>4. InTurn(j)'  BY <2>3 DEF InTurn, Asking, Deciding, Administering, Owed
  <2> QED  BY <2>2, <2>4
<1> QED  BY <1>1, <1>2

\* A carry-forward lists what is due, and reads the row it will write.
LEMMA CarryTurn ==
  ASSUME OneHandler, TurnInv, [Next]_vars, NEW w \in Workers, CarryForward(w) \/ CarryFind(w)
  PROVE  TurnInv'
<1>1. UNCHANGED <<balance, leaves>> /\ balance \in [Keys -> Rows \cup {NoRow}] /\ InTurn(job[w]) /\ job[w] \in Jobs
  BY Zenon DEF CarryForward, CarryFind, TurnInv, Typed, TypeOK
<1>2. NoOverlap'  BY <1>1, OverlapStays DEF TurnInv
<1>3. CASE CarryForward(w)
  <2> DEFINE from(y) == {k \in Keys : /\ k[3] = y - 1
                                      /\ Carries(k[2])
                                      /\ Exists(k)
                                      /\ Smaller(balance[k].remaining, Policy[k[2]].maxCarry) > 0}
             todoOf(y) == {[key |-> <<k[1], k[2], y>>,
                            amount |-> Smaller(balance[k].remaining, Policy[k[2]].maxCarry)] : k \in from(y)}
  <2>1. PICK y \in Years : y - 1 \in Years /\ Goto(w, CarryLoop(todoOf(y)))  BY <1>3, Zenon DEF CarryForward
  <2>2. PICK todo : todo = todoOf(y)  OBVIOUS
  <2>3. ASSUME NEW c \in todo PROVE Due(c) /\ c.key[3] = y
    <3>1. PICK k \in from(y) : c = [key |-> <<k[1], k[2], y>>,
                                    amount |-> Smaller(balance[k].remaining, Policy[k[2]].maxCarry)]
      BY <2>2, <2>3
    <3>2. k \in Keys /\ k[3] = y - 1 /\ Carries(k[2]) /\ Exists(k)
          /\ Smaller(balance[k].remaining, Policy[k[2]].maxCarry) > 0
      BY <3>1
    <3>3. PICK n : n = Smaller(balance[k].remaining, Policy[k[2]].maxCarry)  OBVIOUS
    <3>4. c.key = <<k[1], k[2], y>> /\ c.amount = n /\ c = [key |-> <<k[1], k[2], y>>, amount |-> n]  BY <3>1, <3>3
    <3>5. n \in Int
      <4>1. balance[k].remaining \in Int  BY <1>1, <3>2 DEF Rows, Exists
      <4>2. Policy[k[2]].maxCarry \in Int  BY <3>2, PolicyAssumption DEF Keys, PolicyType
      <4> QED  BY <3>3, <4>1, <4>2 DEF Smaller
    <3>6. k[1] \in Employees /\ k[2] \in Types /\ k = <<k[1], k[2], k[3]>> /\ y \in Int  BY <3>2, CalendarAssumption DEF Keys
    <3>7. c.key \in Keys /\ c.key[1] = k[1] /\ c.key[2] = k[2] /\ c.key[3] = y  BY <3>4, <3>6 DEF Keys
    <3>8. Source(c.key) = k  BY <3>2, <3>6, <3>7 DEF Source
    <3>9. c \in Carry  BY <3>4, <3>5, <3>7 DEF Carry
    <3> QED  BY <2>1, <3>2, <3>3, <3>4, <3>7, <3>8, <3>9 DEF Due
  <2>4. todo \in SUBSET Carry /\ CarryLoop(todo) \in Jobs  BY <2>3, LoopJobs DEF Due
  <2>5. \A c \in todo : Due(c)'  BY <1>1, <2>3 DEF Due, Exists, Carries
  <2>6. PICK j \in Jobs : j = CarryLoop(todo)  BY <2>4
  <2>7. InTurn(CarryLoop(todo))'  BY <2>3, <2>4, <2>5, CarryLoopTurn
  <2>8. InTurn(j)'  BY <2>6, <2>7 DEF CarryLoop
  <2>9. Goto(w, j)
    <3> HIDE DEF todoOf
    <3> QED  BY <2>1, <2>2, <2>6
  <2> QED  BY <1>2, <2>8, <2>9, TurnStep
<1>4. CASE CarryFind(w)
  <2>1. job[w].at = "carryFind" /\ job[w].todo \subseteq Carry  BY <1>1, <1>4, JobLocals DEF CarryFind
  <2>2. PICK c \in job[w].todo : Goto(w, [at |-> "carryWrite", key |-> c.key, amount |-> c.amount,
                                          seen |-> balance[c.key], todo |-> job[w].todo \ {c}])
    BY <1>4, Zenon DEF CarryFind
  <2>3. PICK row, todo, rest : row = balance[c.key] /\ todo = job[w].todo /\ rest = todo \ {c}  OBVIOUS
  <2>4. PICK j : j = [at |-> "carryWrite", key |-> c.key, amount |-> c.amount, seen |-> row, todo |-> rest]  OBVIOUS
  <2>5. c = [key |-> c.key, amount |-> c.amount] /\ c.key \in Keys /\ c.amount \in Int  BY <2>1 DEF Carry
  <2>6. row \in Rows \cup {NoRow} /\ rest \subseteq Carry  BY <1>1, <2>1, <2>3, <2>5
  <2>7. j \in Jobs /\ j.at = "carryWrite" /\ j.key = c.key /\ j.amount = c.amount /\ j.seen = row /\ j.todo = rest
    BY <2>4, <2>5, <2>6 DEF Jobs
  <2>8. Owed(j) = todo  BY <2>2, <2>3, <2>5, <2>7 DEF Owed
  <2>9. (\A d \in todo : Due(d)) /\ \A d, e \in todo : d.key[3] = e.key[3]
    BY <1>1, <2>1, <2>3 DEF InTurn, Administering, Owed
  <2>10. InTurn(j)  BY <2>3, <2>7, <2>8, <2>9 DEF InTurn, Asking, Deciding, Administering
  <2> QED  BY <1>1, <2>2, <2>3, <2>4, <2>7, <2>10, QuietTurn
<1> QED  BY <1>3, <1>4

\* A row of one year is written from rows of the year before, which stay.
LEMMA CarryWriteTurn == ASSUME OneHandler, TurnInv, [Next]_vars, NEW w \in Workers, CarryWrite(w) PROVE TurnInv'
<1>1. /\ job[w].at = "carryWrite" /\ UNCHANGED leaves /\ InTurn(job[w]) /\ job[w] \in Jobs
      /\ balance \in [Keys -> Rows \cup {NoRow}]
  BY Zenon DEF CarryWrite, TurnInv, Typed, TypeOK
<1>2. NoOverlap'  BY <1>1, OverlapStays DEF TurnInv
<1>3. CASE Goto(w, Idle)  BY <1>2, <1>3, IdleJob, TurnFree, TurnStep
<1>4. CASE Goto(w, CarryLoop(job[w].todo))
  <2>1. PICK k, n, todo : k = job[w].key /\ n = job[w].amount /\ todo = job[w].todo  OBVIOUS
  <2>2. k \in Keys /\ todo \subseteq Carry  BY <1>1, <2>1, JobLocals
  <2>3. PICK r : balance' = [balance EXCEPT ![k] = r] \/ balance' = balance
    <3>1. \E r : balance' = [balance EXCEPT ![job[w].key] = r] \/ balance' = balance
      BY Zenon DEF CarryWrite
    <3> QED  BY <2>1, <3>1
  <2>4. \A x \in Keys : x # k => balance'[x] = balance[x]  BY <1>1, <2>3
  <2>5. Owed(job[w]) = todo \cup {[key |-> k, amount |-> n]}  BY <1>1, <2>1 DEF Owed
  <2>6. PICK d : d = [key |-> k, amount |-> n]  OBVIOUS
  <2>7. (\A c \in todo : Due(c)) /\ (\A c, e \in todo : c.key[3] = e.key[3]) /\ \A c \in todo : c.key[3] = k[3]
    <3>1. d.key = k  BY <2>6
    <3> QED  BY <1>1, <2>5, <2>6, <3>1 DEF InTurn, Administering
  <2>8. ASSUME NEW c \in todo PROVE Due(c)'
    <3>1. c.key \in Keys /\ c.key[3] = k[3] /\ Due(c)  BY <2>2, <2>7 DEF Carry
    <3>2. Source(c.key) \in Keys  BY <3>1 DEF Source, Keys, Due
    <3>3. Source(c.key)[3] = k[3] - 1 /\ k[3] \in Int  BY <2>2, <3>1, CalendarAssumption DEF Source, Keys
    <3>4. Source(c.key) # k  BY <3>3
    <3> QED  BY <2>4, <3>1, <3>2, <3>4 DEF Due, Exists, Carries
  <2>9. CarryLoop(todo) \in Jobs  BY <2>2, LoopJobs
  <2>10. PICK j \in Jobs : j = CarryLoop(todo)  BY <2>9
  <2>11. InTurn(CarryLoop(todo))'  BY <2>2, <2>7, <2>8, CarryLoopTurn
  <2>12. InTurn(j)'  BY <2>10, <2>11 DEF CarryLoop
  <2> QED  BY <1>2, <1>4, <2>1, <2>10, <2>12, TurnStep
<1> QED  BY <1>3, <1>4 DEF CarryWrite

\* Handlers in turn keep all of it.
LEMMA TurnsKeep == ASSUME OneHandler, TurnInv, [Next]_vars PROVE TurnInv'
<1>1. CASE UNCHANGED vars
  <2>1. Typed' /\ RowsCharged'  BY TypingStep, ChargedStep DEF TurnInv
  <2>2. NoOverlap' /\ AllBooksBalance'  BY <1>1, OverlapStays DEF vars, TurnInv, AllBooksBalance, Balanced
  <2>3. ASSUME NEW v \in Workers PROVE InTurn(job[v])'
    BY <1>1 DEF vars, TurnInv, InTurn, Asking, Deciding, Administering, Owed, Due, Affordable, Exists, Active
  <2> QED  BY <2>1, <2>2, <2>3 DEF TurnInv
<1>2. ASSUME NEW w \in Workers, RequestStep(w) PROVE TurnInv'
  BY <1>2, ApplyTurn, ApplyOverlapTurn, ApplyCreateTurn, ReviewTurn, CancelTurn, DeductTurn, DecideTurn DEF RequestStep
<1>3. ASSUME NEW w \in Workers, AdminStep(w) \/ Fail(w) PROVE TurnInv'
  BY <1>3, InitializeTurn, AdjustTurn, CarryTurn, CarryWriteTurn DEF AdminStep
<1> QED  BY <1>1, <1>2, <1>3 DEF Next

\* Nothing is under way at first.
LEMMA TurnsBegin == Init => TurnInv
<1> SUFFICES ASSUME Init PROVE TurnInv  OBVIOUS
<1>1. Typed /\ RowsCharged  BY TypingInit, ChargedInit
<1>2. NoOverlap /\ AllBooksBalance  BY DEF Init, NoOverlap, AllBooksBalance, Active, Balanced
<1>3. ASSUME NEW w \in Workers PROVE InTurn(job[w])
  BY IdleJob DEF Init, InTurn, Asking, Deciding, Administering
<1> QED  BY <1>1, <1>2, <1>3 DEF TurnInv

\* So TurnInv holds throughout.
LEMMA TurnsHold == ASSUME OneHandler PROVE Spec => []TurnInv
<1>1. TurnInv /\ [Next]_vars => TurnInv'  BY TurnsKeep
<1> QED  BY <1>1, TurnsBegin, PTL DEF Spec

\* When handlers run one at a time, wherever they stop, no two active requests of an employee
\* share a day and every row balances, those carried forward too (leave.service.ts:38-252,
\* leave-admin.service.ts:8-155).
THEOREM InTurnAlwaysAgrees == ASSUME OneHandler PROVE Spec => []InTurnAllAgrees
<1>1. TurnInv => InTurnAllAgrees  BY DEF TurnInv, InTurnAllAgrees
<1> QED  BY <1>1, TurnsHold, PTL

\* A step of theirs changes the status of a request only from PENDING, or from APPROVED to
\* CANCELLED (the status checks of reviewLeave and cancelLeave).
THEOREM DecisionsStayFinal == ASSUME OneHandler PROVE Spec => DecisionIsFinal
<1> DEFINE Final == \A id \in Leaves : leaves[id] # NoLeave /\ leaves'[id] # leaves[id] =>
                      \/ leaves[id].status = "PENDING"
                      \/ leaves[id].status = "APPROVED" /\ leaves'[id].status = "CANCELLED"
<1>1. TurnInv /\ [Next]_vars => [Final]_vars
  <2> SUFFICES ASSUME TurnInv, Next, NEW id \in Leaves, leaves[id] # NoLeave, leaves'[id] # leaves[id]
               PROVE  \/ leaves[id].status = "PENDING"
                      \/ leaves[id].status = "APPROVED" /\ leaves'[id].status = "CANCELLED"
    BY DEF vars
  <2>1. PICK w \in Workers : RequestStep(w) \/ AdminStep(w) \/ Fail(w)  BY DEF Next
  <2>2. ApplyCreate(w) \/ ReviewDecide(w) \/ CancelWrite(w)
    <3>1. AdminStep(w) \/ Fail(w) => UNCHANGED leaves
      BY DEF AdminStep, Fail, Initialize, InitializeFind, InitializeCreate, Adjust, AdjustWrite, CarryForward,
             CarryFind, CarryWrite
    <3>2. Apply(w) => UNCHANGED leaves  BY DEF Apply, FreshIds
    <3>3. ApplyOverlap(w) \/ ReviewDeduct(w) \/ CancelRefund(w) => UNCHANGED leaves
      BY Zenon DEF ApplyOverlap, ReviewDeduct, CancelRefund
    <3>4. Review(w) \/ Cancel(w) => UNCHANGED leaves  BY Zenon DEF Review, Cancel
    <3> QED  BY <2>1, <3>1, <3>2, <3>3, <3>4 DEF RequestStep
  <2>3. job[w] \in Jobs /\ InTurn(job[w]) /\ leaves \in [Leaves -> LeaveRows \cup {NoLeave}]
    BY DEF TurnInv, Typed, TypeOK
  <2>4. job[w].id = id
    <3>1. \E l : leaves' = [leaves EXCEPT ![job[w].id] = l]
      BY <2>2, Zenon DEF ApplyCreate, ReviewDecide, CancelWrite
    <3> QED  BY <2>3, <3>1
  <2>5. CASE ApplyCreate(w)  BY <2>3, <2>4, <2>5 DEF ApplyCreate, InTurn, Asking
  <2>6. CASE ReviewDecide(w)  BY <2>3, <2>4, <2>6 DEF ReviewDecide, InTurn, Deciding
  <2>7. CASE CancelWrite(w)
    <3>1. job[w].seen \in {"PENDING", "APPROVED"} /\ leaves[id].status = job[w].seen
      BY <2>3, <2>4, <2>7, JobLocals DEF CancelWrite, InTurn, Deciding
    <3>2. leaves'[id].status = "CANCELLED"
      BY <2>4, <2>7, StatusWrite DEF CancelWrite, TurnInv, Status
    <3> QED  BY <3>1, <3>2
  <2> QED  BY <2>2, <2>5, <2>6, <2>7
<1> HIDE DEF Final
<1>2. Spec => [][Final]_vars  BY <1>1, TurnsHold, PTL DEF Spec
<1> QED  BY <1>2 DEF Final, DecisionIsFinal
-----------------------------------------------------------------------------
(* One handler at a time and none stopped implement the ledger: every call *)
(* of theirs is one ledger step or none, as the balances are read.         *)

\* What the ledger shows of a balance while w is at work.
Shown(w, k) == IF Exists(k) THEN balance[k].remaining + Moved(w, k) ELSE NoRow

Held(k) == IF Exists(k) THEN balance[k].carried ELSE 0

\* A handler that has moved days for a decision it has not stored.
Moving(j) ==
  \/ j.at = "decide" /\ j.verdict = "APPROVED"
  \/ j.at = "cancel" /\ j.seen = "APPROVED"

\* The only handler is the one the refinement mapping looks at.
LEMMA LedgerReads ==
  ASSUME OneHandler, NEW w \in Workers
  PROVE  /\ AvailableNow = [k \in Keys |-> Shown(w, k)]
         /\ AvailableNow' = [k \in Keys |-> Shown(w, k)']
         /\ CarriedNow = [k \in Keys |-> Held(k)]
         /\ CarriedNow' = [k \in Keys |-> Held(k)']
<1>1. (CHOOSE v \in Workers : TRUE) = w  BY DEF OneHandler
<1>2. AvailableNow = [k \in Keys |-> Shown(w, k)]  BY <1>1, Zenon DEF AvailableNow, Shown
<1>3. AvailableNow' = [k \in Keys |-> Shown(w, k)']  BY <1>1, Zenon DEF AvailableNow, Shown
<1>4. CarriedNow = [k \in Keys |-> Held(k)]  BY Zenon DEF CarriedNow, Held
<1>5. CarriedNow' = [k \in Keys |-> Held(k)']  BY Zenon DEF CarriedNow, Held
<1> QED  BY <1>2, <1>3, <1>4, <1>5

\* A balance that shows the same throughout, and one that alone shows something new.
LEMMA ShowsTheSame ==
  ASSUME OneHandler, NEW w \in Workers, \A k \in Keys : Shown(w, k)' = Shown(w, k)
  PROVE  AvailableNow' = AvailableNow
<1>1. AvailableNow = [k \in Keys |-> Shown(w, k)] /\ AvailableNow' = [k \in Keys |-> Shown(w, k)']
  BY LedgerReads
<1> QED  BY <1>1, Zenon

LEMMA ShowsOneNew ==
  ASSUME OneHandler, NEW w \in Workers, NEW k \in Keys, NEW n, Shown(w, k)' = n,
         \A x \in Keys : x # k => Shown(w, x)' = Shown(w, x)
  PROVE  AvailableNow' = [AvailableNow EXCEPT ![k] = n]
<1>1. AvailableNow = [x \in Keys |-> Shown(w, x)] /\ AvailableNow' = [x \in Keys |-> Shown(w, x)']
  BY LedgerReads
<1> QED  BY <1>1

\* The same for the days carried.
LEMMA HoldsTheSame == ASSUME \A k \in Keys : Held(k)' = Held(k) PROVE CarriedNow' = CarriedNow
  BY Zenon DEF CarriedNow, Held

\* Whoever moves nothing shows the balances as they are.
LEMMA NothingMoved == ASSUME NEW w \in Workers
  PROVE  /\ ~ Moving(job[w]) => \A k \in Keys : Moved(w, k) = 0
         /\ ~ Moving(job'[w]) => \A k \in Keys : Moved(w, k)' = 0
  BY Zenon DEF Moving, Moved

\* A step that changes no table and moves nothing.
LEMMA QuietLedger ==
  ASSUME OneHandler, NEW w \in Workers, UNCHANGED <<balance, leaves>>, ~ Moving(job[w]), ~ Moving(job'[w])
  PROVE  UNCHANGED Ledger!vars
<1>1. \A k \in Keys : Moved(w, k) = 0 /\ Moved(w, k)' = 0  BY NothingMoved
<1>2. \A k \in Keys : Shown(w, k)' = Shown(w, k)  BY <1>1, Zenon DEF Shown, Exists
<1>3. \A k \in Keys : Held(k)' = Held(k)  BY Zenon DEF Held, Exists
<1> QED  BY <1>2, <1>3, ShowsTheSame, HoldsTheSame DEF Ledger!vars

\* The steps that only look, or give up.
LEMMA LooksOnly ==
  ASSUME OneHandler, Typed, NEW w \in Workers,
         \/ Apply(w) \/ ApplyOverlap(w) \/ Review(w) \/ Cancel(w)
         \/ Initialize(w) \/ InitializeFind(w) \/ Adjust(w) \/ CarryForward(w) \/ CarryFind(w)
  PROVE  UNCHANGED Ledger!vars
<1>1. UNCHANGED <<balance, leaves>>
  <2>1. CASE Apply(w)  BY <2>1 DEF Apply, FreshIds
  <2> QED
    BY <2>1, Zenon DEF ApplyOverlap, Review, Cancel, Initialize, InitializeFind, Adjust, CarryForward, CarryFind
<1>2. ~ Moving(job[w]) /\ ~ Moving(job'[w])
  <2>1. \A todo : InitLoop(todo).at \in {"idle", "initFind"} /\ CarryLoop(todo).at \in {"idle", "carryFind"}
    BY DEF InitLoop, CarryLoop, Idle
  <2>2. ASSUME NEW j, Goto(w, j) PROVE job'[w] = j  BY <2>2 DEF Goto, Typed, TypeOK
  <2>3. CASE Apply(w)
    BY <2>2, <2>3 DEF Apply, FreshIds, Free, Moving
  <2>4. CASE ApplyOverlap(w)
    <3>1. job[w].at = "overlap" /\ job[w] \in [at: {"overlap", "create"}, id: Leaves, asked: Asked]
      BY <2>4, JobLocals DEF ApplyOverlap, Typed, TypeOK
    <3>2. [job[w] EXCEPT !.at = "create"].at = "create"  BY <3>1
    <3> QED  BY <2>2, <2>4, <3>1, <3>2, IdleJob DEF ApplyOverlap, Moving
  <2>5. CASE Review(w) BY <2>2, <2>5 DEF Review, Free, Moving
  <2>6. CASE Cancel(w) BY <2>2, <2>6 DEF Cancel, Free, Moving
  <2>7. CASE Initialize(w) BY <2>1, <2>2, <2>7 DEF Initialize, Free, Moving
  <2>8. CASE InitializeFind(w) BY <2>1, <2>2, <2>8 DEF InitializeFind, Moving
  <2>9. CASE Adjust(w) BY <2>2, <2>9 DEF Adjust, Free, Moving
  <2>10. CASE CarryForward(w) BY <2>1, <2>2, <2>10 DEF CarryForward, Free, Moving
  <2>11. CASE CarryFind(w) BY <2>1, <2>2, <2>11 DEF CarryFind, Moving
  <2> QED  BY <2>3, <2>4, <2>5, <2>6, <2>7, <2>8, <2>9, <2>10, <2>11
<1> QED  BY <1>1, <1>2, QuietLedger

\* The insert of a request files it: what applyLeave checked is still so.
LEMMA FileStep == ASSUME OneHandler, TurnInv, NEW w \in Workers, ApplyCreate(w) PROVE Ledger!Next
<1>1. /\ job[w].at = "create" /\ InTurn(job[w]) /\ job[w] \in Jobs
      /\ balance' = balance /\ balance \in [Keys -> Rows \cup {NoRow}] /\ leaves \in [Leaves -> LeaveRows \cup {NoLeave}]
  BY Zenon DEF ApplyCreate, TurnInv, Typed, TypeOK
<1>2. PICK id, a : id = job[w].id /\ a = job[w].asked  OBVIOUS
<1>3. /\ id \in Leaves /\ a \in Asked /\ leaves[id] = NoLeave /\ a.charge \in Charges \ {0}
      /\ Affordable(KeyOf(a), a.charge) /\ \A x \in Leaves : Active(x) => ~ Overlap(leaves[x], a)
  BY <1>1, <1>2, JobLocals DEF InTurn, Asking
<1>4. PICK l : l = [emp |-> a.emp, type |-> a.type, first |-> a.first, last |-> a.last,
                    charge |-> a.charge, status |-> "PENDING"]
  OBVIOUS
<1>5. leaves' = [leaves EXCEPT ![id] = l]  BY <1>2, <1>4, Zenon DEF ApplyCreate
<1>6. l \in NewRows /\ l.status = "PENDING" /\ l.charge = a.charge /\ KeyOf(l) = KeyOf(a)
  BY <1>3, <1>4 DEF NewRows, Asked, KeyOf
<1>7. \A x \in Leaves : Overlap(leaves[x], l) => Overlap(leaves[x], a)  BY <1>4 DEF Overlap
<1>8. UNCHANGED <<AvailableNow, CarriedNow>>
  <2>1. job'[w] = Idle  BY DEF TurnInv, Typed, TypeOK, ApplyCreate, Goto
  <2>2. ~ Moving(job[w]) /\ ~ Moving(job'[w])  BY <1>1, <2>1, IdleJob DEF Moving
  <2>3. \A k \in Keys : Moved(w, k) = 0 /\ Moved(w, k)' = 0  BY <2>2, NothingMoved
  <2>4. \A k \in Keys : Shown(w, k)' = Shown(w, k) /\ Held(k)' = Held(k)
    BY <1>1, <2>3, Zenon DEF Shown, Held, Exists
  <2> QED  BY <2>4, ShowsTheSame, HoldsTheSame
<1>9. KeyOf(a) \in Keys  BY <1>3, CalendarAssumption DEF Asked, KeyOf, Keys
<1>10. AvailableNow[KeyOf(a)] # NoRow /\ a.charge <= AvailableNow[KeyOf(a)]
  <2>1. ~ Moving(job[w])  BY <1>1 DEF Moving
  <2>2. Moved(w, KeyOf(a)) = 0  BY <1>9, <2>1, NothingMoved
  <2>3. AvailableNow[KeyOf(a)] = Shown(w, KeyOf(a))  BY <1>9, LedgerReads
  <2>4. balance[KeyOf(a)].remaining \in Int  BY <1>1, <1>3, <1>9 DEF Affordable, Exists, Rows
  <2> QED  BY <1>3, <2>2, <2>3, <2>4, LedgerAssumption DEF Shown, Affordable
<1>11. Ledger!File(id, l)
  <2>1. ASSUME NEW x \in Leaves, Ledger!Pending(x) \/ Ledger!Approved(x) PROVE ~ Overlap(leaves[x], l)
    BY <1>3, <1>7, <2>1 DEF Ledger!Pending, Ledger!Approved, Active
  <2>2. Ledger!Open(KeyOf(l)) /\ l.charge <= AvailableNow[KeyOf(l)]  BY <1>6, <1>10 DEF Ledger!Open
  <2> QED  BY <1>3, <1>5, <1>6, <1>8, <2>1, <2>2, Zenon DEF Ledger!File
<1> QED  BY <1>3, <1>6, <1>11, Zenon DEF Ledger!Next

\* What a decision under way has moved, and what it moves when there is nothing else.
LEMMA MovedDays ==
  ASSUME NEW w \in Workers, NEW id \in Leaves, job[w].id = id
  PROVE  /\ job[w].at = "decide" /\ job[w].verdict = "APPROVED" =>
              \A k \in Keys : Moved(w, k) = IF KeyOf(leaves[id]) = k THEN leaves[id].charge ELSE 0
         /\ job[w].at = "cancel" /\ job[w].seen = "APPROVED" =>
              \A k \in Keys : Moved(w, k) = IF KeyOf(leaves[id]) = k THEN - leaves[id].charge ELSE 0
  BY DEF Moved

\* A stored request, its balance and its days.
LEMMA StoredRequest ==
  ASSUME Typed, RowsCharged, NEW id \in Leaves, leaves[id] # NoLeave
  PROVE  /\ leaves[id] \in LeaveRows /\ leaves[id].charge \in Int /\ KeyOf(leaves[id]) \in Keys
         /\ Exists(KeyOf(leaves[id])) /\ balance[KeyOf(leaves[id])] \in Rows
<1>1. leaves[id] \in LeaveRows  BY DEF Typed, TypeOK
<1>2. PICK l \in LeaveRows : l = leaves[id]  BY <1>1
<1>3. l.emp \in Employees /\ l.type \in Types /\ l.first \in Days /\ l.charge \in Int  BY DEF LeaveRows
<1>4. KeyOf(l) \in Keys  BY <1>3, CalendarAssumption DEF KeyOf, Keys
<1> QED  BY <1>1, <1>2, <1>3, <1>4 DEF RowsCharged, Exists, Typed, TypeOK

\* The balance update of an approval or of a refund shows nothing yet.
LEMMA DaysMove ==
  ASSUME OneHandler, TurnInv, NEW w \in Workers, ReviewDeduct(w) \/ CancelRefund(w)
  PROVE  UNCHANGED Ledger!vars
<1>1. /\ job[w].at \in {"deduct", "refund"} /\ InTurn(job[w]) /\ job[w] \in Jobs /\ leaves' = leaves
      /\ balance \in [Keys -> Rows \cup {NoRow}] /\ Typed /\ RowsCharged
  BY Zenon DEF ReviewDeduct, CancelRefund, TurnInv, Typed, TypeOK
<1>2. PICK id, l, k : id = job[w].id /\ l = leaves[id] /\ k = KeyOf(l)  OBVIOUS
<1>3. id \in Leaves /\ l # NoLeave  BY <1>1, <1>2, JobLocals DEF Typed, Referenced
<1>4. l.charge \in Int /\ k \in Keys /\ Exists(k) /\ balance[k] \in Rows  BY <1>1, <1>2, <1>3, StoredRequest
<1>5. PICK c \in Int : c = l.charge  BY <1>4
<1>6. ~ Moving(job[w])  BY <1>1 DEF Moving
<1>7. \A x \in Keys : Moved(w, x) = 0  BY <1>6, NothingMoved
<1>8. CASE ReviewDeduct(w)
  <2>1. balance' = [balance EXCEPT ![k] = Deducted(@, c)] /\ Goto(w, [job[w] EXCEPT !.at = "decide"])
    BY <1>2, <1>4, <1>5, <1>8, Zenon DEF ReviewDeduct
  <2>2. job[w].at = "deduct" /\ job[w].verdict = "APPROVED"
    BY <1>1, <1>8, Zenon DEF ReviewDeduct, InTurn, Deciding
  <2>3. job[w] \in [at: {"deduct", "decide"}, id: Leaves, verdict: {"APPROVED", "REJECTED"}]  BY <1>1, <2>2, JobLocals
  <2>4. job'[w] = [job[w] EXCEPT !.at = "decide"]  BY <2>1 DEF Goto, Typed, TypeOK, TurnInv
  <2>5. job'[w].at = "decide" /\ job'[w].verdict = "APPROVED" /\ job'[w].id = id  BY <1>2, <2>2, <2>3, <2>4
  <2>6. \A x \in Keys : Moved(w, x)' = IF k = x THEN c ELSE 0
    BY <1>1, <1>2, <1>5, <2>5 DEF Moved, KeyOf
  <2>7. balance'[k] = Deducted(balance[k], c) /\ \A x \in Keys : x # k => balance'[x] = balance[x]  BY <1>1, <1>4, <2>1
  <2>8. /\ balance'[k].remaining = balance[k].remaining - c /\ balance'[k].carried = balance[k].carried
        /\ balance'[k] # NoRow
    <3>1. balance'[k] \in Rows  BY <1>4, <2>7, RowTypes, Zenon
    <3>2. PICK r \in Rows : r = balance[k]  BY <1>4
    <3>3. Deducted(r, c).remaining = r.remaining - c /\ Deducted(r, c).carried = r.carried  BY DEF Deducted, Rows
    <3> QED  BY <2>7, <3>1, <3>2, <3>3, NullAssumption
  <2>9. \A x \in Keys : Held(x)' = Held(x)  BY <1>4, <2>7, <2>8 DEF Held, Exists
  <2>10. \A x \in Keys : x # k => Shown(w, x)' = Shown(w, x)  BY <1>7, <2>6, <2>7 DEF Shown, Exists
  <2>11. Shown(w, k)' = Shown(w, k)
    <3>1. PICK r \in Int : r = balance[k].remaining  BY <1>4 DEF Rows
    <3>2. Shown(w, k)' = (r - c) + c  BY <1>4, <2>6, <2>8, <3>1 DEF Shown, Exists
    <3>3. Shown(w, k) = r + 0  BY <1>4, <1>7, <3>1 DEF Shown
    <3> QED  BY <3>2, <3>3
  <2> QED  BY <1>1, <2>9, <2>10, <2>11, ShowsTheSame, HoldsTheSame DEF Ledger!vars
<1>9. CASE CancelRefund(w)
  <2>1. balance' = [balance EXCEPT ![k] = Refunded(@, c)] /\ Goto(w, [job[w] EXCEPT !.at = "cancel"])
    BY <1>2, <1>4, <1>5, <1>9, Zenon DEF CancelRefund
  <2>2. job[w].at = "refund" /\ job[w].seen = "APPROVED"
    BY <1>1, <1>9, Zenon DEF CancelRefund, InTurn, Deciding
  <2>3. job[w] \in [at: {"refund", "cancel"}, id: Leaves, seen: {"PENDING", "APPROVED"}]  BY <1>1, <2>2, JobLocals
  <2>4. job'[w] = [job[w] EXCEPT !.at = "cancel"]  BY <2>1 DEF Goto, Typed, TypeOK, TurnInv
  <2>5. job'[w].at = "cancel" /\ job'[w].seen = "APPROVED" /\ job'[w].id = id  BY <1>2, <2>2, <2>3, <2>4
  <2>6. \A x \in Keys : Moved(w, x)' = IF k = x THEN - c ELSE 0
    BY <1>1, <1>2, <1>5, <2>5 DEF Moved, KeyOf
  <2>7. balance'[k] = Refunded(balance[k], c) /\ \A x \in Keys : x # k => balance'[x] = balance[x]  BY <1>1, <1>4, <2>1
  <2>8. /\ balance'[k].remaining = balance[k].remaining + c /\ balance'[k].carried = balance[k].carried
        /\ balance'[k] # NoRow
    <3>1. balance'[k] \in Rows  BY <1>4, <2>7, RowTypes, Zenon
    <3>2. PICK r \in Rows : r = balance[k]  BY <1>4
    <3>3. Refunded(r, c).remaining = r.remaining + c /\ Refunded(r, c).carried = r.carried  BY DEF Refunded, Rows
    <3> QED  BY <2>7, <3>1, <3>2, <3>3, NullAssumption
  <2>9. \A x \in Keys : Held(x)' = Held(x)  BY <1>4, <2>7, <2>8 DEF Held, Exists
  <2>10. \A x \in Keys : x # k => Shown(w, x)' = Shown(w, x)  BY <1>7, <2>6, <2>7 DEF Shown, Exists
  <2>11. Shown(w, k)' = Shown(w, k)
    <3>1. PICK r \in Int : r = balance[k].remaining  BY <1>4 DEF Rows
    <3>2. Shown(w, k)' = (r + c) + (- c)  BY <1>4, <2>6, <2>8, <3>1 DEF Shown, Exists
    <3>3. Shown(w, k) = r + 0  BY <1>4, <1>7, <3>1 DEF Shown
    <3> QED  BY <3>2, <3>3
  <2> QED  BY <1>1, <2>9, <2>10, <2>11, ShowsTheSame, HoldsTheSame DEF Ledger!vars
<1> QED  BY <1>8, <1>9

\* The write of a status shows what was moved for it: nothing for a rejection or for the
\* cancellation of a pending request, the days of the request otherwise.
LEMMA DecisionStep ==
  ASSUME OneHandler, TurnInv, NEW w \in Workers, ReviewDecide(w) \/ CancelWrite(w)
  PROVE  Ledger!Next
<1>1. /\ job[w].at \in {"decide", "cancel"} /\ InTurn(job[w]) /\ job[w] \in Jobs /\ balance' = balance
      /\ Typed /\ RowsCharged
  BY Zenon DEF ReviewDecide, CancelWrite, TurnInv, Typed, TypeOK
<1>2. PICK id, l, k : id = job[w].id /\ l = leaves[id] /\ k = KeyOf(l)  OBVIOUS
<1>3. id \in Leaves /\ l # NoLeave  BY <1>1, <1>2, JobLocals DEF Typed, Referenced
<1>4. l.charge \in Int /\ k \in Keys /\ Exists(k) /\ balance[k] \in Rows  BY <1>1, <1>2, <1>3, StoredRequest
<1>5. PICK c \in Int, r \in Int : c = l.charge /\ r = balance[k].remaining  BY <1>4 DEF Rows
<1>6. ~ Moving(job'[w])
  <2>1. job'[w] = Idle  BY Zenon DEF TurnInv, Typed, TypeOK, ReviewDecide, CancelWrite, Goto
  <2> QED  BY <2>1, IdleJob DEF Moving
<1>7. \A x \in Keys : Moved(w, x)' = 0  BY <1>6, NothingMoved
<1>8. CarriedNow' = CarriedNow
  <2>1. \A x \in Keys : Held(x)' = Held(x)  BY <1>1 DEF Held, Exists
  <2> QED  BY <2>1, HoldsTheSame
<1>9. Shown(w, k)' = r  BY <1>1, <1>4, <1>5, <1>7 DEF Shown, Exists
<1>10. CASE ~ Moving(job[w])
  <2>1. \A x \in Keys : Moved(w, x) = 0  BY <1>10, NothingMoved
  <2>2. \A x \in Keys : Shown(w, x)' = Shown(w, x)  BY <1>1, <1>7, <2>1 DEF Shown, Exists
  <2>3. AvailableNow' = AvailableNow  BY <2>2, ShowsTheSame
  <2>4. CASE ReviewDecide(w)
    <3>1. job[w].at = "decide" /\ leaves[id].status = "PENDING" /\ leaves' = [leaves EXCEPT ![id].status = job[w].verdict]
      BY <1>1, <1>2, <2>4, Zenon DEF ReviewDecide, InTurn, Deciding
    <3>2. job[w].verdict = "REJECTED"  BY <1>1, <1>10, <3>1, JobLocals DEF Moving
    <3>3. Ledger!Reject(id)
      BY <1>2, <1>3, <1>8, <2>3, <3>1, <3>2, Zenon DEF Ledger!Reject, Ledger!Pending
    <3> QED  BY <1>3, <3>3, Zenon DEF Ledger!Next
  <2>5. CASE CancelWrite(w)
    <3>1. job[w].at = "cancel" /\ leaves[id].status = job[w].seen /\ leaves' = [leaves EXCEPT ![id].status = "CANCELLED"]
      BY <1>1, <1>2, <2>5, Zenon DEF CancelWrite, InTurn, Deciding
    <3>2. job[w].seen = "PENDING"  BY <1>1, <1>10, <3>1, JobLocals DEF Moving
    <3>3. Ledger!Withdraw(id)
      BY <1>2, <1>3, <1>8, <2>3, <3>1, <3>2, Zenon DEF Ledger!Withdraw, Ledger!Pending
    <3> QED  BY <1>3, <3>3, Zenon DEF Ledger!Next
  <2> QED  BY <2>4, <2>5
<1>11. CASE job[w].at = "decide" /\ job[w].verdict = "APPROVED"
  <2>1. ReviewDecide(w)  BY <1>11 DEF CancelWrite
  <2>2. leaves[id].status = "PENDING" /\ leaves' = [leaves EXCEPT ![id].status = "APPROVED"]
    BY <1>1, <1>2, <1>11, <2>1, Zenon DEF ReviewDecide, InTurn, Deciding
  <2>3. \A x \in Keys : Moved(w, x) = IF k = x THEN c ELSE 0  BY <1>2, <1>3, <1>5, <1>11, MovedDays
  <2>4. \A x \in Keys : x # k => Shown(w, x)' = Shown(w, x)  BY <1>1, <1>7, <2>3 DEF Shown, Exists
  <2>5. Shown(w, k) = r + c  BY <1>4, <1>5, <2>3 DEF Shown
  <2>6. AvailableNow[k] = r + c  BY <1>4, <2>5, LedgerReads
  <2>7. AvailableNow' = [AvailableNow EXCEPT ![k] = r]  BY <1>4, <1>9, <2>4, ShowsOneNew
  <2>8. r = AvailableNow[k] - c  BY <2>6
  <2>9. AvailableNow' = [AvailableNow EXCEPT ![k] = AvailableNow[k] - c]  BY <2>7, <2>8, Zenon
  <2>10. AvailableNow' = [AvailableNow EXCEPT ![k] = @ - c]  BY <2>9, Zenon
  <2>11. Ledger!Approve(id)
    BY <1>2, <1>3, <1>5, <1>8, <2>2, <2>10, Zenon DEF Ledger!Approve, Ledger!Pending
  <2> QED  BY <1>3, <2>11, Zenon DEF Ledger!Next
<1>12. CASE job[w].at = "cancel" /\ job[w].seen = "APPROVED"
  <2>1. CancelWrite(w)  BY <1>12 DEF ReviewDecide
  <2>2. leaves[id].status = "APPROVED" /\ leaves' = [leaves EXCEPT ![id].status = "CANCELLED"]
    BY <1>1, <1>2, <1>12, <2>1, Zenon DEF CancelWrite, InTurn, Deciding
  <2>3. \A x \in Keys : Moved(w, x) = IF k = x THEN - c ELSE 0  BY <1>2, <1>3, <1>5, <1>12, MovedDays
  <2>4. \A x \in Keys : x # k => Shown(w, x)' = Shown(w, x)  BY <1>1, <1>7, <2>3 DEF Shown, Exists
  <2>5. Shown(w, k) = r + (- c)  BY <1>4, <1>5, <2>3 DEF Shown
  <2>6. AvailableNow[k] = r + (- c)  BY <1>4, <2>5, LedgerReads
  <2>7. AvailableNow' = [AvailableNow EXCEPT ![k] = r]  BY <1>4, <1>9, <2>4, ShowsOneNew
  <2>8. r = AvailableNow[k] + c  BY <2>6
  <2>9. AvailableNow' = [AvailableNow EXCEPT ![k] = AvailableNow[k] + c]  BY <2>7, <2>8, Zenon
  <2>10. AvailableNow' = [AvailableNow EXCEPT ![k] = @ + c]  BY <2>9, Zenon
  <2>11. Ledger!Revoke(id)
    BY <1>2, <1>3, <1>5, <1>8, <2>2, <2>10, Zenon DEF Ledger!Revoke, Ledger!Approved
  <2> QED  BY <1>3, <2>11, Zenon DEF Ledger!Next
<1> QED  BY <1>10, <1>11, <1>12 DEF Moving

\* A balance row that is written while nothing is moved shows its remaining days.
LEMMA RowShows ==
  ASSUME OneHandler, NEW w \in Workers, balance \in [Keys -> Rows \cup {NoRow}],
         ~ Moving(job[w]), ~ Moving(job'[w]), NEW k \in Keys, NEW r \in Rows,
         balance' = [balance EXCEPT ![k] = r], leaves' = leaves
  PROVE  /\ AvailableNow' = [AvailableNow EXCEPT ![k] = r.remaining]
         /\ CarriedNow' = [CarriedNow EXCEPT ![k] = r.carried]
         /\ \A x \in Keys : AvailableNow[x] = IF Exists(x) THEN balance[x].remaining ELSE NoRow
         /\ \A x \in Keys : CarriedNow[x] = IF Exists(x) THEN balance[x].carried ELSE 0
<1>1. \A x \in Keys : Moved(w, x) = 0 /\ Moved(w, x)' = 0  BY NothingMoved
<1>2. balance'[k] = r /\ \A x \in Keys : x # k => balance'[x] = balance[x]  OBVIOUS
<1>3. ASSUME NEW x \in Keys PROVE Shown(w, x) = IF Exists(x) THEN balance[x].remaining ELSE NoRow
  <2>1. CASE ~ Exists(x)  BY <2>1 DEF Shown
  <2>2. CASE Exists(x)
    <3>1. PICK n \in Int : n = balance[x].remaining  BY <2>2 DEF Exists, Rows
    <3> QED  BY <1>1, <2>2, <3>1 DEF Shown
  <2> QED  BY <2>1, <2>2
<1>4. \A x \in Keys : x # k => Shown(w, x)' = Shown(w, x) /\ Held(x)' = Held(x)
  BY <1>1, <1>2, Zenon DEF Shown, Held, Exists
<1>5. r # NoRow /\ r.remaining \in Int  BY NullAssumption DEF Rows
<1>6. Shown(w, k)' = r.remaining
  <2>1. Shown(w, k)' = r.remaining + 0  BY <1>1, <1>2, <1>5, Zenon DEF Shown, Exists
  <2> QED  BY <1>5, <2>1
<1>7. Held(k)' = r.carried  BY <1>2, <1>5 DEF Held, Exists
<1>8. AvailableNow' = [AvailableNow EXCEPT ![k] = r.remaining]  BY <1>4, <1>6, ShowsOneNew
<1>9. CarriedNow' = [CarriedNow EXCEPT ![k] = r.carried]
  <2>1. CarriedNow = [x \in Keys |-> Held(x)] /\ CarriedNow' = [x \in Keys |-> Held(x)']  BY LedgerReads
  <2> QED  BY <1>4, <1>7, <2>1
<1>10. \A x \in Keys : AvailableNow[x] = Shown(w, x) /\ CarriedNow[x] = Held(x)  BY LedgerReads
<1> QED  BY <1>3, <1>8, <1>9, <1>10 DEF Held

\* The insert of initializeEmployeeBalances opens a year with the entitlement of its type.
LEMMA OpenStep ==
  ASSUME OneHandler, Typed, NEW w \in Workers, InitializeCreate(w)
  PROVE  Ledger!Next \/ UNCHANGED Ledger!vars
<1>1. /\ job[w].at = "initCreate" /\ job[w] \in Jobs /\ leaves' = leaves
      /\ balance \in [Keys -> Rows \cup {NoRow}]
  BY Zenon DEF InitializeCreate, Typed, TypeOK
<1>2. PICK k \in Keys : k = job[w].key  BY <1>1, JobLocals
<1>3. ~ Moving(job[w]) /\ ~ Moving(job'[w])
  <2>1. job'[w] = Idle \/ job'[w] = InitLoop(job[w].todo)  BY Zenon DEF Typed, TypeOK, InitializeCreate, Goto
  <2> QED  BY <1>1, <2>1 DEF Moving, InitLoop, Idle
<1>4. CASE Exists(k)
  <2>1. balance' = balance  BY <1>2, <1>4, Zenon DEF InitializeCreate
  <2> QED  BY <1>1, <1>3, <2>1, QuietLedger
<1>5. CASE ~ Exists(k)
  <2>1. PICK n : n = Policy[k[2]].perYear  OBVIOUS
  <2>2. n \in Int  BY <1>2, <2>1, PolicyAssumption DEF Keys, PolicyType
  <2>3. PICK r : r = [entitled |-> n, used |-> 0, carried |-> 0, remaining |-> n]  OBVIOUS
  <2>4. r \in Rows /\ r.remaining = n /\ r.carried = 0  BY <2>2, <2>3 DEF Rows
  <2>5. balance' = [balance EXCEPT ![k] = r]  BY <1>2, <1>5, <2>1, <2>3, Zenon DEF InitializeCreate
  <2>6. /\ AvailableNow' = [AvailableNow EXCEPT ![k] = n] /\ CarriedNow' = [CarriedNow EXCEPT ![k] = 0]
        /\ AvailableNow[k] = NoRow /\ CarriedNow[k] = 0
    BY <1>1, <1>3, <1>5, <2>4, <2>5, RowShows
  <2>7. CarriedNow' = CarriedNow
    <3>1. CarriedNow = [x \in Keys |-> Held(x)]  BY LedgerReads
    <3> QED  BY <2>6, <3>1
  <2>8. Ledger!OpenYear(k)
    BY <1>1, <2>1, <2>6, <2>7, Zenon DEF Ledger!OpenYear, Ledger!Open, Entitlement
  <2> QED  BY <2>8, Zenon DEF Ledger!Next
<1> QED  BY <1>4, <1>5

\* The write of an adjustment adds the amount: the row it was computed from is still there.
LEMMA AdjustStep == ASSUME OneHandler, TurnInv, NEW w \in Workers, AdjustWrite(w) PROVE Ledger!Next
<1>1. /\ job[w].at = "adjust" /\ job[w] \in Jobs /\ leaves' = leaves /\ InTurn(job[w])
      /\ balance \in [Keys -> Rows \cup {NoRow}] /\ Typed /\ AllBooksBalance
  BY Zenon DEF AdjustWrite, TurnInv, Typed, TypeOK
<1>2. PICK k, a : k = job[w].key /\ a = job[w].by  OBVIOUS
<1>3. k \in Keys /\ a \in Adjustments /\ a \in Int /\ a # 0  BY <1>1, <1>2, JobLocals, PolicyAssumption
<1>4. Exists(k)  BY <1>1, <1>2 DEF Typed, Stored
<1>5. PICK row \in Rows : row = balance[k]  BY <1>1, <1>3, <1>4 DEF Exists
<1>6. job[w].seen = row  BY <1>1, <1>2, <1>5 DEF InTurn, Administering
<1>7. PICK r \in Rows : r = Adjusted(row, row, a)  BY <1>3, RowTypes
<1>8. balance' = [balance EXCEPT ![k] = r]
  BY <1>2, <1>5, <1>6, <1>7, Zenon DEF AdjustWrite
<1>9. row.remaining = row.entitled + row.carried - row.used
  <2>1. Balanced(row)  BY <1>1, <1>3, <1>5 DEF AllBooksBalance
  <2> QED  BY <2>1, NullAssumption DEF Balanced
<1>10. r.remaining = row.remaining + a /\ r.carried = row.carried
  <2>1. PICK e \in Int, u \in Int, c \in Int, m \in Int :
          e = row.entitled /\ u = row.used /\ c = row.carried /\ m = row.remaining
    BY DEF Rows
  <2>2. PICK p \in Int, q \in Int : p = (IF a > 0 THEN e + a ELSE e) /\ q = (IF a < 0 THEN u - a ELSE u)
    <3>1. (IF a > 0 THEN e + a ELSE e) \in Int /\ (IF a < 0 THEN u - a ELSE u) \in Int  BY <1>3
    <3> QED  BY <3>1, Zenon
  <2>3. PICK s \in Int : s = p + c - q  BY <2>1, <2>2
  <2>4. r = [row EXCEPT !.entitled = p, !.used = q, !.remaining = s]
    BY <1>7, <2>1, <2>2, <2>3, Zenon DEF Adjusted
  <2>5. r.remaining = s /\ r.carried = c  BY <2>1, <2>4 DEF Rows
  <2>6. s = m + a  BY <1>3, <1>9, <2>1, <2>2, <2>3
  <2> QED  BY <2>1, <2>5, <2>6
<1>11. ~ Moving(job[w]) /\ ~ Moving(job'[w])
  <2>1. job'[w] = Idle  BY <1>1 DEF Typed, TypeOK, AdjustWrite, Goto
  <2> QED  BY <1>1, <2>1, IdleJob DEF Moving
<1>12. /\ AvailableNow' = [AvailableNow EXCEPT ![k] = r.remaining] /\ CarriedNow' = [CarriedNow EXCEPT ![k] = r.carried]
       /\ AvailableNow[k] = row.remaining /\ CarriedNow[k] = row.carried
  BY <1>1, <1>3, <1>4, <1>5, <1>8, <1>11, RowShows
<1>13. CarriedNow' = CarriedNow
  <2>1. CarriedNow = [x \in Keys |-> Held(x)]  BY LedgerReads
  <2> QED  BY <1>3, <1>10, <1>12, <2>1
<1>14. AvailableNow' = [AvailableNow EXCEPT ![k] = @ + a]  BY <1>10, <1>12, Zenon
<1>15. AvailableNow[k] # NoRow  BY <1>12, LedgerAssumption DEF Rows
<1>16. Ledger!AdjustBy(k, a)  BY <1>1, <1>13, <1>14, <1>15, Zenon DEF Ledger!AdjustBy, Ledger!Open
<1> QED  BY <1>3, <1>16, Zenon DEF Ledger!Next

\* The write of a carry-forward replaces what was carried before, or opens the year with it.
LEMMA CarryStep ==
  ASSUME OneHandler, TurnInv, NEW w \in Workers, CarryWrite(w)
  PROVE  Ledger!Next \/ UNCHANGED Ledger!vars
<1>1. /\ job[w].at = "carryWrite" /\ job[w] \in Jobs /\ leaves' = leaves /\ InTurn(job[w])
      /\ balance \in [Keys -> Rows \cup {NoRow}] /\ Typed /\ AllBooksBalance
  BY Zenon DEF CarryWrite, TurnInv, Typed, TypeOK
<1>2. PICK k, n : k = job[w].key /\ n = job[w].amount  OBVIOUS
<1>3. k \in Keys /\ n \in Int  BY <1>1, <1>2, JobLocals
<1>4. job[w].seen = balance[k]  BY <1>1, <1>2 DEF InTurn, Administering
<1>5. PICK d : d = [key |-> k, amount |-> n]  OBVIOUS
<1>6. d.key = k /\ d.amount = n /\ Due(d)
  <2>1. d \in Owed(job[w])  BY <1>1, <1>2, <1>5 DEF Owed
  <2> QED  BY <1>1, <1>5, <2>1 DEF InTurn, Administering
<1>7. PICK s : s = Source(k)  OBVIOUS
<1>8. /\ Carries(k[2]) /\ k[3] - 1 \in Years /\ Exists(s) /\ n > 0
      /\ n = Smaller(balance[s].remaining, Policy[k[2]].maxCarry)
  BY <1>6, <1>7 DEF Due
<1>9. s \in Keys /\ s = ThePreviousKey(k)  BY <1>3, <1>7, <1>8 DEF Source, Keys, ThePreviousKey
<1>10. s # NoRow  BY <1>9, LedgerAssumption
<1>11. ~ Moving(job[w]) /\ ~ Moving(job'[w])
  <2>1. \A j : Goto(w, j) => job'[w] = j  BY <1>1 DEF Typed, TypeOK, Goto
  <2>2. Goto(w, Idle) \/ Goto(w, CarryLoop(job[w].todo))  BY Zenon DEF CarryWrite
  <2>3. job'[w] = Idle \/ job'[w] = CarryLoop(job[w].todo)  BY <2>1, <2>2, Zenon
  <2> QED  BY <1>1, <2>3 DEF Moving, CarryLoop, Idle
<1>12. PICK fresh \in Int : fresh = Policy[k[2]].perYear
  BY <1>3, PolicyAssumption DEF Keys, PolicyType
<1>13. PICK r \in Rows :
         /\ balance' = [balance EXCEPT ![k] = r] /\ r.carried = n
         /\ r.remaining = (IF Exists(k) THEN balance[k].remaining - balance[k].carried ELSE fresh) + n
  <2>1. CASE Exists(k)
    <3>1. PICK row \in Rows : row = balance[k]  BY <1>1, <1>3, <2>1 DEF Exists
    <3>2. PICK r \in Rows : r = CarriedInto(row, row, n)  BY <1>3, RowTypes
    <3>3. balance' = [balance EXCEPT ![k] = r]
      BY <1>2, <1>4, <2>1, <3>1, <3>2, Zenon DEF CarryWrite, Exists
    <3>4. row.remaining = row.entitled + row.carried - row.used
      <4>1. Balanced(row)  BY <1>1, <1>3, <3>1 DEF AllBooksBalance
      <4> QED  BY <4>1, NullAssumption DEF Balanced
    <3>5. r.carried = n /\ r.remaining = row.entitled + n - row.used
      <4>1. PICK m \in Int : m = row.entitled + n - row.used  BY <1>3 DEF Rows
      <4>2. r = [row EXCEPT !.carried = n, !.remaining = m]  BY <3>2, <4>1 DEF CarriedInto
      <4> QED  BY <4>1, <4>2 DEF Rows
    <3>6. r.remaining = row.remaining - row.carried + n
      <4>1. row.entitled \in Int /\ row.carried \in Int /\ row.used \in Int  BY DEF Rows
      <4> QED  BY <1>3, <3>4, <3>5, <4>1
    <3> QED  BY <2>1, <3>1, <3>3, <3>5, <3>6
  <2>2. CASE ~ Exists(k)
    <3>1. PICK m \in Int : m = fresh + n  BY <1>3
    <3>2. PICK r : r = [entitled |-> fresh, used |-> 0, carried |-> n, remaining |-> m]  OBVIOUS
    <3>3. r \in Rows /\ r.carried = n /\ r.remaining = m  BY <1>3, <3>1, <3>2 DEF Rows
    <3>4. balance' = [balance EXCEPT ![k] = r]
      BY <1>2, <1>4, <1>12, <2>2, <3>1, <3>2, Zenon DEF CarryWrite, Exists
    <3> QED  BY <2>2, <3>1, <3>3, <3>4
  <2> QED  BY <2>1, <2>2
<1>14. /\ AvailableNow' = [AvailableNow EXCEPT ![k] = r.remaining] /\ CarriedNow' = [CarriedNow EXCEPT ![k] = n]
       /\ \A x \in Keys : AvailableNow[x] = IF Exists(x) THEN balance[x].remaining ELSE NoRow
       /\ \A x \in Keys : CarriedNow[x] = IF Exists(x) THEN balance[x].carried ELSE 0
  BY <1>1, <1>3, <1>11, <1>13, RowShows
<1>15. ASSUME NEW x \in Keys, Exists(x) PROVE balance[x].remaining \in Int /\ balance[x].remaining # NoRow
  BY <1>1, <1>15, LedgerAssumption DEF Exists, Rows
<1>16. AvailableNow[s] # NoRow /\ AvailableNow[s] = balance[s].remaining  BY <1>8, <1>9, <1>14, <1>15
<1>17. n = IF AvailableNow[s] < CarryLimit(k) THEN AvailableNow[s] ELSE CarryLimit(k)
  BY <1>8, <1>16 DEF CarryLimit, Smaller
<1>18. r.remaining = (IF AvailableNow[k] # NoRow THEN AvailableNow[k] - CarriedNow[k] ELSE Entitlement(k)) + n
  BY <1>3, <1>12, <1>13, <1>14, <1>15 DEF Entitlement
<1>19. Ledger!CarryInto(k)
  <2>1. AvailableNow' = [AvailableNow EXCEPT ![k] =
          (IF AvailableNow[k] # NoRow THEN AvailableNow[k] - CarriedNow[k] ELSE Entitlement(k)) + n]
    BY <1>14, <1>18, Zenon
  <2> QED  BY <1>1, <1>8, <1>9, <1>10, <1>14, <1>16, <1>17, <2>1, Zenon DEF Ledger!CarryInto, Ledger!Open
<1> QED  BY <1>3, <1>19, Zenon DEF Ledger!Next

\* Every step of a handler that never stops is one step of the ledger or none.
LEMMA StepsImplement ==
  ASSUME OneHandler, MaxFailures = 0, TurnInv, [Next]_vars
  PROVE  [Ledger!Next]_(Ledger!vars)
<1>1. CASE UNCHANGED vars
  <2>1. balance' = balance /\ leaves' = leaves /\ job' = job  BY <1>1 DEF vars
  <2>2. AvailableNow' = AvailableNow  BY <2>1 DEF AvailableNow, Moved, Exists, KeyOf
  <2>3. CarriedNow' = CarriedNow  BY <2>1 DEF CarriedNow, Exists
  <2> QED  BY <2>1, <2>2, <2>3 DEF Ledger!vars
<1>2. CASE Next
  <2>1. PICK w \in Workers : RequestStep(w) \/ AdminStep(w) \/ Fail(w)  BY <1>2 DEF Next
  <2>2. ~ Fail(w)  BY DEF Fail, TurnInv, Typed, TypeOK
  <2>3. CASE ApplyCreate(w) \/ ReviewDecide(w) \/ CancelWrite(w) \/ AdjustWrite(w)
    BY <2>3, FileStep, DecisionStep, AdjustStep
  <2>4. CASE ReviewDeduct(w) \/ CancelRefund(w)  BY <2>4, DaysMove
  <2>5. CASE InitializeCreate(w)  BY <2>5, OpenStep DEF TurnInv
  <2>6. CASE CarryWrite(w)  BY <2>6, CarryStep
  <2>7. CASE \/ Apply(w) \/ ApplyOverlap(w) \/ Review(w) \/ Cancel(w)
             \/ Initialize(w) \/ InitializeFind(w) \/ Adjust(w) \/ CarryForward(w) \/ CarryFind(w)
    BY <2>7, LooksOnly DEF TurnInv
  <2> QED  BY <2>1, <2>2, <2>3, <2>4, <2>5, <2>6, <2>7 DEF RequestStep, AdminStep
<1> QED  BY <1>1, <1>2

\* Nothing is stored at first.
LEMMA LedgerBegins == Init => Ledger!Init
<1> SUFFICES ASSUME Init PROVE Ledger!Init  OBVIOUS
<1>1. \A k \in Keys : ~ Exists(k)  BY DEF Init, Exists
<1>2. AvailableNow = [k \in Keys |-> NoRow] /\ CarriedNow = [k \in Keys |-> 0]
  BY <1>1, Zenon DEF AvailableNow, CarriedNow
<1> QED  BY <1>2 DEF Init, Ledger!Init

\* Handlers that run one at a time and are not stopped implement the ledger: every request, decision,
\* cancellation, initialization, adjustment and carry-forward of leave.service.ts and
\* leave-admin.service.ts has the effect of one indivisible step on the requests and the balances.
THEOREM LedgerImplemented == ASSUME OneHandler, MaxFailures = 0 PROVE Spec => ImplementsLedger
<1>1. TurnInv /\ [Next]_vars => [Ledger!Next]_(Ledger!vars)  BY StepsImplement
<1> QED  BY <1>1, LedgerBegins, TurnsHold, PTL DEF Spec, ImplementsLedger, Ledger!Spec
=============================================================================
