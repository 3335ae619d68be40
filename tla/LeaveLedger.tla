---------------------------- MODULE LeaveLedger ----------------------------
(***************************************************************************)
(* What the leave module promises its users: every request, decision,      *)
(* cancellation and administrative entry is one indivisible step on the    *)
(* requests and on the days available in each balance.                     *)
(***************************************************************************)
EXTENDS Integers

CONSTANTS Leaves, Keys, Adjustments, NoLeave, NoRow,
          RequestRows,    \* the rows a request can be stored as
          KeyOf(_),       \* the balance a request is charged to
          Overlap(_, _),  \* whether two requests of an employee share a day
          Entitled(_),    \* the yearly entitlement of a balance
          MaxCarry(_),    \* the most days carried into a balance, 0 for none
          Previous(_)     \* the balance of the year before, or NoRow

VARIABLES requests, available, carried

vars == <<requests, available, carried>>

Open(k) == available[k] # NoRow

Pending(id) == requests[id] # NoLeave /\ requests[id].status = "PENDING"

Approved(id) == requests[id] # NoLeave /\ requests[id].status = "APPROVED"

Init ==
  /\ requests = [id \in Leaves |-> NoLeave]
  /\ available = [k \in Keys |-> NoRow]
  /\ carried = [k \in Keys |-> 0]

\* Granted only within the balance and on days no active request covers.
File(id, l) ==
  /\ requests[id] = NoLeave
  /\ l.status = "PENDING"
  /\ Open(KeyOf(l))
  /\ l.charge <= available[KeyOf(l)]
  /\ \A other \in Leaves : Pending(other) \/ Approved(other) => ~ Overlap(requests[other], l)
  /\ requests' = [requests EXCEPT ![id] = l]
  /\ UNCHANGED <<available, carried>>

Approve(id) ==
  /\ Pending(id)
  /\ requests' = [requests EXCEPT ![id].status = "APPROVED"]
  /\ available' = [available EXCEPT ![KeyOf(requests[id])] = @ - requests[id].charge]
  /\ UNCHANGED carried

Reject(id) ==
  /\ Pending(id)
  /\ requests' = [requests EXCEPT ![id].status = "REJECTED"]
  /\ UNCHANGED <<available, carried>>

Withdraw(id) ==
  /\ Pending(id)
  /\ requests' = [requests EXCEPT ![id].status = "CANCELLED"]
  /\ UNCHANGED <<available, carried>>

Revoke(id) ==
  /\ Approved(id)
  /\ requests' = [requests EXCEPT ![id].status = "CANCELLED"]
  /\ available' = [available EXCEPT ![KeyOf(requests[id])] = @ + requests[id].charge]
  /\ UNCHANGED carried

OpenYear(k) ==
  /\ ~ Open(k)
  /\ available' = [available EXCEPT ![k] = Entitled(k)]
  /\ UNCHANGED <<requests, carried>>

AdjustBy(k, a) ==
  /\ Open(k)
  /\ available' = [available EXCEPT ![k] = @ + a]
  /\ UNCHANGED <<requests, carried>>

\* What was carried before is replaced, so carrying twice counts once.
CarryInto(k) ==
  LET from == available[Previous(k)]
      n == IF from < MaxCarry(k) THEN from ELSE MaxCarry(k)
      base == IF Open(k) THEN available[k] - carried[k] ELSE Entitled(k)
  IN /\ Previous(k) # NoRow
     /\ Open(Previous(k))
     /\ n > 0
     /\ available' = [available EXCEPT ![k] = base + n]
     /\ carried' = [carried EXCEPT ![k] = n]
     /\ UNCHANGED requests

Next ==
  \/ \E id \in Leaves : \E l \in RequestRows : File(id, l)
  \/ \E id \in Leaves : Approve(id) \/ Reject(id) \/ Withdraw(id) \/ Revoke(id)
  \/ \E k \in Keys : OpenYear(k) \/ CarryInto(k)
  \/ \E k \in Keys, a \in Adjustments : AdjustBy(k, a)

Spec == Init /\ [][Next]_vars
=============================================================================
