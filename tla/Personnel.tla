----------------------------- MODULE Personnel -----------------------------
(***************************************************************************)
(* Employees and the departments and designations they belong to, which    *)
(* have the same handlers and are units of two kinds here.  An errand is   *)
(* one request of an administrator; each is a chain of awaited database    *)
(* calls and they interleave.  Rows are kept: an employee is terminated, a *)
(* unit is made inactive.                                                  *)
(***************************************************************************)
EXTENDS Naturals, FiniteSets, FiniteSetsExt

CONSTANTS
  Officers,    \* requests that may be in flight together
  Users,       \* users who may become employees
  UnitNames,   \* names of departments, and titles of designations
  MaxUnits,    \* bound: departments and designations, of each kind
  MaxErrands,  \* bound: requests that are begun, and calls that fail
  NoOne        \* no row, no unit

VARIABLES
  unit,       \* rows of departments and of designations, by kind and number
  employee,   \* rows of employees, by user
  errand,     \* what each officer is in the middle of
  errands     \* errands begun and calls that failed

personnelVars == <<unit, employee, errand, errands>>

Kinds == {"department", "designation"}
Numbers == Kinds \X (1..MaxUnits)
UnitRow == [name : UnitNames, active : BOOLEAN]
EmployeeRow == [code : Nat \ {0}, status : {"ACTIVE", "TERMINATED"}, in : SUBSET Numbers]

ASSUME PersonnelAssumption ==
  /\ MaxUnits \in Nat \ {0} /\ MaxErrands \in Nat
  /\ NoOne \notin UnitRow /\ NoOne \notin EmployeeRow /\ NoOne \notin Numbers

Units == {n \in Numbers : unit[n] # NoOne}
Employees == {u \in Users : employee[u] # NoOne}
Begun(at, do, on, to) == [at |-> at, do |-> do, on |-> on, to |-> to, code |-> 0]
Home == Begun("home", NoOne, NoOne, NoOne)

\* A department and a designation are there.
InitPersonnel ==
  /\ \E name \in UnitNames : unit = [n \in Numbers |->
       IF n[2] = 1 THEN [name |-> name, active |-> TRUE] ELSE NoOne]
  /\ employee = [u \in Users |-> NoOne]
  /\ errand = [o \in Officers |-> Home]
  /\ errands = 0

ErrandAt(o, at) == errand[o].at = at
ErrandTo(o, at) == errand' = [errand EXCEPT ![o].at = at]
ErrandEnds(o) == errand' = [errand EXCEPT ![o] = Home]

\* A request that has made its first call.
Errand(o, e) ==
  /\ ErrandAt(o, "home")
  /\ errands < MaxErrands
  /\ errands' = errands + 1
  /\ errand' = [errand EXCEPT ![o] = e]

----------------------------------------------------------------------------
(* employee.service.                                                       *)

\* createEmployee: the user and the units exist, inactive or not ...
FindReferences(o, u, d, g) ==
  /\ {d, g} \subseteq Units /\ d[1] = "department" /\ g[1] = "designation"
  /\ Errand(o, Begun("check", "hire", u, {d, g}))
  /\ UNCHANGED <<unit, employee>>

\* ... the user has no record yet ...
FindRecord(o) ==
  /\ ErrandAt(o, "check")
  /\ IF errand[o].on \in Employees THEN ErrandEnds(o) ELSE ErrandTo(o, "code")
  /\ UNCHANGED <<unit, employee, errands>>

\* ... the code is one more than the highest ...
NextCode == 1 + Max({0} \cup {employee[u].code : u \in Employees})

generateEmployeeCode(o) ==
  /\ ErrandAt(o, "code")
  /\ errand' = [errand EXCEPT ![o].at = "insert", ![o].code = NextCode]
  /\ UNCHANGED <<unit, employee, errands>>

\* ... and codes and users are unique.
\* Mutant: codes are not.
UsedAlready_User(u, code) == u \in Employees

UsedAlready(u, code) == u \in Employees \/ code \in {employee[w].code : w \in Employees}

InsertEmployee(o) ==
  LET e == errand[o] IN
  /\ ErrandAt(o, "insert")
  /\ employee' = IF UsedAlready(e.on, e.code) THEN employee
                 ELSE [employee EXCEPT ![e.on] = [code |-> e.code, status |-> "ACTIVE", in |-> e.to]]
  /\ ErrandEnds(o)
  /\ UNCHANGED <<unit, errands>>

\* updateEmployee finds the employee, and the unit to move to; deleteEmployee the employee.
FindEmployee(o, u, do, n) ==
  /\ u \in Employees
  /\ do = "move" => n \in Units
  /\ Errand(o, Begun("update", do, u, n))
  /\ UNCHANGED <<unit, employee>>

Edited(row, e) ==
  CASE e.do = "move" -> [row EXCEPT !.in = {n \in @ : n[1] # e.to[1]} \cup {e.to}]
    [] e.do = "activate" -> [row EXCEPT !.status = "ACTIVE"]
    [] e.do = "terminate" -> [row EXCEPT !.status = "TERMINATED"]

UpdateEmployee(o) ==
  LET e == errand[o] IN
  /\ ErrandAt(o, "update")
  /\ employee' = [employee EXCEPT ![e.on] = Edited(@, e)]
  /\ ErrandEnds(o)
  /\ UNCHANGED <<unit, errands>>

----------------------------------------------------------------------------
(* department.service and designation.service.                             *)

NameTaken(kind, name, n) == \E m \in Units \ {n} : m[1] = kind /\ unit[m].name = name

\* createDepartment, createDesignation: the name is free ...
FindName(o, n, name) ==
  /\ n \notin Units /\ \A m \in Numbers : m[1] = n[1] /\ m[2] < n[2] => m \in Units
  /\ ~NameTaken(n[1], name, NoOne)
  /\ Errand(o, Begun("open", n[1], NoOne, name))
  /\ UNCHANGED <<unit, employee>>

\* ... and names are unique.
InsertUnit(o, n) ==
  LET e == errand[o] IN
  /\ ErrandAt(o, "open")
  /\ n[1] = e.do /\ n \notin Units /\ \A m \in Numbers : m[1] = n[1] /\ m[2] < n[2] => m \in Units
  /\ unit' = IF NameTaken(e.do, e.to, NoOne) THEN unit ELSE [unit EXCEPT ![n] = [name |-> e.to, active |-> TRUE]]
  /\ ErrandEnds(o)
  /\ UNCHANGED <<employee, errands>>

\* updateDepartment, updateDesignation: the unit is there, and a new name is free.
FindUnit(o, n, name) ==
  /\ n \in Units /\ ~NameTaken(n[1], name, n)
  /\ Errand(o, Begun("rename", NoOne, n, name))
  /\ UNCHANGED <<unit, employee>>

RenameUnit(o) ==
  LET e == errand[o] IN
  /\ ErrandAt(o, "rename")
  /\ unit' = IF NameTaken(e.on[1], e.to, e.on) THEN unit ELSE [unit EXCEPT ![e.on].name = e.to]
  /\ ErrandEnds(o)
  /\ UNCHANGED <<employee, errands>>

\* deleteDepartment, deleteDesignation: nobody active is in the unit ...
ActiveIn(n) == {u \in Employees : employee[u].status = "ACTIVE" /\ n \in employee[u].in}

FindEmptyUnit(o, n) ==
  /\ n \in Units /\ ActiveIn(n) = {}
  /\ Errand(o, Begun("close", NoOne, n, NoOne))
  /\ UNCHANGED <<unit, employee>>

\* ... and it is made inactive.
CloseUnit(o) ==
  LET e == errand[o] IN
  /\ ErrandAt(o, "close")
  /\ unit' = [unit EXCEPT ![e.on].active = FALSE]
  /\ ErrandEnds(o)
  /\ UNCHANGED <<employee, errands>>

\* A call fails, and the request with it.
ErrandFault(o) ==
  /\ ~ErrandAt(o, "home")
  /\ errands < MaxErrands
  /\ errands' = errands + 1
  /\ ErrandEnds(o)
  /\ UNCHANGED <<unit, employee>>

----------------------------------------------------------------------------
NextPersonnel == \E o \in Officers :
  \/ FindRecord(o) \/ generateEmployeeCode(o) \/ InsertEmployee(o) \/ UpdateEmployee(o)
  \/ RenameUnit(o) \/ CloseUnit(o) \/ ErrandFault(o)
  \/ (\E u \in Users, d, g \in Numbers : FindReferences(o, u, d, g))
  \/ (\E u \in Users, do \in {"activate", "terminate"} : FindEmployee(o, u, do, NoOne))
  \/ \E n \in Numbers :
       \/ (\E u \in Users : FindEmployee(o, u, "move", n))
       \/ FindEmptyUnit(o, n) \/ InsertUnit(o, n)
       \/ \E name \in UnitNames : FindName(o, n, name) \/ FindUnit(o, n, name)

SpecPersonnel == InitPersonnel /\ [][NextPersonnel]_personnelVars

----------------------------------------------------------------------------
PersonnelTypeOK ==
  /\ unit \in [Numbers -> UnitRow \cup {NoOne}]
  /\ employee \in [Users -> EmployeeRow \cup {NoOne}] /\ \A u \in Employees : employee[u].in \subseteq Units
  /\ errands \in 0..MaxErrands

\* However hires overlap and fail, employees have the codes from one up without a gap, and
\* however creations and changes of names overlap, no two units of a kind share one
\* (employee-code.ts:7-23, employee.service.ts:43-90, department.service.ts:8-22, 71-89).
StaffInOrder ==
  /\ {employee[u].code : u \in Employees} = 1..Cardinality(Employees)
  /\ \A n \in Units : ~NameTaken(n[1], unit[n].name, n)

\* A unit that is closed has nobody active in it (department.service.ts:91-113).
ClosesEmpty == [][\A n \in Units : unit[n].active /\ ~unit'[n].active => ActiveIn(n) = {}]_personnelVars
=============================================================================
