-------------------------------- MODULE Tabs --------------------------------
(***************************************************************************)
(* The conversation tabs of one user: creating, changing, moving and       *)
(* deleting them.  A handler is a sequence of awaited database calls       *)
(* without a transaction, so it is one action per call; handlers of the    *)
(* same user interleave and any of them may stop half way.  Positions are  *)
(* unique per user: a write that would repeat one is refused, and so is    *)
(* the update or deletion of a row that is gone; both end the handler.     *)
(***************************************************************************)
EXTENDS Integers, FiniteSets, Sequences

CONSTANTS
  MaxMade,      \* bound: tabs created
  MaxChanges,   \* bound: requests to change or delete a tab
  MaxTabs,      \* the limit of createTab, 5 in the code
  Handlers,     \* requests that may be in flight together
  Edits,        \* what requests change: the position or Nothing, the active flag or Nothing
  MaxTabFaults, \* bound: database calls that fail
  Nothing       \* no row, or a column that a request does not name

ASSUME TabsAssumption == /\ MaxTabs \in Nat \ {0} /\ MaxMade \in Nat /\ MaxChanges \in Nat /\ MaxTabFaults \in Nat
                         /\ IsFiniteSet(Handlers)
                         /\ Nothing \notin Nat /\ Nothing \notin [position : Nat, active : BOOLEAN]
ASSUME EditsAssumption == /\ Edits \subseteq [position : Nat \cup {Nothing}, active : BOOLEAN \cup {Nothing}]
                          /\ Nothing \notin Edits

VARIABLES
  tab,         \* conversation_tabs, keyed by id
  made,        \* tabs created so far: ids count them
  handler,     \* what each handler is in the middle of
  mixed,       \* history: two handlers have overlapped
  changes,     \* requests to change or delete so far
  tabFaults

tabsVars == <<tab, made, handler, mixed, changes, tabFaults>>

TabIds == 1..MaxMade

Free == [at |-> "free"]

Open == {t \in TabIds : tab[t] # Nothing}

InitTabs ==
  /\ tab = [t \in TabIds |-> Nothing]
  /\ made = 0
  /\ handler = [h \in Handlers |-> Free]
  /\ mixed = FALSE
  /\ changes = 0
  /\ tabFaults = 0

\* A request comes in, and its handler makes its first call.
Begin(h, j) ==
  /\ handler[h] = Free
  /\ handler' = [handler EXCEPT ![h] = j]
  /\ mixed' = (mixed \/ \E g \in Handlers \ {h} : handler[g] # Free)

Go(h, j) == handler' = [handler EXCEPT ![h] = j] /\ UNCHANGED <<mixed, changes, tabFaults>>

\* The unique index on the position.
Fits(t, position) == \A u \in Open \ {t} : tab[u].position # position

\* A row after an update: a column that the update does not name stays.
Updated(row, c) == [position |-> IF c.position = Nothing THEN row.position ELSE c.position,
                    active   |-> IF c.active = Nothing THEN row.active ELSE c.active]

\* The update of some columns of a row, and the state of the handler after it.
Write(h, t, columns, next) ==
  IF t \in Open /\ (columns.position # Nothing => Fits(t, columns.position))
  THEN tab' = [tab EXCEPT ![t] = Updated(@, columns)] /\ Go(h, next)
  ELSE UNCHANGED tab /\ Go(h, Free)

\* Every other tab that is active is not any more.
Deactivated(but) ==
  [t \in TabIds |-> IF t \in Open \ {but} THEN [tab[t] EXCEPT !.active = FALSE] ELSE tab[t]]

\* Tabs in the order of their positions.
Sorted(S) == [i \in 1..Cardinality(S) |->
  CHOOSE t \in S : Cardinality({u \in S : tab[u].position <= tab[t].position}) = i]

\* A loop that moves the tabs S, one after the other, from where they are by one.
Loop(S, by) == [i \in 1..Cardinality(S) |-> [id |-> Sorted(S)[i], to |-> tab[Sorted(S)[i]].position + by]]

----------------------------------------------------------------------------
(* createTab.                                                              *)

\* Mutant: the limit lets one more tab in.
BelowLimit_OneMore(n) == n <= MaxTabs

BelowLimit(n) == n < MaxTabs

\* Handlers that have found the number of tabs below the limit.
Creating == {h \in Handlers : handler[h].at \in {"max", "clear", "create"}}

CountTabs(h) ==
  /\ made + Cardinality(Creating) < MaxMade
  /\ BelowLimit(Cardinality(Open))
  /\ Begin(h, [at |-> "max"])
  /\ UNCHANGED <<tab, made, changes, tabFaults>>

\* Mutant: a new tab goes to the place its number suggests.
NextPosition_Count(positions) == Cardinality(positions)

NextPosition(positions) ==
  IF positions = {} THEN 0 ELSE (CHOOSE p \in positions : \A q \in positions : q <= p) + 1

FindLast(h) ==
  /\ handler[h].at = "max"
  /\ Go(h, [at |-> "clear", position |-> NextPosition({tab[t].position : t \in Open})])
  /\ UNCHANGED <<tab, made>>

DeactivateAll(h) ==
  /\ handler[h].at = "clear"
  /\ tab' = Deactivated(Nothing)
  /\ Go(h, [handler[h] EXCEPT !.at = "create"])
  /\ UNCHANGED made

CreateTab(h) ==
  /\ handler[h].at = "create"
  /\ IF Fits(made + 1, handler[h].position)
     THEN /\ tab' = [tab EXCEPT ![made + 1] = [position |-> handler[h].position, active |-> TRUE]]
          /\ made' = made + 1
     ELSE UNCHANGED <<tab, made>>
  /\ Go(h, Free)

----------------------------------------------------------------------------
(* updateTab.  Titles are not kept.                                        *)

FindTab(h, t, c) ==
  /\ t \in Open
  /\ Begin(h, [at |-> IF c.active = TRUE THEN "activate" ELSE "order",
               id |-> t, old |-> tab[t].position, change |-> c])
  /\ changes < MaxChanges /\ changes' = changes + 1
  /\ UNCHANGED <<tab, made, tabFaults>>

DeactivateOthers(h) ==
  /\ handler[h].at = "activate"
  /\ tab' = Deactivated(handler[h].id)
  /\ Go(h, [handler[h] EXCEPT !.at = "order"])
  /\ UNCHANGED made

\* The tabs between the old place and the new one make room.
Between(old, new) ==
  {t \in Open : \/ old < tab[t].position /\ tab[t].position <= new
                \/ new <= tab[t].position /\ tab[t].position < old}

ReadOrder(h) ==
  LET j == handler[h]  old == j.old  new == j.change.position IN
  /\ j.at = "order"
  /\ Go(h, [at |-> "shift", id |-> j.id, change |-> j.change,
             todo |-> IF new \in {Nothing, old} THEN <<>>
                      ELSE Loop(Between(old, new), IF new > old THEN -1 ELSE 1)])
  /\ UNCHANGED <<tab, made>>

\* One round of the loop; the other columns of the tab stay as they are.
Shift(h) ==
  LET j == handler[h]  move == Head(j.todo) IN
  /\ j.at = "shift"
  /\ j.todo # <<>>
  /\ Write(h, move.id, [position |-> move.to, active |-> Nothing], [j EXCEPT !.todo = Tail(@)])
  /\ UNCHANGED made

\* The update of the tab itself.
UpdateTab(h) ==
  LET j == handler[h] IN
  /\ j.at = "shift"
  /\ j.todo = <<>>
  /\ j.change # Nothing
  /\ Write(h, j.id, j.change, Free)
  /\ UNCHANGED made

----------------------------------------------------------------------------
(* deleteTab.                                                              *)

FindDoomed(h, t) ==
  /\ t \in Open
  /\ Begin(h, [at |-> "list", id |-> t, row |-> tab[t]])
  /\ changes < MaxChanges /\ changes' = changes + 1
  /\ UNCHANGED <<tab, made, tabFaults>>

\* The tab before the deleted one, or the one after it when it is the first.
Neighbour(t) ==
  LET order == Sorted(Open)  others == SelectSeq(order, LAMBDA u : u # t)
      i == CHOOSE k \in DOMAIN order : order[k] = t
  IN  IF others = <<>> THEN Nothing ELSE others[IF i > 1 THEN i - 1 ELSE 1]

ReadTabs(h) ==
  LET j == handler[h] IN
  /\ j.at = "list"
  /\ Go(h, IF j.id \notin Open THEN Free
           ELSE [at |-> "delete", id |-> j.id, change |-> Nothing,
                 heir |-> IF j.row.active THEN Neighbour(j.id) ELSE Nothing,
                 todo |-> Loop({t \in Open : tab[t].position > j.row.position}, -1)])
  /\ UNCHANGED <<tab, made>>

DeleteTab(h) ==
  LET j == handler[h] IN
  /\ j.at = "delete"
  /\ IF j.id \in Open
     THEN tab' = [tab EXCEPT ![j.id] = Nothing] /\ Go(h, [j EXCEPT !.at = "shift"])
     ELSE UNCHANGED tab /\ Go(h, Free)
  /\ UNCHANGED made

ActivateHeir(h) ==
  LET j == handler[h] IN
  /\ j.at = "shift"
  /\ j.todo = <<>>
  /\ j.change = Nothing
  /\ IF j.heir = Nothing THEN UNCHANGED tab /\ Go(h, Free)
     ELSE Write(h, j.heir, [position |-> Nothing, active |-> TRUE], Free)
  /\ UNCHANGED made

----------------------------------------------------------------------------
\* A database call fails or the process ends between two calls.
TabFault(h) ==
  /\ handler[h] # Free
  /\ tabFaults < MaxTabFaults
  /\ tabFaults' = tabFaults + 1
  /\ handler' = [handler EXCEPT ![h] = Free]
  /\ UNCHANGED <<tab, made, mixed, changes>>

NextTabs == \E h \in Handlers :
  \/ CountTabs(h) \/ FindLast(h) \/ DeactivateAll(h) \/ CreateTab(h)
  \/ \E t \in TabIds : (\E c \in Edits : FindTab(h, t, c)) \/ FindDoomed(h, t)
  \/ DeactivateOthers(h) \/ ReadOrder(h) \/ Shift(h) \/ UpdateTab(h)
  \/ ReadTabs(h) \/ DeleteTab(h) \/ ActivateHeir(h) \/ TabFault(h)

SpecTabs == InitTabs /\ [][NextTabs]_tabsVars

----------------------------------------------------------------------------
TabsTypeOK ==
  /\ tab \in [TabIds -> [position : Nat, active : BOOLEAN] \cup {Nothing}]
  /\ made \in 0..MaxMade /\ Open \subseteq 1..made
  /\ \A h \in Handlers : handler[h].at \in {"free", "max", "clear", "create", "activate", "order",
                                            "shift", "list", "delete"}
  /\ mixed \in BOOLEAN
  /\ changes \in 0..MaxChanges
  /\ tabFaults \in 0..MaxTabFaults

\* The limit may be passed by handlers that counted before another created, and by no
\* more than them: tabs and tabs about to be created exceed it by one less than the
\* handlers at most (tabs.service.ts:26 and :50).
TabLimit == Cardinality(Open) + Cardinality(Creating) < MaxTabs + Cardinality(Handlers)

\* Whatever came before, while handlers have not overlapped one tab at most is active ...
OneActive == Cardinality({t \in Open : tab[t].active}) <= 1

\* ... a tab is always created at a free place, and the loop after a deletion finds every
\* tab it moves where it read it and the place before it free.
CreationFits == \A h \in Handlers : handler[h].at = "create" => Fits(Nothing, handler[h].position)

DeletionFits == \A h \in Handlers : LET j == handler[h] IN
  j.at = "shift" /\ j.change = Nothing =>
    /\ \A i \in DOMAIN j.todo : j.todo[i].id \in Open /\ tab[j.todo[i].id].position = j.todo[i].to + 1
    /\ j.todo # <<>> => Fits(j.todo[1].id, j.todo[1].to)

\* Requests that come one after the other leave the tabs in order: see the three parts.
OrderlyAlone == ~mixed => OneActive /\ CreationFits /\ DeletionFits
=============================================================================
