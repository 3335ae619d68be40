-------------------------------- MODULE Chat --------------------------------
(***************************************************************************)
(* Messages to one agent, and the sharing of that agent with one other     *)
(* user.  An ask is a request to handleSendMessage; a call is a request to *)
(* one of the sharing or conversation endpoints.  Each is a chain of       *)
(* awaited database calls, so it is one action per call and any other may  *)
(* come in between.  The agent is on the server's own machine: a remote    *)
(* one is relayed, see BridgeRelay.  Notifications and titles are rows and *)
(* columns that nothing here reads: only the calls that write them remain. *)
(***************************************************************************)
EXTENDS Naturals, FiniteSets

CONSTANTS
  Owner, Guest,     \* who made the agent, and who may share it
  Asks, AskedBy,    \* messages, and the user who sends each
  Callers,          \* requests to the other endpoints that may be in flight together
  Terms,            \* what a share is given: permission, mode, limit as its column keeps it
  MessageCost,      \* 0 in the code: the command line reports no tokens
  MaxShares,        \* bound: rows of agent_shares
  MaxConversations, \* bound: conversations
  MaxTurns,         \* bound: requests to the other endpoints, and calls that fail
  None              \* no row, no payer, no limit, no conversation named

ASSUME ChatAssumption ==
  /\ Owner # Guest /\ AskedBy \in [Asks -> {Owner, Guest}] /\ MessageCost \in Nat
  /\ MaxShares \in Nat \ {0} /\ MaxConversations \in Nat \ {0} /\ MaxTurns \in Nat
  /\ Terms \subseteq [permission : {"control", "view"}, mode : {"route", "transfer"},
                      limit : Nat \cup {None}]
  /\ None \notin Nat \cup {Owner, Guest}
  /\ None \notin [terms : [permission : {"control", "view"}, mode : {"route", "transfer"},
                            limit : Nat \cup {None}], used : Nat, status : {"active", "revoked"}]

VARIABLES
  share,         \* agent_shares of the agent with the guest, keyed by id
  conversations, \* conversations that exist
  opened,        \* conversations opened so far: ids count them
  messages,      \* messages stored: [ask, role, in]
  contexts,      \* conversations with a row of agent_contexts for the agent
  trace,         \* what each ask has written of its trace and its session
  ask,           \* what each ask is in the middle of
  call,          \* what each caller is in the middle of
  turns,         \* requests to the other endpoints and failures so far
  lapped         \* history: pairs of asks that have been in flight together

chatVars == <<share, conversations, opened, messages, contexts, trace, ask, call, turns, lapped>>

Shares == {s \in 1..MaxShares : share[s] # None}
Active == {s \in Shares : share[s].status = "active"}

Free == [at |-> "idle"]  \* a caller without a request
Ended == {"sent", "refused", "failed"}
InFlight == {a \in Asks : ask[a].at \notin Ended \cup {"idle"}}

\* The agent is shared, perhaps not for the first time, and one conversation is open.
InitChat ==
  /\ \E t \in Terms, n \in 1..MaxShares : share = [s \in 1..MaxShares |->
       IF s > n THEN None ELSE [terms |-> t, used |-> 0, status |-> IF s = n THEN "active" ELSE "revoked"]]
  /\ conversations = {1} /\ opened = 1
  /\ messages = {} /\ contexts = {} /\ lapped = {}
  /\ trace = [a \in Asks |-> [task |-> "none", session |-> "none", paidBy |-> None]]
  /\ ask = [a \in Asks |-> [at |-> "idle", in |-> None, row |-> None, used |-> 0, faulted |-> FALSE]]
  /\ call = [k \in Callers |-> Free]
  /\ turns = 0

----------------------------------------------------------------------------
(* handleSendMessage.                                                      *)

At(a, at) == ask[a].at = at
Go(a, at) == ask' = [ask EXCEPT ![a].at = at]
\* What an ask leaves alone beside the tables it names itself.
Others == UNCHANGED <<call, turns, lapped>>

\* canUserControlAgent.
MayControl(user) == user = Owner \/ \E s \in Active : share[s].terms.permission = "control"

\* A request names a conversation, which need not exist any more, or none.
Ask(a, named) ==
  /\ At(a, "idle")
  /\ ask' = [ask EXCEPT ![a].at = IF MayControl(AskedBy[a]) THEN "trace" ELSE "refused", ![a].in = named]
  /\ lapped' = lapped \cup {{a, b} : b \in InFlight}
  /\ UNCHANGED <<share, conversations, opened, messages, contexts, trace, call, turns>>

CreateTrace(a) ==
  /\ At(a, "trace")
  /\ trace' = [trace EXCEPT ![a].task = "in_progress"]
  /\ Go(a, "session")
  /\ Others /\ UNCHANGED <<share, conversations, opened, messages, contexts>>

CreateSession(a) ==
  /\ At(a, "session")
  /\ trace' = [trace EXCEPT ![a].session = "running"]
  /\ Go(a, IF ask[a].in = None THEN "open" ELSE "find")
  /\ Others /\ UNCHANGED <<share, conversations, opened, messages, contexts>>

FindConversation(a) ==
  /\ At(a, "find")
  /\ Go(a, IF ask[a].in \in conversations THEN "say" ELSE "open")
  /\ Others /\ UNCHANGED <<share, conversations, opened, messages, contexts, trace>>

\* createConversation.
OpenConversation(a) ==
  /\ At(a, "open")
  /\ opened < MaxConversations
  /\ opened' = opened + 1
  /\ conversations' = conversations \cup {opened'}
  /\ ask' = [ask EXCEPT ![a].at = "say", ![a].in = opened']
  /\ Others /\ UNCHANGED <<share, messages, contexts, trace>>

\* The insert of a message: its conversation may have been deleted meanwhile.
Say(a, role, next) ==
  /\ IF ask[a].in \in conversations
     THEN messages' = messages \cup {[ask |-> a, role |-> role, in |-> ask[a].in]} /\ Go(a, next)
     ELSE UNCHANGED messages /\ Go(a, "failed")
  /\ Others /\ UNCHANGED <<share, conversations, opened, contexts, trace>>

SaveUserMessage(a) == At(a, "say") /\ Say(a, "user", "execute")

\* The command line answers, and its answer is streamed; that it fails is a Fault.
Execute(a) ==
  /\ At(a, "execute")
  /\ Go(a, "succeed")
  /\ Others /\ UNCHANGED <<share, conversations, opened, messages, contexts, trace>>

SucceedSession(a) ==
  /\ At(a, "succeed")
  /\ trace' = [trace EXCEPT ![a].session = "success"]
  /\ Go(a, "complete")
  /\ Others /\ UNCHANGED <<share, conversations, opened, messages, contexts>>

CompleteTrace(a) ==
  /\ At(a, "complete")
  /\ trace' = [trace EXCEPT ![a].task = "completed"]
  /\ Go(a, "answer")
  /\ Others /\ UNCHANGED <<share, conversations, opened, messages, contexts>>

SaveAnswer(a) == At(a, "answer") /\ Say(a, "assistant", "share")

\* trackSharedCost looks for the share of a user who is not the owner.
\* Mutant: a share that is gone is an error.
AfterShare_Throws(a) == IF Active = {} THEN "context" ELSE "cost"

AfterShare(a) == IF Active = {} THEN "pay" ELSE "cost"

FindShare(a) ==
  /\ At(a, "share")
  /\ IF AskedBy[a] = Owner THEN Go(a, "context")
     ELSE \E s \in (IF Active = {} THEN {None} ELSE Active) :
            ask' = [ask EXCEPT ![a].at = AfterShare(a), ![a].row = s,
                               ![a].used = IF s = None THEN 0 ELSE share[s].used + MessageCost]
  /\ Others /\ UNCHANGED <<share, conversations, opened, messages, contexts, trace>>

\* The sum that was read, with the cost added, is written; the limit read with it decides
\* whether the share is revoked next.  A limit is positive when it is given and may be 0 in
\* its column, which has six decimals.
TrackCost(a) ==
  LET s == ask[a].row  limit == share[s].terms.limit IN
  /\ At(a, "cost")
  /\ share' = [share EXCEPT ![s].used = ask[a].used]
  /\ Go(a, IF limit # None /\ ask[a].used >= limit THEN "limit" ELSE "pay")
  /\ Others /\ UNCHANGED <<conversations, opened, messages, contexts, trace>>

RevokeAtLimit(a) ==
  /\ At(a, "limit")
  /\ share' = [share EXCEPT ![ask[a].row].status = "revoked"]
  /\ Go(a, "pay")
  /\ Others /\ UNCHANGED <<conversations, opened, messages, contexts, trace>>

PayByOwner(a) ==
  /\ At(a, "pay")
  /\ trace' = [trace EXCEPT ![a].paidBy = Owner]
  /\ Go(a, "notify")
  /\ Others /\ UNCHANGED <<share, conversations, opened, messages, contexts>>

NotifyOwner(a) ==
  /\ At(a, "notify")
  /\ Go(a, "context")
  /\ Others /\ UNCHANGED <<share, conversations, opened, messages, contexts, trace>>

\* trackTokenUsage.
\* Mutant: the row is created whether there is one or not.
AfterContext_Create(c) == "create"

AfterContext(c) == IF c \in contexts THEN "update" ELSE "create"

FindContext(a) ==
  /\ At(a, "context")
  /\ Go(a, AfterContext(ask[a].in))
  /\ Others /\ UNCHANGED <<share, conversations, opened, messages, contexts, trace>>

UpdateContext(a) ==
  /\ At(a, "update")
  /\ Go(a, IF ask[a].in \in contexts THEN "sent" ELSE "failed")
  /\ Others /\ UNCHANGED <<share, conversations, opened, messages, contexts, trace>>

\* A row per conversation and agent, of a conversation that exists.
CreateContext(a) ==
  LET c == ask[a].in IN
  /\ At(a, "create")
  /\ IF c \in conversations \ contexts
     THEN contexts' = contexts \cup {c} /\ Go(a, "sent")
     ELSE UNCHANGED contexts /\ Go(a, "failed")
  /\ Others /\ UNCHANGED <<share, conversations, opened, messages, trace>>

\* What becomes of an ask when a call fails: only what concerns the share is caught on the
\* way, but for the look at the owner of the agent, which comes before it.
AfterFault(a) ==
  IF AskedBy[a] # Guest \/ ask[a].at \notin {"share", "cost", "limit", "pay", "notify"} THEN {"failed"}
  ELSE {"context"} \cup (IF At(a, "share") THEN {"failed"} ELSE {})

AskFault(a) ==
  /\ a \in InFlight
  /\ turns < MaxTurns
  /\ turns' = turns + 1
  /\ \E at \in AfterFault(a) : ask' = [ask EXCEPT ![a].faulted = TRUE, ![a].at = at]
  /\ UNCHANGED <<share, conversations, opened, messages, contexts, trace, call, lapped>>

----------------------------------------------------------------------------
(* The other endpoints: agent-sharing.service and conversation.service.    *)

Steps(k, c) == call' = [call EXCEPT ![k] = c]
\* What a call leaves alone beside the tables it names itself.
AsksRest == UNCHANGED <<messages, trace, ask, lapped>>

\* A request comes in and makes its first call.
Begin(k, c) ==
  /\ call[k].at \in {"idle", "done", "failed"}
  /\ turns < MaxTurns
  /\ turns' = turns + 1
  /\ Steps(k, c)

Continue(k, at) == Steps(k, [call[k] EXCEPT !.at = at]) /\ UNCHANGED turns

\* A request ends; what became of one that revokes is kept, as history.
Finish(k, at) == Steps(k, IF call[k].op = "revoke" THEN [call[k] EXCEPT !.at = at] ELSE Free) /\ UNCHANGED turns

\* shareAgent: the guest must not have an active share ...
ShareAgent(k, t) ==
  /\ Begin(k, IF Active = {} THEN [op |-> "share", at |-> "insert", terms |-> t, faulted |-> FALSE] ELSE Free)
  /\ AsksRest /\ UNCHANGED <<share, conversations, opened, contexts>>

\* The index of the active shares, which a row with this status has to fit.
\* Mutant: the index as it was first, over the status as well.
Fits_EveryStatus(s, status) == \A r \in Shares \ {s} : share[r].status # status

Fits(s, status) == status = "active" => Active \subseteq {s}

\* ... and the index refuses a second one that came in between.
CreateShare(k, s) ==
  /\ call[k].at = "insert"
  /\ s \notin Shares /\ \A r \in 1..MaxShares : r < s => r \in Shares
  /\ IF Fits(s, "active")
     THEN /\ share' = [share EXCEPT ![s] = [terms |-> call[k].terms, used |-> 0, status |-> "active"]]
          /\ Continue(k, "notify")
     ELSE UNCHANGED share /\ Finish(k, "failed")
  /\ AsksRest /\ UNCHANGED <<conversations, opened, contexts>>

\* revokeShare, updateShare and releaseTransfer find an active share, the last one only
\* when it was transferred, and update it by its id.
FindActive(k, op, t) ==
  /\ \E s \in {r \in Active : op = "release" => share[r].terms.mode = "transfer"} :
       Begin(k, [op |-> op, at |-> "write", row |-> s, terms |-> t, faulted |-> FALSE])
  /\ AsksRest /\ UNCHANGED <<share, conversations, opened, contexts>>

\* The columns that each of them writes; an update names terms and never the status.
Written(row, c) ==
  CASE c.op = "revoke" -> [row EXCEPT !.status = "revoked"]
    [] c.op = "update" -> [row EXCEPT !.terms = c.terms]
    [] c.op = "release" -> [row EXCEPT !.terms.mode = "route"]

WriteShare(k) ==
  LET s == call[k].row  row == Written(share[s], call[k]) IN
  /\ call[k].at = "write"
  /\ IF Fits(s, row.status) THEN share' = [share EXCEPT ![s] = row] /\ Continue(k, "notify")
     ELSE UNCHANGED share /\ Finish(k, "failed")
  /\ AsksRest /\ UNCHANGED <<conversations, opened, contexts>>

NotifyUser(k) ==
  /\ call[k].at = "notify"
  /\ Finish(k, "done")
  /\ AsksRest /\ UNCHANGED <<share, conversations, opened, contexts>>

\* createConversation of its own; updateConversationTitle and deleteConversation find the
\* conversation and update or delete it by its id.
NewConversation(k) ==
  /\ opened < MaxConversations
  /\ Begin(k, Free)
  /\ opened' = opened + 1
  /\ conversations' = conversations \cup {opened'}
  /\ AsksRest /\ UNCHANGED <<share, contexts>>

FindOwn(k, op, c) ==
  /\ c \in conversations
  /\ Begin(k, [op |-> op, at |-> op, in |-> c, faulted |-> FALSE])
  /\ AsksRest /\ UNCHANGED <<share, conversations, opened, contexts>>

Retitle(k) ==
  /\ call[k].at = "retitle"
  /\ Finish(k, "done")
  /\ AsksRest /\ UNCHANGED <<share, conversations, opened, contexts>>

\* Messages and contexts go with their conversation.
\* Mutant: the contexts stay.
ContextsAfter_Stay(c) == contexts

ContextsAfter(c) == contexts \ {c}

DeleteConversation(k) ==
  LET c == call[k].in IN
  /\ call[k].at = "delete"
  /\ conversations' = conversations \ {c}
  /\ contexts' = ContextsAfter(c)
  /\ messages' = {m \in messages : m.in # c}
  /\ Finish(k, "done")
  /\ UNCHANGED <<share, opened, trace, ask, lapped>>

CallFault(k) ==
  /\ call[k].at \in {"insert", "write", "notify", "retitle", "delete"}
  /\ turns < MaxTurns
  /\ turns' = turns + 1
  /\ Steps(k, IF call[k].op = "revoke" THEN [call[k] EXCEPT !.at = "failed", !.faulted = TRUE] ELSE Free)
  /\ UNCHANGED <<share, conversations, opened, messages, contexts, trace, ask, lapped>>

----------------------------------------------------------------------------
AskSteps(a) ==
  \/ CreateTrace(a) \/ CreateSession(a) \/ FindConversation(a) \/ OpenConversation(a)
  \/ SaveUserMessage(a) \/ Execute(a) \/ SucceedSession(a) \/ CompleteTrace(a) \/ SaveAnswer(a)
  \/ FindShare(a) \/ TrackCost(a) \/ RevokeAtLimit(a) \/ PayByOwner(a) \/ NotifyOwner(a)
  \/ FindContext(a) \/ UpdateContext(a) \/ CreateContext(a)

NextChat ==
  \/ \E a \in Asks : AskSteps(a) \/ AskFault(a) \/ \E c \in (1..opened) \cup {None} : Ask(a, c)
  \/ \E k \in Callers :
       \/ \E t \in Terms : ShareAgent(k, t) \/ FindActive(k, "update", t)
       \/ FindActive(k, "revoke", None) \/ FindActive(k, "release", None)
       \/ (\E s \in 1..MaxShares : CreateShare(k, s)) \/ WriteShare(k) \/ NotifyUser(k)
       \/ NewConversation(k) \/ Retitle(k) \/ DeleteConversation(k) \/ CallFault(k)
       \/ \E c \in 1..MaxConversations, op \in {"retitle", "delete"} : FindOwn(k, op, c)

SpecChat == InitChat /\ [][NextChat]_chatVars

----------------------------------------------------------------------------
ChatTypeOK ==
  /\ \A s \in Shares : /\ share[s].terms \in Terms \cup {[t EXCEPT !.mode = "route"] : t \in Terms}
                       /\ share[s].used \in Nat /\ share[s].status \in {"active", "revoked"}
  /\ opened \in 0..MaxConversations /\ conversations \subseteq 1..opened /\ contexts \subseteq conversations
  /\ \A m \in messages : m.ask \in Asks /\ m.role \in {"user", "assistant"} /\ m.in \in conversations
  /\ \A a \in Asks : trace[a].paidBy \in {None, Owner} /\ ask[a].in \in (1..opened) \cup {None}
  /\ turns \in 0..MaxTurns

PaidByOwner == \A a \in Asks :
  At(a, "sent") /\ AskedBy[a] = Guest /\ ~ask[a].faulted => trace[a].paidBy = Owner
FailuresHaveCause == \A a \in Asks : At(a, "failed") =>
  \/ ask[a].faulted
  \/ ask[a].in \notin conversations
  \/ \E b \in Asks \ {a} : {a, b} \in lapped /\ ask[b].in = ask[a].in

\* A guest's message that is answered is paid by the owner, although the share it came through
\* has been revoked, replaced or changed by other requests since it was checked
\* (command-center.controller.ts:290-327).  And a message fails only for a reason outside it: a
\* call that failed, a conversation deleted under it, or another message that was in flight with
\* it in the same conversation and created the row both had missed (agent-context.service.ts:14-40).
MessagesSettled == PaidByOwner /\ FailuresHaveCause

\* A request that found the share to revoke revokes it for good: no other request, however
\* late, makes it active again, and the index does not stand in its way
\* (agent-sharing.service.ts:106-136).
RevocationsLast == \A k \in Callers : call[k].at # "idle" /\ call[k].op = "revoke" =>
  /\ call[k].at \in {"notify", "done"} => share[call[k].row].status = "revoked"
  /\ call[k].at = "failed" => call[k].faulted
=============================================================================
