----------------------------- MODULE Delegation -----------------------------
(***************************************************************************)
(* Messages of one user that the master agent may delegate: from the       *)
(* request of handleDelegationMessage through delegateToAgent for every    *)
(* helper it names, to the answer; and the stream of the user's browser    *)
(* that shows what happens.  One action per await; requests interleave.    *)
(* A notification is sent without an await after the update before it.     *)
(* The user's active tab stays the same, so conversations differ only by   *)
(* when they were opened.                                                  *)
(***************************************************************************)
EXTENDS Naturals, Sequences

CONSTANTS
  Talks,          \* requests
  Helpers,        \* agents that have a configuration
  Stranger,       \* a name without one, which the model may come up with
  MaxDelegations, \* bound: for each request the helpers that are named in one answer
  Streams,        \* connections of the user's browser to the activity stream, in order
  MaxTalkFaults,  \* bound: database calls that fail
  Nobody          \* no stream is registered

ASSUME DelegationAssumption ==
  /\ Stranger \notin Helpers /\ MaxDelegations \in [Talks -> Nat] /\ MaxTalkFaults \in Nat
  /\ Streams \subseteq Nat /\ Nobody \notin Nat

VARIABLES
  talk,       \* what each request is in the middle of
  talks,      \* conversations of the user with the master that have been opened
  saved,      \* messages stored: <<request, role>>
  master,     \* the master's session of each request; its trace stays "running" for ever
  helper,     \* for each request the status of the session of each delegation, in order
  hired,      \* helpers that have a row in agent_registry
  stream,     \* each stream: unused, open or closed
  client,     \* the stream registered for the user
  screen,     \* delegations that each stream shows as running: <<request, number>>
  cutOff,     \* history: streams open when an earlier one closed
  talkFaults

delegationVars == <<talk, talks, saved, master, helper, hired, stream, client, screen, cutOff, talkFaults>>

InitDelegation ==
  /\ talk = [d \in Talks |-> [at |-> "idle", names |-> <<>>]]
  /\ talks = 0 /\ saved = {} /\ hired = {}
  /\ master = [d \in Talks |-> "none"]
  /\ helper = [d \in Talks |-> <<>>]
  /\ stream = [s \in Streams |-> "unused"]
  /\ client = Nobody
  /\ screen = [s \in Streams |-> {}]
  /\ cutOff = {}
  /\ talkFaults = 0

TalkAt(d, at) == talk[d].at = at
GoOn(d, at) == talk' = [talk EXCEPT ![d].at = at]
StreamsRest == UNCHANGED <<stream, cutOff>>

----------------------------------------------------------------------------
(* activity.service.                                                       *)

\* broadcast: the registered stream shows that a delegation has started or has ended.
ShowStart(e) == IF client = Nobody THEN screen ELSE [screen EXCEPT ![client] = @ \cup {e}]
ShowEnd(e) == IF client = Nobody THEN screen ELSE [screen EXCEPT ![client] = @ \ {e}]

\* registerClient: the one stream of a user is the last that was opened.
\* Mutant: the stream that is there stays.
Registered_First(s) == IF client = Nobody THEN s ELSE client

Registered(s) == s

OpenStream(s) ==
  /\ stream[s] = "unused" /\ \A r \in Streams : r < s => stream[r] # "unused"
  /\ stream' = [stream EXCEPT ![s] = "open"]
  /\ client' = Registered(s)
  /\ UNCHANGED <<talk, talks, saved, master, helper, hired, screen, cutOff, talkFaults>>

\* The close of any stream removes the entry of its user, whichever stream that names.
CloseStream(s) ==
  /\ stream[s] = "open"
  /\ stream' = [stream EXCEPT ![s] = "closed"]
  /\ client' = Nobody
  /\ cutOff' = cutOff \cup {r \in Streams : r > s /\ stream[r] = "open"}
  /\ UNCHANGED <<talk, talks, saved, master, helper, hired, screen, talkFaults>>

----------------------------------------------------------------------------
(* handleDelegationMessage.                                                *)

\* The conversation is looked for, and opened when there is none.
Receive(d) ==
  /\ TalkAt(d, "idle")
  /\ GoOn(d, IF talks = 0 THEN "open" ELSE "say")
  /\ StreamsRest /\ UNCHANGED <<talks, saved, master, helper, hired, client, screen, talkFaults>>

OpenTalk(d) ==
  /\ TalkAt(d, "open")
  /\ talks' = talks + 1
  /\ GoOn(d, "say")
  /\ StreamsRest /\ UNCHANGED <<saved, master, helper, hired, client, screen, talkFaults>>

SaveQuestion(d) ==
  /\ TalkAt(d, "say")
  /\ saved' = saved \cup {<<d, "user">>}
  /\ GoOn(d, "session")
  /\ StreamsRest /\ UNCHANGED <<talks, master, helper, hired, client, screen, talkFaults>>

\* The trace and then the session of the master.
CreateMasterSession(d) ==
  /\ TalkAt(d, "session")
  /\ master' = [master EXCEPT ![d] = "running"]
  /\ GoOn(d, "consult")
  /\ StreamsRest /\ UNCHANGED <<talks, saved, helper, hired, client, screen, talkFaults>>

\* The model names the helpers, or answers at once; an error of its API ends the request
\* and leaves the session as it is.
Consult(d, names) ==
  /\ TalkAt(d, "consult")
  /\ talk' = [talk EXCEPT ![d] = [at |-> IF names = <<>> THEN "answer" ELSE "find", names |-> names]]
  /\ StreamsRest /\ UNCHANGED <<talks, saved, master, helper, hired, client, screen, talkFaults>>

ConsultFails(d) ==
  /\ TalkAt(d, "consult")
  /\ GoOn(d, "failed")
  /\ StreamsRest /\ UNCHANGED <<talks, saved, master, helper, hired, client, screen, talkFaults>>

\* The second answer is taken whatever the status of the response, unless none can be read.
FollowUp(d) ==
  /\ TalkAt(d, "follow")
  /\ \E at \in {"answer", "failed"} : GoOn(d, at)
  /\ StreamsRest /\ UNCHANGED <<talks, saved, master, helper, hired, client, screen, talkFaults>>

SaveReply(d) ==
  /\ TalkAt(d, "answer")
  /\ saved' = saved \cup {<<d, "assistant">>}
  /\ GoOn(d, "succeed")
  /\ StreamsRest /\ UNCHANGED <<talks, master, helper, hired, client, screen, talkFaults>>

SucceedMaster(d) ==
  /\ TalkAt(d, "succeed")
  /\ master' = [master EXCEPT ![d] = "success"]
  /\ GoOn(d, "sent")
  /\ StreamsRest /\ UNCHANGED <<talks, saved, helper, hired, client, screen, talkFaults>>

----------------------------------------------------------------------------
(* delegateToAgent, for the first of the names that are left.              *)

Name(d) == Head(talk[d].names)
Running(d) == Len(helper[d])
Settle(d, status) == [helper EXCEPT ![d][Running(d)] = status]

FindHelper(d) ==
  /\ TalkAt(d, "find")
  /\ GoOn(d, IF Name(d) = Stranger THEN "failed" ELSE IF Name(d) \in hired THEN "start" ELSE "hire")
  /\ StreamsRest /\ UNCHANGED <<talks, saved, master, helper, hired, client, screen, talkFaults>>

\* Names are unique: the slower of two requests that both miss a helper fails.
HireHelper(d) ==
  /\ TalkAt(d, "hire")
  /\ hired' = hired \cup {Name(d)}
  /\ GoOn(d, IF Name(d) \in hired THEN "failed" ELSE "start")
  /\ StreamsRest /\ UNCHANGED <<talks, saved, master, helper, client, screen, talkFaults>>

\* The trace and then the session of the helper.
StartDelegation(d) ==
  /\ TalkAt(d, "start")
  /\ helper' = [helper EXCEPT ![d] = Append(@, "running")]
  /\ screen' = ShowStart(<<d, Running(d) + 1>>)
  /\ GoOn(d, "work")
  /\ StreamsRest /\ UNCHANGED <<talks, saved, master, hired, client, talkFaults>>

\* The helper's API answers, or throws.
HelperWorks(d) ==
  /\ TalkAt(d, "work")
  /\ \E at \in {"settle", "fail"} : GoOn(d, at)
  /\ StreamsRest /\ UNCHANGED <<talks, saved, master, helper, hired, client, screen, talkFaults>>

DelegationSucceeds(d) ==
  LET left == Tail(talk[d].names) IN
  /\ TalkAt(d, "settle")
  /\ helper' = Settle(d, "success")
  /\ screen' = ShowEnd(<<d, Running(d)>>)
  /\ talk' = [talk EXCEPT ![d] = [at |-> IF left = <<>> THEN "follow" ELSE "find", names |-> left]]
  /\ StreamsRest /\ UNCHANGED <<talks, saved, master, hired, client, talkFaults>>

\* What happens to the request when a helper has failed: the error goes on.
\* Mutant: it is only logged.
AfterFailure_Logged(d) == "follow"

AfterFailure(d) == "failed"

DelegationFails(d) ==
  /\ TalkAt(d, "fail")
  /\ helper' = Settle(d, "failed")
  /\ screen' = ShowEnd(<<d, Running(d)>>)
  /\ GoOn(d, AfterFailure(d))
  /\ StreamsRest /\ UNCHANGED <<talks, saved, master, hired, client, talkFaults>>

\* A database call fails: the update of a success is inside the try, the others end it all.
TalkFault(d) ==
  /\ talk[d].at \notin {"idle", "sent", "failed", "consult", "work", "follow"}
  /\ talkFaults < MaxTalkFaults
  /\ talkFaults' = talkFaults + 1
  /\ GoOn(d, IF TalkAt(d, "settle") THEN "fail" ELSE "failed")
  /\ StreamsRest /\ UNCHANGED <<talks, saved, master, helper, hired, client, screen>>

----------------------------------------------------------------------------
NextDelegation ==
  \/ \E d \in Talks :
       \/ Receive(d) \/ OpenTalk(d) \/ SaveQuestion(d) \/ CreateMasterSession(d)
       \/ ConsultFails(d) \/ FollowUp(d) \/ SaveReply(d) \/ SucceedMaster(d)
       \/ FindHelper(d) \/ HireHelper(d) \/ StartDelegation(d) \/ HelperWorks(d)
       \/ DelegationSucceeds(d) \/ DelegationFails(d) \/ TalkFault(d)
       \/ \E n \in 0..MaxDelegations[d] : \E names \in [1..n -> Helpers \cup {Stranger}] : Consult(d, names)
  \/ \E s \in Streams : OpenStream(s) \/ CloseStream(s)

SpecDelegation == InitDelegation /\ [][NextDelegation]_delegationVars

----------------------------------------------------------------------------
DelegationTypeOK ==
  /\ \A d \in Talks : /\ Len(talk[d].names) <= MaxDelegations[d] /\ Len(helper[d]) <= MaxDelegations[d]
                      /\ master[d] \in {"none", "running", "success"}
  /\ saved \subseteq Talks \X {"user", "assistant"} /\ hired \subseteq Helpers
  /\ client \in Streams \cup {Nobody} /\ cutOff \subseteq Streams
  /\ talkFaults \in 0..MaxTalkFaults

\* A request succeeds only after everything it delegated has: a helper that failed, or one
\* that could not be found or created, stops it, whatever another request does to the same
\* helpers meanwhile (delegation.controller.ts:145-190, delegation.service.ts:184-208).
MasterSucceedsLast == \A d \in Talks : master[d] = "success" =>
  /\ \A i \in DOMAIN helper[d] : helper[d][i] = "success"
  /\ {<<d, "user">>, <<d, "assistant">>} \subseteq saved

\* A stream that is the last one open hears what happens, unless an earlier one has closed
\* under it ...
LastStreamRegistered == \A s \in Streams :
  stream[s] = "open" /\ s \notin cutOff /\ (\A r \in Streams : r > s => stream[r] = "unused") => client = s

\* ... and shows no delegation as running that has ended
\* (activity.service.ts:33-70, delegation.service.ts:102, 168, 200).
StartsAreEnded == \A s \in Streams, d \in Talks : \A i \in DOMAIN helper[d] :
  client = s /\ <<d, i>> \in screen[s] => helper[d][i] = "running"

StreamsTellAll == LastStreamRegistered /\ StartsAreEnded
=============================================================================
