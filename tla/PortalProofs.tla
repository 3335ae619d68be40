---------------------------- MODULE PortalProofs ----------------------------
(***************************************************************************)
(* Proofs about the workspace: delegation, messages to shared agents and   *)
(* the jobs of the agent portal.  Each part has its own specification and  *)
(* its own invariant.                                                      *)
(***************************************************************************)
EXTENDS Chat, Delegation, AgentPortal, TLAPS

(***************************************************************************)
(* Proofs about delegation: a request succeeds only after everything it    *)
(* delegated, and the browser's stream tells of every start and every end. *)
(***************************************************************************)

Places == {"idle", "open", "say", "session", "consult", "find", "hire", "start", "work", "settle", "fail",
           "follow", "answer", "succeed", "sent", "failed"}

Typed ==
  /\ talk \in [Talks -> [at : Places, names : Seq(Helpers \cup {Stranger})]]
  /\ \A d \in Talks : talk[d].at \in {"find", "hire", "start", "work", "settle", "fail"} => talk[d].names # <<>>
  /\ master \in [Talks -> {"none", "running", "success"}]
  /\ helper \in [Talks -> Seq({"running", "success", "failed"})]
  /\ stream \in [Streams -> {"unused", "open", "closed"}]
  /\ client \in Streams \cup {Nobody}
  /\ screen \in [Streams -> SUBSET (Talks \X Nat)]
  /\ cutOff \subseteq Streams

AllSucceeded(d) == \A i \in DOMAIN helper[d] : helper[d][i] = "success"

Last(d) == Len(helper[d])

\* Where a request is working on a delegation, that is the last one and all before it have
\* succeeded; where it goes on without one, all have.
Working(d) ==
  IF talk[d].at \in {"work", "settle", "fail"}
  THEN /\ Last(d) > 0 /\ helper[d][Last(d)] = "running"
       /\ \A i \in DOMAIN helper[d] : i < Last(d) => helper[d][i] = "success"
  ELSE talk[d].at # "failed" => AllSucceeded(d)

\* The messages that are stored when a request has come so far.
Said(d) ==
  /\ talk[d].at \notin {"idle", "open", "say", "failed"} => <<d, "user">> \in saved
  /\ talk[d].at \in {"succeed", "sent"} => <<d, "assistant">> \in saved

Orderly == \A d \in Talks : Working(d) /\ Said(d) /\ (master[d] = "success" => talk[d].at = "sent")

\* Streams are opened in order, one that is not open shows nothing, and the one that is
\* registered is open.
StreamsInOrder ==
  /\ \A s \in Streams : stream[s] = "unused" => screen[s] = {} /\ \A r \in Streams : r > s => stream[r] = "unused"
  /\ client # Nobody => stream[client] = "open"

DelegationInv == Typed /\ Orderly /\ StreamsInOrder /\ StreamsTellAll

----------------------------------------------------------------------------
\* A function on 1..n is a sequence.
LEMMA NamesAreSequences ==
  ASSUME NEW S, NEW n \in Nat, NEW f \in [1..n -> S]
  PROVE  f \in Seq(S)
  BY SMT

\* The invariant holds at the start.
LEMMA DelegationStarts == InitDelegation => DelegationInv
<1> USE DelegationAssumption
<1> SUFFICES ASSUME InitDelegation PROVE DelegationInv
  OBVIOUS
<1>1. Typed
  BY DEF InitDelegation, Typed, Places
<1>2. Orderly
  <2> SUFFICES ASSUME NEW d \in Talks PROVE Working(d) /\ Said(d) /\ master[d] # "success"
    BY DEF Orderly
  <2>1. talk[d].at = "idle" /\ helper[d] = <<>> /\ master[d] = "none"
    BY DEF InitDelegation
  <2>. QED  BY <2>1 DEF Working, Said, AllSucceeded
<1>3. StreamsInOrder
  BY DEF InitDelegation, StreamsInOrder
<1>4. StreamsTellAll
  BY DEF InitDelegation, StreamsTellAll, LastStreamRegistered, StartsAreEnded
<1>. QED  BY <1>1, <1>2, <1>3, <1>4 DEF DelegationInv

\* The steps of a request.
TalkSteps(d) ==
  \/ Receive(d) \/ OpenTalk(d) \/ SaveQuestion(d) \/ CreateMasterSession(d)
  \/ ConsultFails(d) \/ FollowUp(d) \/ SaveReply(d) \/ SucceedMaster(d)
  \/ FindHelper(d) \/ HireHelper(d) \/ StartDelegation(d) \/ HelperWorks(d)
  \/ DelegationSucceeds(d) \/ DelegationFails(d) \/ TalkFault(d)
  \/ \E n \in 0..MaxDelegations[d] : \E names \in [1..n -> Helpers \cup {Stranger}] : Consult(d, names)

\* A request moves by itself: the others are where they were.
LEMMA OneTalks ==
  ASSUME Typed, NEW d \in Talks, TalkSteps(d)
  PROVE  \A e \in Talks \ {d} : talk'[e] = talk[e] /\ helper'[e] = helper[e] /\ master'[e] = master[e]
  BY DEF Typed, TalkSteps, Receive, OpenTalk, SaveQuestion, CreateMasterSession, ConsultFails, FollowUp,
     SaveReply, SucceedMaster, FindHelper, HireHelper, StartDelegation, HelperWorks, DelegationSucceeds,
     DelegationFails, TalkFault, Consult, GoOn, Settle

\* What is stored is not taken back.
LEMMA SavedGrows ==
  ASSUME NEW d \in Talks, TalkSteps(d)
  PROVE  saved \subseteq saved'
  BY DEF TalkSteps, Receive, OpenTalk, SaveQuestion, CreateMasterSession, ConsultFails, FollowUp,
     SaveReply, SucceedMaster, FindHelper, HireHelper, StartDelegation, HelperWorks, DelegationSucceeds,
     DelegationFails, TalkFault, Consult

\* A request that goes on keeps its type, and its names where it needs one.
LEMMA GoesTyped ==
  ASSUME Typed, NEW d \in Talks, NEW at \in Places, GoOn(d, at),
         at \in {"find", "hire", "start", "work", "settle", "fail"} => talk[d].names # <<>>
  PROVE  /\ talk' \in [Talks -> [at : Places, names : Seq(Helpers \cup {Stranger})]]
         /\ \A e \in Talks : talk'[e].at \in {"find", "hire", "start", "work", "settle", "fail"} => talk'[e].names # <<>>
  BY DEF Typed, GoOn

\* So do screens when something is shown to them.
LEMMA ShownTyped ==
  ASSUME Typed, NEW e \in Talks \X Nat
  PROVE  /\ ShowStart(e) \in [Streams -> SUBSET (Talks \X Nat)]
         /\ ShowEnd(e) \in [Streams -> SUBSET (Talks \X Nat)]
  BY DEF Typed, ShowStart, ShowEnd

\* The last delegation of a request gets a verdict, the others keep theirs.
LEMMA SettlesTyped ==
  ASSUME Typed, NEW d \in Talks, NEW status \in {"success", "failed"}
  PROVE  /\ Settle(d, status) \in [Talks -> Seq({"running", "success", "failed"})]
         /\ Len(Settle(d, status)[d]) = Last(d)
         /\ \A i \in 1..Last(d) : Settle(d, status)[d][i] = IF i = Last(d) THEN status ELSE helper[d][i]
<1> DEFINE Verdicts == {"running", "success", "failed"}
           settled == [helper[d] EXCEPT ![Running(d)] = status]
<1>1. helper[d] \in Seq(Verdicts) /\ Last(d) \in Nat /\ helper[d] \in [1..Last(d) -> Verdicts]
  BY DEF Typed, Last
<1>2. settled \in [1..Last(d) -> Verdicts]
  BY <1>1
<1>3. settled \in Seq(Verdicts) /\ Len(settled) = Last(d)
  BY <1>1, <1>2, NamesAreSequences
<1>4. Settle(d, status) = [helper EXCEPT ![d] = settled]
  BY DEF Settle, Typed
<1>5. Settle(d, status)[d] = settled
  BY <1>4 DEF Typed
<1>. QED  BY <1>1, <1>2, <1>3, <1>4, <1>5 DEF Typed, Running, Last

\* Every variable stays well formed.
LEMMA StaysTyped ==
  ASSUME Typed, [NextDelegation]_delegationVars
  PROVE  Typed'
<1> USE DelegationAssumption
<1>1. ASSUME NEW d \in Talks, TalkSteps(d) PROVE Typed'
  <2>1. ASSUME NEW n \in 0..MaxDelegations[d], NEW names \in [1..n -> Helpers \cup {Stranger}], Consult(d, names)
        PROVE  Typed'
    <3>1. names \in Seq(Helpers \cup {Stranger})
      BY NamesAreSequences
    <3>. QED  BY <2>1, <3>1 DEF Typed, Consult, StreamsRest, Places
  <2>2. CASE FindHelper(d) \/ HireHelper(d) \/ HelperWorks(d) \/ TalkFault(d)
    <3>1. PICK at \in {"failed", "start", "hire", "settle", "fail"} : GoOn(d, at)
      BY <2>2 DEF FindHelper, HireHelper, HelperWorks, TalkFault
    <3>2. at # "failed" => talk[d].names # <<>>
      BY <2>2, <3>1 DEF Typed, FindHelper, HireHelper, HelperWorks, TalkFault, TalkAt, GoOn
    <3>3. UNCHANGED <<master, helper, stream, client, screen, cutOff>>
      BY <2>2 DEF FindHelper, HireHelper, HelperWorks, TalkFault, StreamsRest
    <3>. QED  BY <3>1, <3>2, <3>3, GoesTyped DEF Typed, Places
  <2>3. CASE Receive(d) \/ OpenTalk(d) \/ SaveQuestion(d) \/ ConsultFails(d) \/ FollowUp(d) \/ SaveReply(d)
    <3>1. PICK at \in {"open", "say", "session", "failed", "answer", "succeed"} : GoOn(d, at)
      BY <2>3 DEF Receive, OpenTalk, SaveQuestion, ConsultFails, FollowUp, SaveReply
    <3>2. UNCHANGED <<master, helper, stream, client, screen, cutOff>>
      BY <2>3 DEF Receive, OpenTalk, SaveQuestion, ConsultFails, FollowUp, SaveReply, StreamsRest
    <3>. QED  BY <3>1, <3>2, GoesTyped DEF Typed, Places
  <2>4. CASE CreateMasterSession(d) \/ SucceedMaster(d)
    <3>1. PICK at \in {"consult", "sent"} : GoOn(d, at)
      BY <2>4 DEF CreateMasterSession, SucceedMaster
    <3>. QED  BY <2>4, <3>1, GoesTyped DEF Typed, CreateMasterSession, SucceedMaster, StreamsRest, Places
  <2>5. CASE StartDelegation(d)
    <3>1. <<d, Running(d) + 1>> \in Talks \X Nat
      BY DEF Typed, Running
    <3>2. Append(helper[d], "running") \in Seq({"running", "success", "failed"})
      BY DEF Typed
    <3>3. GoOn(d, "work") /\ talk[d].names # <<>>
      BY <2>5 DEF StartDelegation, Typed, TalkAt
    <3>. QED  BY <2>5, <3>1, <3>2, <3>3, GoesTyped, ShownTyped DEF Typed, StartDelegation, StreamsRest, Places
  <2>6. CASE DelegationSucceeds(d)
    <3>1. <<d, Running(d)>> \in Talks \X Nat
      BY DEF Typed, Running
    <3>2. talk[d].names # <<>> /\ Tail(talk[d].names) \in Seq(Helpers \cup {Stranger})
      BY <2>6 DEF DelegationSucceeds, Typed, TalkAt
    <3>3. PICK at \in {"follow", "find"} :
            /\ talk' = [talk EXCEPT ![d] = [at |-> at, names |-> Tail(talk[d].names)]]
            /\ at = "find" => Tail(talk[d].names) # <<>>
      BY <2>6 DEF DelegationSucceeds
    <3>4. [at |-> at, names |-> Tail(talk[d].names)] \in [at : Places, names : Seq(Helpers \cup {Stranger})]
      BY <3>2 DEF Places
    <3>5. /\ talk' \in [Talks -> [at : Places, names : Seq(Helpers \cup {Stranger})]]
          /\ talk'[d] = [at |-> at, names |-> Tail(talk[d].names)]
          /\ \A e \in Talks \ {d} : talk'[e] = talk[e]
      BY <3>3, <3>4 DEF Typed
    <3>6. \A e \in Talks : talk'[e].at \in {"find", "hire", "start", "work", "settle", "fail"} => talk'[e].names # <<>>
      BY <3>3, <3>5 DEF Typed
    <3>7. helper' \in [Talks -> Seq({"running", "success", "failed"})] /\ screen' \in [Streams -> SUBSET (Talks \X Nat)]
      BY <2>6, <3>1, ShownTyped, SettlesTyped DEF DelegationSucceeds
    <3>. QED  BY <2>6, <3>5, <3>6, <3>7 DEF Typed, DelegationSucceeds, StreamsRest
  <2>7. CASE DelegationFails(d)
    <3>1. <<d, Running(d)>> \in Talks \X Nat
      BY DEF Typed, Running
    <3>. QED  BY <2>7, <3>1, GoesTyped, ShownTyped, SettlesTyped
              DEF Typed, DelegationFails, AfterFailure, StreamsRest, Places
  <2>. QED  BY <1>1, <2>1, <2>2, <2>3, <2>4, <2>5, <2>6, <2>7 DEF TalkSteps
<1>2. ASSUME NEW s \in Streams, OpenStream(s) \/ CloseStream(s) PROVE Typed'
  BY <1>2 DEF Typed, OpenStream, CloseStream, Registered
<1>3. CASE UNCHANGED delegationVars
  BY <1>3 DEF Typed, delegationVars
<1>. QED  BY <1>1, <1>2, <1>3 DEF NextDelegation, TalkSteps

----------------------------------------------------------------------------
\* A request keeps what its place promises.
LEMMA RequestStaysOrderly ==
  ASSUME DelegationInv, NEW d \in Talks, TalkSteps(d)
  PROVE  Working(d)' /\ Said(d)' /\ (master'[d] = "success" => talk'[d].at = "sent")
<1>1. Typed /\ Working(d) /\ Said(d) /\ (master[d] = "success" => talk[d].at = "sent")
  BY DEF DelegationInv, Orderly
<1>2. CASE Receive(d) \/ OpenTalk(d) \/ ConsultFails(d) \/ FollowUp(d) \/ FindHelper(d) \/ HireHelper(d)
  <2>1. PICK at \in {"open", "say", "failed", "answer", "start", "hire"} : talk'[d].at = at /\ UNCHANGED <<helper, master>>
    BY <1>1, <1>2 DEF Typed, Receive, OpenTalk, ConsultFails, FollowUp, FindHelper, HireHelper, GoOn
  <2>2. talk[d].at \in {"idle", "open", "consult", "follow", "find", "hire"} /\ UNCHANGED saved
    BY <1>2 DEF Receive, OpenTalk, ConsultFails, FollowUp, FindHelper, HireHelper, TalkAt
  <2>3. at \in {"answer", "start", "hire"} => talk[d].at \in {"follow", "find", "hire"}
    BY <1>1, <1>2, <2>1 DEF Typed, Receive, OpenTalk, ConsultFails, FollowUp, FindHelper, HireHelper, GoOn, TalkAt
  <2>. QED  BY <1>1, <2>1, <2>2, <2>3 DEF Working, Said, AllSucceeded, Last
<1>3. CASE SaveQuestion(d) \/ SaveReply(d)
  BY <1>1, <1>3 DEF Typed, SaveQuestion, SaveReply, GoOn, TalkAt, Working, Said, AllSucceeded, Last
<1>4. CASE CreateMasterSession(d) \/ SucceedMaster(d)
  BY <1>1, <1>4 DEF Typed, CreateMasterSession, SucceedMaster, GoOn, TalkAt, Working, Said, AllSucceeded, Last
<1>5. CASE HelperWorks(d) \/ TalkFault(d)
  BY <1>1, <1>5 DEF Typed, HelperWorks, TalkFault, GoOn, TalkAt, Working, Said, AllSucceeded, Last
<1>6. CASE StartDelegation(d)
  <2>1. /\ talk'[d].at = "work" /\ helper'[d] = Append(helper[d], "running")
        /\ talk[d].at = "start" /\ UNCHANGED <<saved, master>>
    BY <1>1, <1>6 DEF Typed, StartDelegation, GoOn, TalkAt
  <2>2. helper[d] \in Seq({"running", "success", "failed"})
    BY <1>1 DEF Typed
  <2>. QED  BY <1>1, <2>1, <2>2 DEF Working, Said, AllSucceeded, Last
<1>7. CASE DelegationSucceeds(d) \/ DelegationFails(d)
  <2>1. PICK status \in {"success", "failed"} :
          /\ helper' = Settle(d, status) /\ UNCHANGED <<saved, master>>
          /\ talk[d].at \in {"settle", "fail"}
          /\ talk'[d].at \in (IF status = "success" THEN {"follow", "find"} ELSE {"failed"})
    BY <1>1, <1>7 DEF Typed, DelegationSucceeds, DelegationFails, AfterFailure, GoOn, TalkAt
  <2>2. /\ Last(d) \in Nat /\ DOMAIN helper[d] = 1..Last(d) /\ Len(helper'[d]) = Last(d)
        /\ DOMAIN helper'[d] = 1..Last(d)
        /\ \A i \in 1..Last(d) : helper'[d][i] = IF i = Last(d) THEN status ELSE helper[d][i]
    BY <1>1, <2>1, SettlesTyped DEF Typed, Last
  <2>3. status = "success" => \A i \in DOMAIN helper'[d] : helper'[d][i] = "success"
    BY <1>1, <2>1, <2>2 DEF Working
  <2>. QED  BY <1>1, <2>1, <2>3 DEF Working, Said, AllSucceeded
<1>8. CASE \E n \in 0..MaxDelegations[d] : \E names \in [1..n -> Helpers \cup {Stranger}] : Consult(d, names)
  <2>1. talk'[d].at \in {"answer", "find"} /\ talk[d].at = "consult" /\ UNCHANGED <<helper, saved, master>>
    BY <1>1, <1>8 DEF Typed, Consult, TalkAt
  <2>. QED  BY <1>1, <2>1 DEF Working, Said, AllSucceeded
<1>. QED  BY <1>2, <1>3, <1>4, <1>5, <1>6, <1>7, <1>8 DEF TalkSteps

\* So do all of them.
LEMMA StaysOrderly ==
  ASSUME DelegationInv, [NextDelegation]_delegationVars
  PROVE  Orderly'
<1>1. ASSUME NEW d \in Talks, TalkSteps(d) PROVE Orderly'
  <2> SUFFICES ASSUME NEW e \in Talks
               PROVE  Working(e)' /\ Said(e)' /\ (master'[e] = "success" => talk'[e].at = "sent")
    BY DEF Orderly
  <2>1. CASE e = d
    BY <1>1, <2>1, RequestStaysOrderly
  <2>2. CASE e # d
    <3>1. talk'[e] = talk[e] /\ helper'[e] = helper[e] /\ master'[e] = master[e] /\ saved \subseteq saved'
      BY <1>1, <2>2, OneTalks, SavedGrows DEF DelegationInv
    <3>2. Working(e) /\ Said(e) /\ (master[e] = "success" => talk[e].at = "sent")
      BY DEF DelegationInv, Orderly
    <3>. QED  BY <3>1, <3>2 DEF Working, Said, AllSucceeded, Last
  <2>. QED  BY <2>1, <2>2
<1>2. CASE UNCHANGED <<talk, helper, master, saved>>
  BY <1>2 DEF DelegationInv, Orderly, Working, Said, AllSucceeded, Last
<1>3. ASSUME NEW s \in Streams, OpenStream(s) \/ CloseStream(s) PROVE Orderly'
  BY <1>2, <1>3 DEF OpenStream, CloseStream
<1>4. CASE UNCHANGED delegationVars
  BY <1>2, <1>4 DEF delegationVars
<1>. QED  BY <1>1, <1>3, <1>4 DEF NextDelegation, TalkSteps

----------------------------------------------------------------------------
\* What a delegation shows is told to the one stream that is registered.
LEMMA StreamsHear ==
  ASSUME DelegationInv, NEW d \in Talks, TalkSteps(d)
  PROVE  /\ UNCHANGED <<stream, client, cutOff>>
         /\ \A s \in Streams : s # client => screen'[s] = screen[s]
         /\ StartsAreEnded'
<1>1. Typed /\ StartsAreEnded
  BY DEF DelegationInv, StreamsTellAll
<1>2. \A e \in Talks : helper[e] \in Seq({"running", "success", "failed"}) /\ DOMAIN helper[e] = 1..Last(e) /\ Last(e) \in Nat
  BY <1>1 DEF Typed, Last
<1>3. CASE StartDelegation(d)
  <2>1. UNCHANGED <<stream, client, cutOff>> /\ \A s \in Streams : s # client => screen'[s] = screen[s]
    BY <1>1, <1>3 DEF Typed, StartDelegation, StreamsRest, ShowStart
  <2>2. client # Nobody => screen'[client] = screen[client] \cup {<<d, Last(d) + 1>>}
    BY <1>1, <1>3 DEF Typed, StartDelegation, ShowStart, Running, Last
  <2>3. helper'[d] = Append(helper[d], "running") /\ \A e \in Talks \ {d} : helper'[e] = helper[e]
    BY <1>1, <1>3 DEF Typed, StartDelegation
  <2>4. SUFFICES ASSUME NEW s \in Streams, NEW e \in Talks, NEW i \in DOMAIN helper'[e],
                        client' = s, <<e, i>> \in screen'[s]
                 PROVE  helper'[e][i] = "running"
    BY <2>1 DEF StartsAreEnded
  <2>5. client = s /\ s # Nobody /\ <<e, i>> \in screen[s] \cup {<<d, Last(d) + 1>>}
    BY <2>1, <2>2, <2>4, DelegationAssumption
  <2>6. CASE e = d /\ i = Last(d) + 1
    BY <1>2, <2>3, <2>6 DEF Last
  <2>7. CASE ~(e = d /\ i = Last(d) + 1)
    <3>1. <<e, i>> \in screen[s]
      BY <2>5, <2>7
    <3>2. CASE e # d
      BY <1>1, <2>3, <2>4, <2>5, <3>1, <3>2 DEF StartsAreEnded
    <3>3. CASE e = d
      <4>1. i \in 1..(Last(d) + 1) /\ i # Last(d) + 1
        BY <1>2, <2>3, <2>4, <2>7, <3>3 DEF Last
      <4>2. i \in DOMAIN helper[d] /\ helper'[d][i] = helper[d][i]
        BY <1>2, <2>3, <4>1 DEF Last
      <4>. QED  BY <1>1, <2>5, <3>1, <3>3, <4>2 DEF StartsAreEnded
    <3>. QED  BY <3>2, <3>3
  <2>. QED  BY <2>6, <2>7
<1>4. CASE DelegationSucceeds(d) \/ DelegationFails(d)
  <2>1. UNCHANGED <<stream, client, cutOff>> /\ \A s \in Streams : s # client => screen'[s] = screen[s]
    BY <1>1, <1>4 DEF Typed, DelegationSucceeds, DelegationFails, StreamsRest, ShowEnd
  <2>2. client # Nobody => screen'[client] = screen[client] \ {<<d, Last(d)>>}
    BY <1>1, <1>4 DEF Typed, DelegationSucceeds, DelegationFails, ShowEnd, Running, Last
  <2>3. PICK status \in {"success", "failed"} : helper' = Settle(d, status)
    BY <1>4 DEF DelegationSucceeds, DelegationFails
  <2>4. /\ DOMAIN helper'[d] = 1..Last(d)
        /\ \A i \in 1..Last(d) : i # Last(d) => helper'[d][i] = helper[d][i]
        /\ \A e \in Talks \ {d} : helper'[e] = helper[e]
    BY <1>1, <1>2, <2>3, SettlesTyped DEF Typed, Last, Settle
  <2>5. SUFFICES ASSUME NEW s \in Streams, NEW e \in Talks, NEW i \in DOMAIN helper'[e],
                        client' = s, <<e, i>> \in screen'[s]
                 PROVE  helper'[e][i] = "running"
    BY <2>1 DEF StartsAreEnded
  <2>6. client = s /\ s # Nobody /\ <<e, i>> \in screen[s] /\ <<e, i>> # <<d, Last(d)>>
    BY <2>1, <2>2, <2>5, DelegationAssumption
  <2>7. i \in DOMAIN helper[e] /\ helper'[e][i] = helper[e][i]
    BY <1>2, <2>4, <2>5, <2>6
  <2>. QED  BY <1>1, <2>6, <2>7 DEF StartsAreEnded
<1>5. CASE UNCHANGED <<helper, stream, client, screen, cutOff>>
  BY <1>1, <1>5 DEF StartsAreEnded
<1>6. ~StartDelegation(d) /\ ~(DelegationSucceeds(d) \/ DelegationFails(d)) => UNCHANGED <<helper, stream, client, screen, cutOff>>
  BY DEF TalkSteps, Receive, OpenTalk, SaveQuestion, CreateMasterSession, ConsultFails, FollowUp, SaveReply,
     SucceedMaster, FindHelper, HireHelper, HelperWorks, TalkFault, Consult, StreamsRest
<1>. QED  BY <1>3, <1>4, <1>5, <1>6

\* The streams stay in order and go on to tell everything.
LEMMA StreamsStayInOrder ==
  ASSUME DelegationInv, [NextDelegation]_delegationVars
  PROVE  StreamsInOrder' /\ StreamsTellAll'
<1>1. Typed /\ StreamsInOrder /\ LastStreamRegistered /\ StartsAreEnded
  BY DEF DelegationInv, StreamsTellAll
<1>2. ASSUME NEW d \in Talks, TalkSteps(d) PROVE StreamsInOrder' /\ StreamsTellAll'
  <2>1. /\ UNCHANGED <<stream, client, cutOff>> /\ StartsAreEnded'
        /\ \A s \in Streams : s # client => screen'[s] = screen[s]
    BY <1>2, StreamsHear
  <2>2. StreamsInOrder'
    BY <1>1, <2>1, DelegationAssumption DEF StreamsInOrder
  <2>3. LastStreamRegistered'
    BY <1>1, <2>1 DEF LastStreamRegistered
  <2>. QED  BY <2>1, <2>2, <2>3 DEF StreamsTellAll
<1>3. ASSUME NEW s \in Streams, OpenStream(s) PROVE StreamsInOrder' /\ StreamsTellAll'
  <2>1. /\ stream[s] = "unused" /\ stream' = [stream EXCEPT ![s] = "open"] /\ client' = s
        /\ UNCHANGED <<screen, cutOff, helper>> /\ \A r \in Streams : r < s => stream[r] # "unused"
    BY <1>3 DEF OpenStream, Registered
  <2>2. \A r \in Streams : stream'[r] = IF r = s THEN "open" ELSE stream[r]
    BY <1>1, <2>1 DEF Typed
  <2>3. StreamsInOrder'
    BY <1>1, <2>1, <2>2 DEF StreamsInOrder
  <2>4. LastStreamRegistered'
    BY <1>1, <2>1, <2>2, DelegationAssumption DEF LastStreamRegistered, StreamsInOrder
  <2>5. StartsAreEnded'
    BY <1>1, <2>1 DEF StartsAreEnded, StreamsInOrder
  <2>. QED  BY <2>3, <2>4, <2>5 DEF StreamsTellAll
<1>4. ASSUME NEW s \in Streams, CloseStream(s) PROVE StreamsInOrder' /\ StreamsTellAll'
  <2>1. /\ stream[s] = "open" /\ stream' = [stream EXCEPT ![s] = "closed"] /\ client' = Nobody
        /\ cutOff' = cutOff \cup {r \in Streams : r > s /\ stream[r] = "open"} /\ UNCHANGED <<screen, helper>>
    BY <1>4 DEF CloseStream
  <2>2. \A r \in Streams : stream'[r] = IF r = s THEN "closed" ELSE stream[r]
    BY <1>1, <2>1 DEF Typed
  <2>3. StreamsInOrder'
    BY <1>1, <2>1, <2>2 DEF StreamsInOrder
  <2>4. LastStreamRegistered'
    BY <1>1, <2>1, <2>2, DelegationAssumption DEF LastStreamRegistered
  <2>5. StartsAreEnded'
    BY <2>1, DelegationAssumption DEF StartsAreEnded
  <2>. QED  BY <2>3, <2>4, <2>5 DEF StreamsTellAll
<1>5. CASE UNCHANGED delegationVars
  BY <1>1, <1>5 DEF delegationVars, StreamsInOrder, StreamsTellAll, LastStreamRegistered, StartsAreEnded
<1>. QED  BY <1>2, <1>3, <1>4, <1>5 DEF NextDelegation, TalkSteps

----------------------------------------------------------------------------
\* The invariant holds at every moment.
THEOREM DelegationHolds == SpecDelegation => []DelegationInv
<1>1. DelegationInv /\ [NextDelegation]_delegationVars => DelegationInv'
  BY StaysTyped, StaysOrderly, StreamsStayInOrder DEF DelegationInv
<1>. QED  BY DelegationStarts, <1>1, PTL DEF SpecDelegation

\* A request succeeds only after everything it delegated has, and with both its messages
\* stored, however requests share helpers and whatever fails (delegation.controller.ts:145-190).
THEOREM MasterAlwaysSucceedsLast == SpecDelegation => []MasterSucceedsLast
<1>1. DelegationInv => MasterSucceedsLast
  BY DEF DelegationInv, Orderly, Working, Said, AllSucceeded, MasterSucceedsLast
<1>. QED  BY DelegationHolds, <1>1, PTL

\* The last stream a user opened is the one that hears, unless an earlier one has closed under
\* it, and shows nothing as running that has ended, for any number of streams and of requests
\* (activity.service.ts:33-70).
THEOREM StreamsAlwaysTellAll == SpecDelegation => []StreamsTellAll
<1>1. DelegationInv => StreamsTellAll
  BY DEF DelegationInv
<1>. QED  BY DelegationHolds, <1>1, PTL

\* A request delegates no more often than its answer has names: those that are left, and the
\* one at work, are added to those that have a session.
BoundedAt(d) ==
  /\ Len(talk[d].names) <= MaxDelegations[d] /\ Len(helper[d]) <= MaxDelegations[d]
  /\ talk[d].at \in {"idle", "open", "say", "session", "consult"} => Len(helper[d]) = 0
  /\ talk[d].at \in {"find", "hire", "start"} => Len(helper[d]) + Len(talk[d].names) <= MaxDelegations[d]
  /\ talk[d].at \in {"work", "settle", "fail"} => Len(helper[d]) + Len(talk[d].names) <= MaxDelegations[d] + 1
  /\ talk[d].at = "hire" => Name(d) # Stranger

Bounded ==
  /\ \A d \in Talks : BoundedAt(d)
  /\ saved \subseteq Talks \X {"user", "assistant"} /\ hired \subseteq Helpers /\ talkFaults \in 0..MaxTalkFaults

\* A request that goes to another place keeps its names and its sessions.
LEMMA GoesBounded ==
  ASSUME Typed, NEW d \in Talks, BoundedAt(d), NEW at \in Places, GoOn(d, at), UNCHANGED helper,
         at \in {"open", "say", "session", "consult"} => talk[d].at \in {"idle", "open", "say", "session", "consult"},
         at \in {"hire", "start"} => talk[d].at \in {"find", "hire"},
         at \in {"settle", "fail"} => talk[d].at \in {"work", "settle"},
         at \notin {"idle", "find", "work"}, at = "hire" => Name(d) # Stranger
  PROVE  BoundedAt(d)'
<1>1. talk'[d] = [talk[d] EXCEPT !.at = at]  BY DEF Typed, GoOn
<1>2. talk'[d].at = at /\ talk'[d].names = talk[d].names  BY <1>1 DEF Typed
<1> QED BY <1>2 DEF BoundedAt, Name

LEMMA RequestBounded ==
  ASSUME Typed, NEW d \in Talks, BoundedAt(d), TalkSteps(d) PROVE BoundedAt(d)'
<1>a. MaxDelegations[d] \in Nat /\ talk[d].names \in Seq(Helpers \cup {Stranger}) /\ Len(talk[d].names) \in Nat
      /\ Len(helper[d]) \in Nat
  BY DelegationAssumption DEF Typed
<1>1. ASSUME NEW n \in 0..MaxDelegations[d], NEW names \in [1..n -> Helpers \cup {Stranger}], Consult(d, names)
      PROVE  BoundedAt(d)'
  <2>1. names \in Seq(Helpers \cup {Stranger}) /\ Len(names) = n
    <3>1. n \in Nat  BY <1>a
    <3> QED BY <3>1, NamesAreSequences
  <2>2. PICK at \in {"answer", "find"} : talk' = [talk EXCEPT ![d] = [at |-> at, names |-> names]]
    BY <1>1 DEF Consult
  <2>3. talk'[d].at = at /\ talk'[d].names = names  BY <2>2 DEF Typed
  <2>4. helper' = helper /\ Len(helper[d]) = 0  BY <1>1 DEF Consult, TalkAt, BoundedAt
  <2>5. n <= MaxDelegations[d] /\ n \in Nat  BY <1>a
  <2> QED BY <1>a, <2>1, <2>3, <2>4, <2>5 DEF BoundedAt
<1>2. CASE Receive(d) \/ OpenTalk(d) \/ SaveQuestion(d) \/ CreateMasterSession(d)
  <2>1. PICK at \in {"open", "say", "session", "consult"} : GoOn(d, at)
    BY <1>2 DEF Receive, OpenTalk, SaveQuestion, CreateMasterSession
  <2>2. UNCHANGED helper /\ talk[d].at \in {"idle", "open", "say", "session", "consult"}
    BY <1>2 DEF Receive, OpenTalk, SaveQuestion, CreateMasterSession, TalkAt
  <2>3. at \in Places  BY DEF Places
  <2> QED BY <2>1, <2>2, <2>3, GoesBounded
<1>3. CASE ConsultFails(d) \/ FollowUp(d) \/ SaveReply(d) \/ SucceedMaster(d)
  <2>1. PICK at \in {"failed", "answer", "succeed", "sent"} : GoOn(d, at)
    BY <1>3 DEF ConsultFails, FollowUp, SaveReply, SucceedMaster
  <2>2. UNCHANGED helper  BY <1>3 DEF ConsultFails, FollowUp, SaveReply, SucceedMaster
  <2>3. at \in Places  BY DEF Places
  <2> QED BY <2>1, <2>2, <2>3, GoesBounded
<1>4. CASE FindHelper(d)
  <2>1. PICK at \in {"failed", "start", "hire"} : GoOn(d, at) /\ (at = "hire" => Name(d) # Stranger)
    BY <1>4 DEF FindHelper
  <2>2. UNCHANGED helper /\ talk[d].at = "find"  BY <1>4 DEF FindHelper, TalkAt
  <2>3. at \in Places  BY DEF Places
  <2> QED BY <2>1, <2>2, <2>3, GoesBounded
<1>5. CASE HireHelper(d)
  <2>1. PICK at \in {"failed", "start"} : GoOn(d, at)  BY <1>5 DEF HireHelper
  <2>2. UNCHANGED helper /\ talk[d].at = "hire"  BY <1>5 DEF HireHelper, TalkAt
  <2>3. at \in Places  BY DEF Places
  <2> QED BY <2>1, <2>2, <2>3, GoesBounded
<1>6. CASE StartDelegation(d)
  <2>1. talk' = [talk EXCEPT ![d].at = "work"] /\ talk[d].at = "start" /\ talk[d].names # <<>>
        /\ helper' = [helper EXCEPT ![d] = Append(@, "running")]
    BY <1>6 DEF StartDelegation, GoOn, TalkAt, Typed
  <2>2. talk'[d].at = "work" /\ talk'[d].names = talk[d].names  BY <2>1 DEF Typed
  <2>3. Len(helper'[d]) = Len(helper[d]) + 1  BY <2>1 DEF Typed
  <2>4. Len(talk[d].names) > 0  BY <1>a, <2>1
  <2>5. Len(helper[d]) + Len(talk[d].names) <= MaxDelegations[d] /\ Len(talk[d].names) <= MaxDelegations[d]
    BY <2>1 DEF BoundedAt
  <2>6. PICK n \in Nat, h \in Nat, m \in Nat : n = Len(talk[d].names) /\ h = Len(helper[d]) /\ m = MaxDelegations[d]
    BY <1>a
  <2>7. n <= m /\ h + 1 <= m /\ (h + 1) + n <= m + 1
    <3>1. n > 0 /\ h + n <= m /\ n <= m  BY <2>4, <2>5, <2>6
    <3> QED BY ONLY <3>1, n \in Nat, h \in Nat, m \in Nat
  <2>8. Len(talk'[d].names) = n /\ Len(helper'[d]) = h + 1  BY <2>2, <2>3, <2>6
  <2> QED BY <2>2, <2>6, <2>7, <2>8 DEF BoundedAt
<1>7. CASE HelperWorks(d)
  <2>1. PICK at \in {"settle", "fail"} : GoOn(d, at)  BY <1>7 DEF HelperWorks
  <2>2. UNCHANGED helper /\ talk[d].at = "work"  BY <1>7 DEF HelperWorks, TalkAt
  <2>3. at \in Places  BY DEF Places
  <2> QED BY <2>1, <2>2, <2>3, GoesBounded
<1>8. CASE DelegationSucceeds(d)
  <2>1. PICK left : left = Tail(talk[d].names)  OBVIOUS
  <2>2. talk[d].at = "settle" /\ talk[d].names # <<>>  BY <1>8 DEF DelegationSucceeds, TalkAt, Typed
  <2>3. Len(left) = Len(talk[d].names) - 1  BY <1>a, <2>1, <2>2
  <2>4. PICK at \in {"follow", "find"} : talk' = [talk EXCEPT ![d] = [at |-> at, names |-> left]]
    BY <1>8, <2>1 DEF DelegationSucceeds
  <2>5. talk'[d].at = at /\ talk'[d].names = left  BY <2>4 DEF Typed
  <2>6. Len(helper'[d]) = Len(helper[d])
    BY <1>8 DEF DelegationSucceeds, Settle, Typed
  <2>7. PICK n \in Nat, h \in Nat, m \in Nat : n = Len(talk[d].names) /\ h = Len(helper[d]) /\ m = MaxDelegations[d]
    BY <1>a
  <2>8. n <= m /\ h <= m /\ h + n <= m + 1  BY <2>2, <2>7 DEF BoundedAt
  <2>9. n - 1 <= m /\ h + (n - 1) <= m  BY ONLY <2>8, n \in Nat, h \in Nat, m \in Nat
  <2>10. Len(talk'[d].names) = n - 1 /\ Len(helper'[d]) = h  BY <2>3, <2>5, <2>6, <2>7
  <2> QED BY <2>5, <2>7, <2>8, <2>9, <2>10 DEF BoundedAt
<1>9. CASE DelegationFails(d)
  <2>1. talk' = [talk EXCEPT ![d].at = "failed"]  BY <1>9 DEF DelegationFails, AfterFailure, GoOn
  <2>2. talk'[d].at = "failed" /\ talk'[d].names = talk[d].names  BY <2>1 DEF Typed
  <2>3. Len(helper'[d]) = Len(helper[d])
    BY <1>9 DEF DelegationFails, Settle, Typed
  <2> QED BY <1>a, <2>2, <2>3 DEF BoundedAt
<1>10. CASE TalkFault(d)
  <2>1. PICK at \in {"fail", "failed"} : GoOn(d, at) /\ (at = "fail" => talk[d].at = "settle")
    BY <1>10 DEF TalkFault, TalkAt
  <2>2. UNCHANGED helper  BY <1>10 DEF TalkFault
  <2>3. at \in Places  BY DEF Places
  <2> QED BY <2>1, <2>2, <2>3, GoesBounded
<1> QED BY <1>1, <1>2, <1>3, <1>4, <1>5, <1>6, <1>7, <1>8, <1>9, <1>10 DEF TalkSteps

LEMMA StaysBounded ==
  ASSUME Typed, Bounded, [NextDelegation]_delegationVars PROVE Bounded'
<1>1. ASSUME NEW d \in Talks, TalkSteps(d) PROVE Bounded'
  <2>1. BoundedAt(d)'  BY <1>1, RequestBounded DEF Bounded
  <2>2. \A e \in Talks \ {d} : talk'[e] = talk[e] /\ helper'[e] = helper[e]  BY <1>1, OneTalks
  <2>3. \A e \in Talks : BoundedAt(e)'  BY <2>1, <2>2 DEF Bounded, BoundedAt, Name
  <2>4. saved' \subseteq Talks \X {"user", "assistant"}
    BY <1>1 DEF Bounded, TalkSteps, Receive, OpenTalk, SaveQuestion, CreateMasterSession, ConsultFails, FollowUp,
       SaveReply, SucceedMaster, FindHelper, HireHelper, StartDelegation, HelperWorks, DelegationSucceeds,
       DelegationFails, TalkFault, Consult
  <2>5. hired' \subseteq Helpers
    <3>1. hired' = hired \/ (HireHelper(d) /\ hired' = hired \cup {Name(d)})
      BY <1>1 DEF TalkSteps, Receive, OpenTalk, SaveQuestion, CreateMasterSession, ConsultFails, FollowUp,
         SaveReply, SucceedMaster, FindHelper, HireHelper, StartDelegation, HelperWorks, DelegationSucceeds,
         DelegationFails, TalkFault, Consult
    <3>2. ASSUME HireHelper(d) PROVE Name(d) \in Helpers
      <4>1. talk[d].at = "hire" /\ talk[d].names \in Seq(Helpers \cup {Stranger}) /\ talk[d].names # <<>>
        BY <3>2 DEF HireHelper, TalkAt, Typed
      <4>2. Name(d) \in Helpers \cup {Stranger}  BY <4>1 DEF Name
      <4> QED BY <4>1, <4>2 DEF Bounded, BoundedAt
    <3> QED BY <3>1, <3>2 DEF Bounded
  <2>6. talkFaults' \in 0..MaxTalkFaults
    <3>1. talkFaults' = talkFaults \/ (talkFaults < MaxTalkFaults /\ talkFaults' = talkFaults + 1)
      BY <1>1 DEF TalkSteps, Receive, OpenTalk, SaveQuestion, CreateMasterSession, ConsultFails, FollowUp,
         SaveReply, SucceedMaster, FindHelper, HireHelper, StartDelegation, HelperWorks, DelegationSucceeds,
         DelegationFails, TalkFault, Consult
    <3> QED BY <3>1, DelegationAssumption DEF Bounded
  <2> QED BY <2>3, <2>4, <2>5, <2>6 DEF Bounded
<1>2. ASSUME NEW s \in Streams, OpenStream(s) \/ CloseStream(s) PROVE Bounded'
  <2>1. UNCHANGED <<talk, helper, saved, hired, talkFaults>>  BY <1>2 DEF OpenStream, CloseStream
  <2> QED BY <2>1 DEF Bounded, BoundedAt, Name
<1>3. CASE UNCHANGED delegationVars
  BY <1>3 DEF Bounded, BoundedAt, Name, delegationVars
<1> QED BY <1>1, <1>2, <1>3 DEF NextDelegation, TalkSteps

\* The rows of requests, helpers and streams have their types, and no request delegates more often
\* than its answer names helpers.
THEOREM DelegationTypeCorrect == SpecDelegation => []DelegationTypeOK
<1>1. InitDelegation => Bounded
  <2> SUFFICES ASSUME InitDelegation PROVE Bounded  OBVIOUS
  <2>1. \A d \in Talks : talk[d].at = "idle" /\ talk[d].names = <<>> /\ helper[d] = <<>>
    BY DEF InitDelegation
  <2> QED BY <2>1, DelegationAssumption DEF InitDelegation, Bounded, BoundedAt
<1>2. DelegationInv /\ Bounded /\ [NextDelegation]_delegationVars => Bounded'
  BY StaysBounded DEF DelegationInv
<1>3. DelegationInv /\ Bounded => DelegationTypeOK
  BY DEF DelegationInv, Typed, Bounded, BoundedAt, DelegationTypeOK
<1> QED BY <1>1, <1>2, <1>3, DelegationHolds, PTL DEF SpecDelegation

----------------------------------------------------------------------------
(***************************************************************************)
(* Proofs about messages to a shared agent and about its sharing, for any  *)
(* number of messages, requests, shares and conversations.  The two        *)
(* properties are not inductive: ChatInv adds what is known of a message   *)
(* between the look for a row and the write that follows it, and that      *)
(* messages in flight together are known to have been.                     *)
(***************************************************************************)

AskPlaces == {"idle", "trace", "session", "find", "open", "say", "execute", "succeed", "complete", "answer",
           "share", "cost", "limit", "pay", "notify", "context", "update", "create", "sent", "refused", "failed"}

\* What a share may be given, and what a release makes of it.
Routed(t) == [t EXCEPT !.mode = "route"]
Given == Terms \cup {Routed(t) : t \in Terms}

ShareRow == [terms : Given, used : Nat, status : {"active", "revoked"}]
AskRow == [at : AskPlaces, in : Nat \cup {None}, row : (1..MaxShares) \cup {None}, used : Nat, faulted : BOOLEAN]
TraceRow == [task : {"none", "in_progress", "completed"}, session : {"none", "running", "success"}, paidBy : {None, Owner}]

\* A call that makes a share, one that changes a share, and one that changes a conversation.
Making == [op : {"share"}, at : {"insert", "notify"}, terms : Terms, faulted : BOOLEAN]
Changing == [op : {"revoke", "update", "release"}, at : {"write", "notify", "done", "failed"},
             row : 1..MaxShares, terms : Terms \cup {None}, faulted : BOOLEAN]
Editing == [op : {"retitle", "delete"}, at : {"retitle", "delete"}, in : Nat, faulted : BOOLEAN]
CallRow == {Free} \cup Making \cup Changing \cup Editing

\* A call that changes a share works on a row that exists, and one that has revoked it has.
CallOK(c, rows) == c \in Changing =>
  /\ rows[c.row] # None
  /\ c.op = "update" => c.terms \in Terms
  /\ c.op = "revoke" /\ c.at \in {"notify", "done"} => rows[c.row].status = "revoked"
  /\ c.op = "revoke" /\ c.at = "failed" => c.faulted

\* Another message that was in flight with this one has come to its end in its conversation.
Outrun(a) == \E b \in Asks \ {a} : {a, b} \in lapped /\ ask[b].in = ask[a].in /\ ask[b].at = "sent"

\* What is known of a message at each point of its way.
AskOK(a) ==
  /\ ask[a].in \in (1..opened) \cup {None}
  /\ ask[a].at \in {"cost", "limit"} => ask[a].row \in Shares
  /\ AskedBy[a] = Guest /\ ask[a].at \in {"notify", "context", "update", "create", "sent"} /\ ~ask[a].faulted
       => trace[a].paidBy = Owner
  /\ ask[a].at = "update" => ask[a].in \in contexts \/ ask[a].in \notin conversations
  /\ ask[a].at = "create" => ask[a].in \notin contexts \/ Outrun(a)
  /\ ask[a].at = "failed" => ask[a].faulted \/ ask[a].in \notin conversations \/ Outrun(a)

ChatTyped ==
  /\ share \in [1..MaxShares -> ShareRow \cup {None}]
  /\ opened \in 0..MaxConversations /\ conversations \subseteq 1..opened /\ contexts \subseteq conversations
  /\ \A m \in messages : m.ask \in Asks /\ m.role \in {"user", "assistant"} /\ m.in \in conversations
  /\ trace \in [Asks -> TraceRow] /\ ask \in [Asks -> AskRow] /\ call \in [Callers -> CallRow]
  /\ turns \in 0..MaxTurns

Together == \A a, b \in InFlight : a # b => {a, b} \in lapped

ChatInv ==
  /\ ChatTyped
  /\ Together
  /\ \A k \in Callers : CallOK(call[k], share)
  /\ \A a \in Asks : AskOK(a)

\* No share goes away, and none comes back.
SharesKept == \A s \in 1..MaxShares : share[s] # None =>
  /\ share'[s] # None
  /\ share[s].status = "revoked" => share'[s].status = "revoked"

----------------------------------------------------------------------------
\* What a release makes of terms is a record of the shape terms have.
LEMMA GivenAreTerms ==
  ASSUME ChatAssumption
  PROVE  /\ Given \subseteq [permission : {"control", "view"}, mode : {"route", "transfer"}, limit : Nat \cup {None}]
         /\ \A t \in Given : Routed(t) \in Given
<1> DEFINE T == [permission : {"control", "view"}, mode : {"route", "transfer"}, limit : Nat \cup {None}]
<1>1. Terms \subseteq T  BY DEF ChatAssumption
<1>2. \A t \in T : Routed(t) \in T /\ Routed(Routed(t)) = Routed(t)  BY DEF Routed
<1> HIDE DEF T
<1>3. ASSUME NEW t \in Given PROVE t \in T /\ Routed(t) \in Given
  <2>1. CASE t \in Terms  BY <2>1, <1>1 DEF Given
  <2>2. ASSUME NEW u \in Terms, t = Routed(u) PROVE t \in T /\ Routed(t) \in Given
    BY <2>2, <1>1, <1>2 DEF Given
  <2> QED  BY <2>1, <2>2 DEF Given
<1> QED  BY <1>3 DEF T

\* No row of agent_shares is the value that stands for no row.
LEMMA RowsAreRows == ASSUME ChatAssumption PROVE None \notin ShareRow
<1>1. ShareRow \subseteq [terms : [permission : {"control", "view"}, mode : {"route", "transfer"}, limit : Nat \cup {None}],
                          used : Nat, status : {"active", "revoked"}]
  BY GivenAreTerms DEF ShareRow
<1> QED  BY <1>1 DEF ChatAssumption

\* Nothing has been asked, shared or said yet.
LEMMA ChatStarts == ASSUME ChatAssumption, InitChat PROVE ChatInv
<1> USE DEF InitChat
<1>1. PICK t \in Terms, n \in 1..MaxShares : share = [s \in 1..MaxShares |->
        IF s > n THEN None ELSE [terms |-> t, used |-> 0, status |-> IF s = n THEN "active" ELSE "revoked"]]
  OBVIOUS
<1>2. \A s \in 1..MaxShares : [terms |-> t, used |-> 0, status |-> IF s = n THEN "active" ELSE "revoked"] \in ShareRow
  BY DEF ShareRow, Given
<1>3. share \in [1..MaxShares -> ShareRow \cup {None}]  BY <1>1, <1>2
<1>4. trace \in [Asks -> TraceRow] /\ ask \in [Asks -> AskRow]  BY DEF TraceRow, AskRow, AskPlaces
<1>5. opened \in 0..MaxConversations /\ conversations \subseteq 1..opened /\ contexts \subseteq conversations /\ turns \in 0..MaxTurns
  BY DEF ChatAssumption
<1>6. call \in [Callers -> CallRow]  BY DEF CallRow
<1>7. ChatTyped  BY <1>3, <1>4, <1>5, <1>6 DEF ChatTyped
<1>8. Together  BY DEF Together, InFlight
<1>9. \A k \in Callers : call[k] \notin Changing  BY DEF Free, Changing
<1>10. \A a \in Asks : AskOK(a)  BY DEF AskOK
<1> QED  BY <1>7, <1>8, <1>9, <1>10 DEF ChatInv, CallOK

----------------------------------------------------------------------------
(* Messages.                                                               *)

\* What a step of one message has to keep.  The others look only at what is shared.
LEMMA AskMoves ==
  ASSUME ChatAssumption, ChatInv, NEW a \in Asks, NEW e \in AskRow,
         ask' = [ask EXCEPT ![a] = e], ask[a].at \notin Ended,
         ask[a].at = "idle" => \A b \in InFlight : {a, b} \in lapped',
         share' \in [1..MaxShares -> ShareRow \cup {None}], SharesKept,
         opened' \in 0..MaxConversations, opened' >= opened, conversations \subseteq conversations',
         \A c \in conversations' : c \in conversations \/ c \in (opened + 1)..opened',
         contexts \subseteq contexts', contexts' \subseteq conversations',
         \A c \in contexts' \ contexts : ask[a].at = "create" /\ ask[a].in = c /\ e.in = c /\ e.at = "sent",
         \A m \in messages' : m.ask \in Asks /\ m.role \in {"user", "assistant"} /\ m.in \in conversations',
         trace' \in [Asks -> TraceRow], \A b \in Asks \ {a} : trace'[b] = trace[b],
         lapped \subseteq lapped', turns' \in 0..MaxTurns, UNCHANGED call,
         AskOK(a)'
  PROVE  ChatInv'
<1> USE DEF ChatInv
<1>1. ask'[a] = e /\ \A b \in Asks \ {a} : ask'[b] = ask[b]  BY DEF ChatTyped
<1>2. ChatTyped'
  <2>1. conversations' \subseteq 1..opened'
    <3>1. opened \in Nat /\ opened' \in Nat /\ conversations \subseteq 1..opened  BY DEF ChatTyped
    <3> QED  BY <3>1
  <2> QED  BY <2>1 DEF ChatTyped
<1>3. Together'
  <2>1. \A b \in Asks \ {a} : b \in InFlight' => b \in InFlight  BY <1>1 DEF InFlight
  <2>2. ask[a].at # "idle" => a \in InFlight  BY DEF InFlight
  <2>3. \A b \in InFlight : b # a => {a, b} \in lapped'  BY <2>2 DEF Together
  <2>4. \A b \in Asks : {a, b} = {b, a}  OBVIOUS
  <2>5. InFlight' \subseteq Asks  BY DEF InFlight
  <2> QED  BY <2>1, <2>3, <2>4, <2>5 DEF Together
<1>4. \A k \in Callers : CallOK(call'[k], share')
  <2>1. \A k \in Callers : call[k] \in Changing => call[k].row \in 1..MaxShares  BY DEF Changing
  <2> QED  BY <2>1 DEF CallOK, SharesKept
<1>5. ASSUME NEW b \in Asks, b # a PROVE AskOK(b)'
  <2>1. ask'[b] = ask[b] /\ trace'[b] = trace[b] /\ AskOK(b)  BY <1>1, <1>5
  <2>2. ask[b].in \in (1..opened') \cup {None}
    <3>1. opened \in Nat /\ opened' \in Nat /\ ask[b].in \in (1..opened) \cup {None}  BY <2>1 DEF ChatTyped, AskOK
    <3> QED  BY <3>1
  <2>3. \A s \in Shares : s \in Shares'  BY DEF Shares, SharesKept
  <2>4. ask[b].in \notin conversations => ask[b].in \notin conversations'
    <3>1. opened \in Nat /\ None \notin Nat /\ ask[b].in \in (1..opened) \cup {None}  BY <2>1 DEF ChatTyped, AskOK, ChatAssumption
    <3> QED  BY <3>1
  <2>5. Outrun(b) => Outrun(b)'
    <3>1. ASSUME NEW x \in Asks \ {b}, {b, x} \in lapped, ask[x].in = ask[b].in, ask[x].at = "sent" PROVE Outrun(b)'
      <4>1. x # a  BY <3>1 DEF Ended
      <4> QED  BY <4>1, <3>1, <1>1, <2>1 DEF Outrun
    <3> QED  BY <3>1 DEF Outrun
  <2>6. ask[b].at = "create" /\ ask[b].in \in contexts' \ contexts => Outrun(b)'
    <3> SUFFICES ASSUME ask[b].at = "create", ask[b].in \in contexts' \ contexts PROVE Outrun(b)'
      OBVIOUS
    <3>1. ask[a].at = "create" /\ e.in = ask[b].in /\ e.at = "sent"  OBVIOUS
    <3>2. a \in InFlight /\ b \in InFlight  BY <3>1 DEF InFlight, Ended
    <3>3. {b, a} \in lapped'  BY <3>2, <1>5 DEF Together
    <3>4. a \in Asks \ {b} /\ ask'[a].in = ask'[b].in /\ ask'[a].at = "sent"  BY <3>1, <1>1, <2>1, <1>5
    <3> QED  BY <3>3, <3>4 DEF Outrun
  <2> QED  BY <2>1, <2>2, <2>3, <2>4, <2>5, <2>6 DEF AskOK
<1> QED  BY <1>2, <1>3, <1>4, <1>5

\* A step of a message that stays in its conversation, and changes at most its own trace and
\* rows that are already there.
LEMMA AskGoes ==
  ASSUME ChatAssumption, ChatInv, NEW a \in Asks, NEW e \in AskRow,
         ask' = [ask EXCEPT ![a] = e], ask[a].at \notin Ended \cup {"idle"}, e.in = ask[a].in,
         share' \in [1..MaxShares -> ShareRow \cup {None}], SharesKept,
         trace' \in [Asks -> TraceRow], \A b \in Asks \ {a} : trace'[b] = trace[b],
         \A m \in messages' : m.ask \in Asks /\ m.role \in {"user", "assistant"} /\ m.in \in conversations,
         turns' \in 0..MaxTurns, UNCHANGED <<conversations, opened, contexts, call, lapped>>,
         e.at \in {"cost", "limit"} => e.row \in Shares,
         AskedBy[a] = Guest /\ e.at \in {"notify", "context", "update", "create", "sent"} /\ ~e.faulted
           => trace'[a].paidBy = Owner,
         e.at = "update" => e.in \in contexts,
         e.at = "create" => e.in \notin contexts,
         e.at = "failed" => e.faulted \/ e.in \notin conversations \/ Outrun(a)
  PROVE  ChatInv'
<1> USE DEF ChatInv
<1>1. ask'[a] = e /\ \A b \in Asks \ {a} : ask'[b] = ask[b]  BY DEF ChatTyped
<1>2. Outrun(a) => Outrun(a)'
  <2>1. ASSUME NEW b \in Asks \ {a}, {a, b} \in lapped, ask[b].in = ask[a].in, ask[b].at = "sent" PROVE Outrun(a)'
    <3>1. ask'[b] = ask[b] /\ ask'[a].in = ask[a].in  BY <1>1
    <3> QED  BY <2>1, <3>1 DEF Outrun
  <2> QED  BY <2>1 DEF Outrun
<1>3. \A s \in Shares : s \in Shares'  BY DEF Shares, SharesKept
<1>4. AskOK(a)'
  <2>1. ask[a].in \in (1..opened) \cup {None}  BY DEF AskOK
  <2> QED  BY <2>1, <1>1, <1>2, <1>3 DEF AskOK
<1>5. opened' \in 0..MaxConversations /\ opened' >= opened /\ contexts' \subseteq conversations'  BY DEF ChatTyped
<1> QED  BY <1>4, <1>5, AskMoves

\* Facts about the tables that the steps of a message keep citing.
LEMMA AskFacts ==
  ASSUME ChatInv, NEW a \in Asks
  PROVE  /\ ask[a] \in AskRow /\ trace[a] \in TraceRow /\ AskOK(a) /\ turns \in 0..MaxTurns
         /\ share \in [1..MaxShares -> ShareRow \cup {None}] /\ trace \in [Asks -> TraceRow]
         /\ \A m \in messages : m.ask \in Asks /\ m.role \in {"user", "assistant"} /\ m.in \in conversations
         /\ (UNCHANGED share => SharesKept)
         /\ opened \in 0..MaxConversations /\ conversations \subseteq 1..opened /\ contexts \subseteq conversations
BY DEF ChatInv, ChatTyped, SharesKept

\* What a message becomes that goes to another place.
LEMMA AskAt ==
  ASSUME NEW r \in AskRow, NEW at \in AskPlaces
  PROVE  /\ [r EXCEPT !.at = at] \in AskRow /\ [r EXCEPT !.at = at].at = at
         /\ [r EXCEPT !.at = at].in = r.in /\ [r EXCEPT !.at = at].row = r.row
         /\ [r EXCEPT !.at = at].used = r.used /\ [r EXCEPT !.at = at].faulted = r.faulted
BY DEF AskRow

\* A message goes on to a place of which nothing new has to be known.
LEMMA AskPasses ==
  ASSUME ChatAssumption, ChatInv, NEW a \in Asks, NEW at \in AskPlaces, Go(a, at),
         ask[a].at \notin Ended \cup {"idle"},
         UNCHANGED <<share, conversations, opened, contexts, call, turns, lapped>>,
         trace' \in [Asks -> TraceRow], \A b \in Asks \ {a} : trace'[b] = trace[b],
         \A m \in messages' : m.ask \in Asks /\ m.role \in {"user", "assistant"} /\ m.in \in conversations,
         at \in {"cost", "limit"} => ask[a].row \in Shares,
         AskedBy[a] = Guest /\ at \in {"notify", "context", "update", "create", "sent"} /\ ~ask[a].faulted
           => trace'[a].paidBy = Owner,
         at = "update" => ask[a].in \in contexts,
         at = "create" => ask[a].in \notin contexts,
         at = "failed" => ask[a].in \notin conversations
  PROVE  ChatInv'
<1> DEFINE e == [ask[a] EXCEPT !.at = at]
<1>1. e \in AskRow /\ e.at = at /\ e.in = ask[a].in /\ e.row = ask[a].row /\ e.faulted = ask[a].faulted
  BY AskFacts, AskAt
<1>2. ask' = [ask EXCEPT ![a] = e]  BY DEF Go
<1> HIDE DEF e
<1> QED  BY <1>1, <1>2, AskFacts, AskGoes

\* A column of the trace of a message is written.
LEMMA TraceWrite ==
  ASSUME ChatInv, NEW a \in Asks, NEW t, t \in {"in_progress", "completed"},
         \/ trace' = [trace EXCEPT ![a].task = t]
         \/ trace' = [trace EXCEPT ![a].session = "running"] \/ trace' = [trace EXCEPT ![a].session = "success"]
         \/ trace' = [trace EXCEPT ![a].paidBy = Owner]
  PROVE  trace' \in [Asks -> TraceRow] /\ \A b \in Asks \ {a} : trace'[b] = trace[b]
<1>1. trace \in [Asks -> TraceRow] /\ trace[a] \in TraceRow  BY AskFacts
<1>2. /\ [trace[a] EXCEPT !.task = t] \in TraceRow
      /\ [trace[a] EXCEPT !.session = "running"] \in TraceRow /\ [trace[a] EXCEPT !.session = "success"] \in TraceRow
      /\ [trace[a] EXCEPT !.paidBy = Owner] \in TraceRow
  BY <1>1 DEF TraceRow
<1> QED  BY <1>1, <1>2

\* The steps from the request to the look for the share.
LEMMA EarlySteps ==
  ASSUME ChatAssumption, ChatInv, NEW a \in Asks,
         \/ CreateTrace(a) \/ CreateSession(a) \/ FindConversation(a) \/ SaveUserMessage(a)
         \/ Execute(a) \/ SucceedSession(a) \/ CompleteTrace(a) \/ SaveAnswer(a)
  PROVE  ChatInv'
<1> USE DEF Others
<1>1. CASE CreateTrace(a)
  <2>1. trace' \in [Asks -> TraceRow] /\ \A b \in Asks \ {a} : trace'[b] = trace[b]  BY <1>1, TraceWrite DEF CreateTrace
  <2>2. Go(a, "session") /\ At(a, "trace") /\ UNCHANGED <<share, conversations, opened, messages, contexts, call, turns, lapped>>
    BY <1>1 DEF CreateTrace
  <2> QED  BY <2>1, <2>2, AskFacts, AskPasses DEF At, Ended, AskPlaces
<1>2. CASE CreateSession(a)
  <2>1. trace' \in [Asks -> TraceRow] /\ \A b \in Asks \ {a} : trace'[b] = trace[b]  BY <1>2, TraceWrite DEF CreateSession
  <2>2. /\ Go(a, "open") \/ Go(a, "find") 
        /\ At(a, "session") /\ UNCHANGED <<share, conversations, opened, messages, contexts, call, turns, lapped>>
    BY <1>2 DEF CreateSession
  <2> QED  BY <2>1, <2>2, AskFacts, AskPasses DEF At, Ended, AskPlaces
<1>3. CASE FindConversation(a) \/ Execute(a)
  <2>1. /\ Go(a, "say") \/ Go(a, "open") \/ Go(a, "succeed")
        /\ At(a, "find") \/ At(a, "execute")
        /\ UNCHANGED <<share, conversations, opened, messages, contexts, call, turns, lapped, trace>>
    BY <1>3 DEF FindConversation, Execute
  <2> QED  BY <2>1, AskFacts, AskPasses DEF At, Ended, AskPlaces
<1>4. CASE SucceedSession(a)
  <2>1. trace' \in [Asks -> TraceRow] /\ \A b \in Asks \ {a} : trace'[b] = trace[b]  BY <1>4, TraceWrite DEF SucceedSession
  <2>2. Go(a, "complete") /\ At(a, "succeed") /\ UNCHANGED <<share, conversations, opened, messages, contexts, call, turns, lapped>>
    BY <1>4 DEF SucceedSession
  <2> QED  BY <2>1, <2>2, AskFacts, AskPasses DEF At, Ended, AskPlaces
<1>5. CASE CompleteTrace(a)
  <2>1. trace' \in [Asks -> TraceRow] /\ \A b \in Asks \ {a} : trace'[b] = trace[b]  BY <1>5, TraceWrite DEF CompleteTrace
  <2>2. Go(a, "answer") /\ At(a, "complete") /\ UNCHANGED <<share, conversations, opened, messages, contexts, call, turns, lapped>>
    BY <1>5 DEF CompleteTrace
  <2> QED  BY <2>1, <2>2, AskFacts, AskPasses DEF At, Ended, AskPlaces
<1>6. CASE SaveUserMessage(a) \/ SaveAnswer(a)
  <2>1. PICK role \in {"user", "assistant"}, next \in {"execute", "share"} : Say(a, role, next)
    BY <1>6 DEF SaveUserMessage, SaveAnswer
  <2>2. /\ At(a, "say") \/ At(a, "answer")
        /\ UNCHANGED <<share, conversations, opened, contexts, call, turns, lapped, trace>>
    BY <1>6, <2>1 DEF SaveUserMessage, SaveAnswer, Say
  <2>3. CASE ask[a].in \in conversations
    <3>1. messages' = messages \cup {[ask |-> a, role |-> role, in |-> ask[a].in]} /\ Go(a, next)  BY <2>1, <2>3 DEF Say
    <3>2. \A m \in messages' : m.ask \in Asks /\ m.role \in {"user", "assistant"} /\ m.in \in conversations
      BY <3>1, <2>3, AskFacts
    <3> QED  BY <3>1, <3>2, <2>2, AskFacts, AskPasses DEF At, Ended, AskPlaces
  <2>4. CASE ask[a].in \notin conversations
    <3>1. UNCHANGED messages /\ Go(a, "failed")  BY <2>1, <2>4 DEF Say
    <3> QED  BY <3>1, <2>2, <2>4, AskFacts, AskPasses DEF At, Ended, AskPlaces
  <2> QED  BY <2>3, <2>4
<1> QED  BY <1>1, <1>2, <1>3, <1>4, <1>5, <1>6

\* The steps from the look for the share to the end.
LEMMA LateSteps ==
  ASSUME ChatAssumption, ChatInv, NEW a \in Asks,
         \/ FindShare(a) \/ TrackCost(a) \/ RevokeAtLimit(a) \/ PayByOwner(a) \/ NotifyOwner(a)
         \/ FindContext(a) \/ UpdateContext(a)
  PROVE  ChatInv'
<1> USE DEF Others
<1>0. ask[a] \in AskRow  BY AskFacts
<1>1. CASE FindShare(a)
  <2>1. At(a, "share") /\ UNCHANGED <<share, conversations, opened, messages, contexts, trace, call, turns, lapped>>
    BY <1>1, Zenon DEF FindShare
  <2>2. CASE AskedBy[a] = Owner
    <3>1. Go(a, "context")  BY <1>1, <2>2 DEF FindShare
    <3> QED  BY <3>1, <2>1, <2>2, AskFacts, AskPasses DEF At, Ended, AskPlaces, ChatAssumption
  <2>3. CASE AskedBy[a] # Owner
    <3>1. PICK s \in (IF Active = {} THEN {None} ELSE Active) :
            ask' = [ask EXCEPT ![a].at = AfterShare(a), ![a].row = s,
                               ![a].used = IF s = None THEN 0 ELSE share[s].used + MessageCost]
      BY <1>1, <2>3, Zenon DEF FindShare
    <3> DEFINE n == IF s = None THEN 0 ELSE share[s].used + MessageCost
               at == AfterShare(a)
               e == [ask[a] EXCEPT !.at = at, !.row = s, !.used = n]
    <3>2. n \in Nat /\ s \in (1..MaxShares) \cup {None} /\ (at = "cost" => s \in Shares) /\ at \in {"cost", "pay"}
      <4>1. Active \subseteq Shares /\ Shares \subseteq 1..MaxShares /\ \A x \in Shares : share[x] \in ShareRow
        BY AskFacts DEF Active, Shares
      <4>2. ASSUME s # None PROVE s \in Shares /\ share[s].used + MessageCost \in Nat
        <5>1. s \in Shares /\ share[s] \in ShareRow  BY <4>1, <4>2
        <5>2. share[s].used \in Nat /\ MessageCost \in Nat  BY <5>1 DEF ShareRow, ChatAssumption
        <5> QED  BY <5>1, <5>2
      <4>3. at = "cost" => s \in Active  BY DEF AfterShare
      <4> QED  BY <4>1, <4>2, <4>3 DEF AfterShare
    <3> HIDE DEF n, at
    <3>3. e \in AskRow /\ e.at = at /\ e.row = s /\ e.in = ask[a].in
      <4>1. ask[a] \in AskRow  BY AskFacts
      <4> QED  BY <4>1, <3>2 DEF AskRow, AskPlaces
    <3>4. ask' = [ask EXCEPT ![a] = e]  BY <3>1 DEF n, at
    <3> HIDE DEF e
    <3> QED  BY <2>1, <3>2, <3>3, <3>4, AskFacts, AskGoes DEF At, Ended
  <2> QED  BY <2>2, <2>3
<1>2. CASE TrackCost(a)
  <2> DEFINE s == ask[a].row  r == [share[s] EXCEPT !.used = ask[a].used]
  <2>1. /\ At(a, "cost") /\ share' = [share EXCEPT ![s] = r]
        /\ Go(a, "limit") \/ Go(a, "pay")
        /\ UNCHANGED <<conversations, opened, messages, contexts, trace, call, turns, lapped>>
    BY <1>2 DEF TrackCost
  <2>2. s \in Shares /\ s \in 1..MaxShares /\ share[s] \in ShareRow /\ ask[a].used \in Nat
    BY <2>1, AskFacts DEF At, AskOK, Shares, AskRow
  <2>3. r \in ShareRow /\ r # None /\ r.status = share[s].status  BY <2>2, RowsAreRows DEF ShareRow
  <2> HIDE DEF r
  <2>4. share' \in [1..MaxShares -> ShareRow \cup {None}] /\ SharesKept
    BY <2>1, <2>2, <2>3, AskFacts DEF SharesKept
  <2>5. PICK at \in {"limit", "pay"} : Go(a, at)  BY <2>1
  <2> DEFINE e == [ask[a] EXCEPT !.at = at]
  <2>6. e \in AskRow /\ e.at = at /\ e.in = ask[a].in /\ e.row = s
    <3>1. at \in AskPlaces  BY DEF AskPlaces
    <3> QED  BY <1>0, <3>1, AskAt
  <2>7. ask' = [ask EXCEPT ![a] = e]  BY <2>5 DEF Go
  <2> HIDE DEF e, s
  <2> QED  BY <2>1, <2>2, <2>4, <2>6, <2>7, AskFacts, AskGoes DEF At, Ended
<1>3. CASE RevokeAtLimit(a)
  <2> DEFINE s == ask[a].row  r == [share[s] EXCEPT !.status = "revoked"]
             e == [ask[a] EXCEPT !.at = "pay"]
  <2>1. /\ At(a, "limit") /\ share' = [share EXCEPT ![s] = r] /\ ask' = [ask EXCEPT ![a] = e]
        /\ UNCHANGED <<conversations, opened, messages, contexts, trace, call, turns, lapped>>
    BY <1>3 DEF RevokeAtLimit, Go
  <2>2. s \in 1..MaxShares /\ share[s] \in ShareRow
    BY <2>1, AskFacts DEF At, AskOK, Shares
  <2>3. r \in ShareRow /\ r # None /\ r.status = "revoked"  BY <2>2, RowsAreRows DEF ShareRow
  <2> HIDE DEF r
  <2>4. share' \in [1..MaxShares -> ShareRow \cup {None}] /\ SharesKept
    BY <2>1, <2>2, <2>3, AskFacts DEF SharesKept
  <2>6. e \in AskRow /\ e.at = "pay" /\ e.in = ask[a].in
    <3>1. "pay" \in AskPlaces  BY DEF AskPlaces
    <3> QED  BY <1>0, <3>1, AskAt
  <2> HIDE DEF e, s
  <2> QED  BY <2>1, <2>4, <2>6, AskFacts, AskGoes DEF At, Ended
<1>4. CASE PayByOwner(a)
  <2>1. trace' \in [Asks -> TraceRow] /\ \A b \in Asks \ {a} : trace'[b] = trace[b]  BY <1>4, TraceWrite DEF PayByOwner
  <2>2. /\ Go(a, "notify") /\ At(a, "pay") /\ trace' = [trace EXCEPT ![a].paidBy = Owner]
        /\ UNCHANGED <<share, conversations, opened, messages, contexts, call, turns, lapped>>
    BY <1>4 DEF PayByOwner
  <2>3. trace'[a].paidBy = Owner  BY <2>2, AskFacts DEF TraceRow
  <2> QED  BY <2>1, <2>2, <2>3, AskFacts, AskPasses DEF At, Ended, AskPlaces
<1>5. CASE NotifyOwner(a)
  <2>1. Go(a, "context") /\ At(a, "notify") /\ UNCHANGED <<share, conversations, opened, messages, contexts, call, turns, lapped, trace>>
    BY <1>5 DEF NotifyOwner
  <2> QED  BY <2>1, AskFacts, AskPasses DEF At, Ended, AskPlaces, AskOK
<1>6. CASE FindContext(a)
  <2>1. /\ Go(a, IF ask[a].in \in contexts THEN "update" ELSE "create") /\ At(a, "context")
        /\ UNCHANGED <<share, conversations, opened, messages, contexts, call, turns, lapped, trace>>
    BY <1>6 DEF FindContext, AfterContext
  <2>2. CASE ask[a].in \in contexts
    <3>1. Go(a, "update")  BY <2>1, <2>2
    <3> QED  BY <2>1, <2>2, <3>1, AskFacts, AskPasses DEF At, Ended, AskPlaces, AskOK
  <2>3. CASE ask[a].in \notin contexts
    <3>1. Go(a, "create")  BY <2>1, <2>3
    <3> QED  BY <2>1, <2>3, <3>1, AskFacts, AskPasses DEF At, Ended, AskPlaces, AskOK
  <2> QED  BY <2>2, <2>3
<1>7. CASE UpdateContext(a)
  <2>1. /\ Go(a, IF ask[a].in \in contexts THEN "sent" ELSE "failed") /\ At(a, "update")
        /\ UNCHANGED <<share, conversations, opened, messages, contexts, call, turns, lapped, trace>>
    BY <1>7 DEF UpdateContext
  <2>2. CASE ask[a].in \in contexts
    <3>1. Go(a, "sent")  BY <2>1, <2>2
    <3> QED  BY <2>1, <2>2, <3>1, AskFacts, AskPasses DEF At, Ended, AskPlaces, AskOK
  <2>3. CASE ask[a].in \notin contexts
    <3>1. Go(a, "failed") /\ ask[a].in \notin conversations  BY <2>1, <2>3, AskFacts DEF At, AskOK
    <3> QED  BY <2>1, <3>1, AskFacts, AskPasses DEF At, Ended, AskPlaces
  <2> QED  BY <2>2, <2>3
<1> QED  BY <1>1, <1>2, <1>3, <1>4, <1>5, <1>6, <1>7

\* Opening a conversation, making the row of a context, a failed call, and the request itself.
LEMMA OtherAskSteps ==
  ASSUME ChatAssumption, ChatInv, NEW a \in Asks,
         \/ OpenConversation(a) \/ CreateContext(a) \/ AskFault(a)
         \/ \E c \in (1..opened) \cup {None} : Ask(a, c)
  PROVE  ChatInv'
<1> USE DEF Others
<1>0. ask[a] \in AskRow /\ opened \in Nat  BY AskFacts
<1>1. CASE OpenConversation(a)
  <2> DEFINE n == opened + 1  e == [ask[a] EXCEPT !.at = "say", !.in = n]
  <2>1. /\ At(a, "open") /\ opened' = n /\ n \in 0..MaxConversations /\ conversations' = conversations \cup {n}
        /\ ask' = [ask EXCEPT ![a] = e]
        /\ UNCHANGED <<share, messages, contexts, trace, call, turns, lapped>>
    <3>1. n \in 0..MaxConversations  BY <1>1, <1>0 DEF OpenConversation, ChatAssumption
    <3>2. ask' = [ask EXCEPT ![a] = e]  BY <1>1 DEF OpenConversation
    <3> QED  BY <1>1, <3>1, <3>2, Zenon DEF OpenConversation, At
  <2>2. n \in Nat /\ n \in (opened + 1)..n /\ n >= opened /\ n \in 1..n  BY <1>0
  <2> HIDE DEF n
  <2>3. e \in AskRow /\ e.at = "say" /\ e.in = n  BY <1>0, <2>2 DEF AskRow, AskPlaces
  <2> HIDE DEF e
  <2>4. ask'[a] = e  BY <2>1 DEF ChatInv, ChatTyped
  <2>5. AskOK(a)'  BY <2>1, <2>2, <2>3, <2>4 DEF AskOK
  <2> QED  BY <2>1, <2>2, <2>3, <2>5, AskFacts, AskMoves DEF At, Ended
<1>2. CASE CreateContext(a)
  <2> DEFINE c == ask[a].in
  <2>1. At(a, "create") /\ UNCHANGED <<share, conversations, opened, messages, trace, call, turns, lapped>>
    BY <1>2 DEF CreateContext
  <2>2. CASE c \in conversations \ contexts
    <3> DEFINE e == [ask[a] EXCEPT !.at = "sent"]
    <3>1. contexts' = contexts \cup {c} /\ ask' = [ask EXCEPT ![a] = e]  BY <1>2, <2>2 DEF CreateContext, Go
    <3>2. e \in AskRow /\ e.at = "sent" /\ e.in = c /\ e.faulted = ask[a].faulted  BY <1>0, AskAt DEF AskPlaces
    <3> HIDE DEF e
    <3>3. ask'[a] = e  BY <3>1 DEF ChatInv, ChatTyped
    <3>4. AskOK(a)'  BY <2>1, <3>2, <3>3, AskFacts DEF AskOK, At
    <3>5. opened >= opened  BY <1>0
    <3> QED  BY <2>1, <2>2, <3>1, <3>2, <3>4, <3>5, AskFacts, AskMoves DEF At, Ended
  <2>3. CASE c \notin conversations \ contexts
    <3> DEFINE e == [ask[a] EXCEPT !.at = "failed"]
    <3>1. contexts' = contexts /\ ask' = [ask EXCEPT ![a] = e]  BY <1>2, <2>3 DEF CreateContext, Go
    <3>2. e \in AskRow /\ e.at = "failed" /\ e.in = c  BY <1>0, AskAt DEF AskPlaces
    <3>3. c \notin conversations \/ Outrun(a)  BY <2>1, <2>3, AskFacts DEF AskOK, At
    <3> HIDE DEF e
    <3> QED  BY <2>1, <3>1, <3>2, <3>3, AskFacts, AskGoes DEF At, Ended
  <2> QED  BY <2>2, <2>3
<1>3. CASE AskFault(a)
  <2>1. PICK at \in {"failed", "context"} : ask' = [ask EXCEPT ![a].faulted = TRUE, ![a].at = at]
    BY <1>3 DEF AskFault, AfterFault
  <2> DEFINE e == [ask[a] EXCEPT !.faulted = TRUE, !.at = at]
  <2>2. /\ a \in InFlight /\ turns' \in 0..MaxTurns /\ ask' = [ask EXCEPT ![a] = e]
        /\ UNCHANGED <<share, conversations, opened, messages, contexts, trace, call, lapped>>
    <3>1. turns' \in 0..MaxTurns
      <4>1. turns < MaxTurns /\ turns' = turns + 1  BY <1>3, Zenon DEF AskFault
      <4> QED  BY <4>1, AskFacts DEF ChatAssumption
    <3>2. ask' = [ask EXCEPT ![a] = e]  BY <2>1
    <3> QED  BY <1>3, <3>1, <3>2, Zenon DEF AskFault
  <2>3. e \in AskRow /\ e.at = at /\ e.in = ask[a].in /\ e.faulted = TRUE  BY <1>0 DEF AskRow, AskPlaces
  <2> HIDE DEF e
  <2> QED  BY <2>2, <2>3, AskFacts, AskGoes DEF InFlight
<1>4. ASSUME NEW c \in (1..opened) \cup {None}, Ask(a, c) PROVE ChatInv'
  <2>1. PICK at \in {"trace", "refused"} : ask' = [ask EXCEPT ![a].at = at, ![a].in = c]  BY <1>4 DEF Ask
  <2> DEFINE e == [ask[a] EXCEPT !.at = at, !.in = c]
  <2>2. /\ At(a, "idle") /\ ask' = [ask EXCEPT ![a] = e] /\ lapped' = lapped \cup {{a, b} : b \in InFlight}
        /\ UNCHANGED <<share, conversations, opened, messages, contexts, trace, call, turns>>
    <3>1. ask' = [ask EXCEPT ![a] = e]  BY <2>1
    <3> QED  BY <1>4, <3>1, Zenon DEF Ask
  <2>3. c \in Nat \cup {None}  BY <1>0
  <2>4. e \in AskRow /\ e.at = at /\ e.in = c  BY <1>0, <2>3 DEF AskRow, AskPlaces
  <2> HIDE DEF e
  <2>5. ask'[a] = e  BY <2>2 DEF ChatInv, ChatTyped
  <2>6. AskOK(a)'  BY <2>2, <2>4, <2>5 DEF AskOK
  <2>7. opened >= opened  BY <1>0
  <2> QED  BY <2>2, <2>4, <2>6, <2>7, AskFacts, AskMoves DEF At, Ended
<1> QED  BY <1>1, <1>2, <1>3, <1>4

----------------------------------------------------------------------------
(* The other requests.                                                     *)

\* What a step of another request has to keep.
LEMMA CallMoves ==
  ASSUME ChatAssumption, ChatInv, NEW k \in Callers, NEW c \in CallRow,
         call' = [call EXCEPT ![k] = c], CallOK(c, share'),
         share' \in [1..MaxShares -> ShareRow \cup {None}], SharesKept,
         opened' \in 0..MaxConversations, opened' >= opened,
         \A x \in conversations' : x \in conversations \/ x \in (opened + 1)..opened',
         contexts' = contexts \cap conversations',
         \A m \in messages' : m \in messages /\ m.in \in conversations',
         turns' \in 0..MaxTurns, UNCHANGED <<trace, ask, lapped>>
  PROVE  ChatInv'
<1> USE DEF ChatInv
<1>1. opened \in Nat /\ opened' \in Nat /\ None \notin Nat /\ conversations \subseteq 1..opened
  BY DEF ChatTyped, ChatAssumption
<1>2. ChatTyped'
  <2>1. ASSUME NEW x \in conversations' PROVE x \in 1..opened'
    <3>1. CASE x \in conversations  BY <3>1, <1>1
    <3>2. CASE x \in (opened + 1)..opened'  BY <3>2, <1>1
    <3> QED  BY <3>1, <3>2
  <2>2. call' \in [Callers -> CallRow]  BY DEF ChatTyped
  <2> QED  BY <2>1, <2>2 DEF ChatTyped
<1>3. Together'  BY DEF Together, InFlight
<1>4. ASSUME NEW j \in Callers PROVE CallOK(call'[j], share')
  <2>1. CASE j = k  BY <2>1 DEF ChatTyped
  <2>2. CASE j # k
    <3>1. call'[j] = call[j]  BY <2>2 DEF ChatTyped
    <3>2. call[j] \in Changing => call[j].row \in 1..MaxShares  BY DEF Changing
    <3> QED  BY <3>1, <3>2 DEF CallOK, SharesKept
  <2> QED  BY <2>1, <2>2
<1>5. ASSUME NEW a \in Asks PROVE AskOK(a)'
  <2>1. AskOK(a)  OBVIOUS
  <2>2. ask[a].in \in (1..opened') \cup {None}  BY <2>1, <1>1 DEF AskOK
  <2>3. \A s \in Shares : s \in Shares'  BY DEF Shares, SharesKept
  <2>4. ask[a].in \notin conversations => ask[a].in \notin conversations'  BY <2>1, <1>1 DEF AskOK
  <2>5. Outrun(a) <=> Outrun(a)'  BY DEF Outrun
  <2> QED  BY <2>1, <2>2, <2>3, <2>4, <2>5 DEF AskOK
<1> QED  BY <1>2, <1>3, <1>4, <1>5

\* A step of another request that leaves conversations alone.
LEMMA CallGoes ==
  ASSUME ChatAssumption, ChatInv, NEW k \in Callers, NEW c \in CallRow,
         call' = [call EXCEPT ![k] = c], CallOK(c, share'),
         share' \in [1..MaxShares -> ShareRow \cup {None}], SharesKept,
         turns' \in 0..MaxTurns, UNCHANGED <<conversations, opened, messages, contexts, trace, ask, lapped>>
  PROVE  ChatInv'
<1>1. opened \in 0..MaxConversations /\ contexts \subseteq conversations /\ opened >= opened
      /\ \A m \in messages : m.in \in conversations
  BY DEF ChatInv, ChatTyped
<1>2. contexts' = contexts \cap conversations'  BY <1>1
<1> QED  BY <1>1, <1>2, CallMoves

\* Facts about requests and shares.
LEMMA CallFacts ==
  ASSUME ChatInv, NEW k \in Callers
  PROVE  /\ call[k] \in CallRow /\ CallOK(call[k], share) /\ turns \in 0..MaxTurns
         /\ share \in [1..MaxShares -> ShareRow \cup {None}]
         /\ (UNCHANGED share => SharesKept)
         /\ \A c : c \notin Changing => CallOK(c, share')
         /\ Free \in CallRow /\ Free \notin Changing /\ Free.at = "idle"
BY DEF ChatInv, ChatTyped, SharesKept, CallOK, CallRow, Free, Changing

\* What becomes of a request that changes a share when it moves on.
LEMMA ChangeGoes ==
  ASSUME NEW c \in Changing, NEW at \in {"notify", "done", "failed"}
  PROVE  LET d == [c EXCEPT !.at = at] IN
         d \in Changing /\ d.at = at /\ d.op = c.op /\ d.row = c.row /\ d.terms = c.terms /\ d.faulted = c.faulted
BY DEF Changing

\* Requests by what they are in the middle of.
LEMMA CallKinds ==
  ASSUME ChatInv, NEW k \in Callers
  PROVE  /\ call[k].at = "insert" => call[k] \in Making
         /\ call[k].at = "write" => call[k] \in Changing
         /\ call[k].at = "notify" => call[k] \in Making \cup Changing
         /\ call[k].at \in {"retitle", "delete"} => call[k] \in Editing
         /\ call[k].at # "idle" /\ call[k].op = "revoke" => call[k] \in Changing
         /\ call[k] \in Making \cup Editing => call[k].op # "revoke" 
<1>1. call[k] \in CallRow  BY CallFacts
<1>2. CASE call[k] = Free  BY <1>2 DEF Free, Making, Editing
<1>3. CASE call[k] \in Making  BY <1>3 DEF Making
<1>4. CASE call[k] \in Changing  BY <1>4 DEF Changing, Making, Editing
<1>5. CASE call[k] \in Editing  BY <1>5 DEF Editing
<1> QED  BY <1>1, <1>2, <1>3, <1>4, <1>5 DEF CallRow

\* A request begins, with what it has found to work on.
LEMMA BeginStep ==
  ASSUME ChatAssumption, ChatInv, NEW k \in Callers,
         \/ \E t \in Terms : ShareAgent(k, t) \/ FindActive(k, "update", t)
         \/ FindActive(k, "revoke", None) \/ FindActive(k, "release", None)
         \/ \E c \in 1..MaxConversations, op \in {"retitle", "delete"} : FindOwn(k, op, c)
  PROVE  ChatInv'
<1> USE DEF AsksRest, Begin, Steps
<1>0. turns < MaxTurns /\ turns' = turns + 1 => turns' \in 0..MaxTurns  BY CallFacts DEF ChatAssumption
<1>1. ASSUME NEW t \in Terms, ShareAgent(k, t) PROVE ChatInv'
  <2> DEFINE c == IF Active = {} THEN [op |-> "share", at |-> "insert", terms |-> t, faulted |-> FALSE] ELSE Free
  <2>1. c \in CallRow /\ c \notin Changing  BY CallFacts DEF CallRow, Making, Changing
  <2>2. /\ call' = [call EXCEPT ![k] = c] /\ turns' \in 0..MaxTurns
        /\ UNCHANGED <<share, conversations, opened, messages, contexts, trace, ask, lapped>>
    BY <1>0, <1>1 DEF ShareAgent
  <2> HIDE DEF c
  <2> QED  BY <2>1, <2>2, CallFacts, CallGoes
<1>2. ASSUME NEW op \in {"update", "revoke", "release"}, NEW t \in Terms \cup {None}, FindActive(k, op, t),
             op = "update" => t \in Terms
      PROVE  ChatInv'
  <2>1. PICK s \in Active : Begin(k, [op |-> op, at |-> "write", row |-> s, terms |-> t, faulted |-> FALSE])
    BY <1>2 DEF FindActive
  <2> DEFINE c == [op |-> op, at |-> "write", row |-> s, terms |-> t, faulted |-> FALSE]
  <2>2. s \in 1..MaxShares /\ share[s] # None  BY DEF Active, Shares
  <2>3. /\ call' = [call EXCEPT ![k] = c] /\ turns' \in 0..MaxTurns
        /\ UNCHANGED <<share, conversations, opened, messages, contexts, trace, ask, lapped>>
    BY <1>0, <1>2, <2>1 DEF FindActive
  <2>4. c \in CallRow /\ CallOK(c, share')  BY <1>2, <2>2, <2>3 DEF CallRow, Changing, CallOK
  <2> HIDE DEF c
  <2> QED  BY <2>3, <2>4, CallFacts, CallGoes
<1>3. ASSUME NEW n \in 1..MaxConversations, NEW op \in {"retitle", "delete"}, FindOwn(k, op, n) PROVE ChatInv'
  <2> DEFINE c == [op |-> op, at |-> op, in |-> n, faulted |-> FALSE]
  <2>1. c \in CallRow /\ c \notin Changing  BY DEF CallRow, Editing, Changing
  <2>2. /\ call' = [call EXCEPT ![k] = c] /\ turns' \in 0..MaxTurns
        /\ UNCHANGED <<share, conversations, opened, messages, contexts, trace, ask, lapped>>
    BY <1>0, <1>3 DEF FindOwn
  <2> HIDE DEF c
  <2> QED  BY <2>1, <2>2, CallFacts, CallGoes
<1> QED  BY <1>1, <1>2, <1>3

\* The writes to agent_shares: a row comes to be, or is revoked, updated or released.
LEMMA ShareSteps ==
  ASSUME ChatAssumption, ChatInv, NEW k \in Callers,
         (\E s \in 1..MaxShares : CreateShare(k, s)) \/ WriteShare(k)
  PROVE  ChatInv'
<1> USE DEF AsksRest, Continue, Finish, Steps
<1>1. ASSUME NEW s \in 1..MaxShares, CreateShare(k, s) PROVE ChatInv'
  <2>1. /\ call[k] \in Making /\ call[k].op = "share" /\ s \notin Shares
        /\ turns' \in 0..MaxTurns /\ UNCHANGED <<conversations, opened, messages, contexts, trace, ask, lapped>>
    BY <1>1, CallKinds, CallFacts DEF CreateShare, Making
  <2>2. CASE Fits(s, "active")
    <3> DEFINE r == [terms |-> call[k].terms, used |-> 0, status |-> "active"]
               c == [call[k] EXCEPT !.at = "notify"]
    <3>1. share' = [share EXCEPT ![s] = r] /\ call' = [call EXCEPT ![k] = c]  BY <1>1, <2>2 DEF CreateShare
    <3>2. r \in ShareRow  BY <2>1 DEF Making, ShareRow, Given
    <3>3. r # None  BY <3>2, RowsAreRows
    <3>4. c \in CallRow /\ c \notin Changing  BY <2>1 DEF CallRow, Making, Changing
    <3> HIDE DEF r, c
    <3>5. share' \in [1..MaxShares -> ShareRow \cup {None}] /\ SharesKept
      BY <2>1, <3>1, <3>2, <3>3, CallFacts DEF SharesKept, Shares
    <3> QED  BY <2>1, <3>1, <3>4, <3>5, CallFacts, CallGoes
  <2>3. CASE ~Fits(s, "active")
    <3>1. UNCHANGED share /\ call' = [call EXCEPT ![k] = Free]  BY <1>1, <2>1, <2>3 DEF CreateShare
    <3> QED  BY <2>1, <3>1, CallFacts, CallGoes
  <2> QED  BY <2>2, <2>3
<1>2. CASE WriteShare(k)
  <2> DEFINE s == call[k].row  r == Written(share[s], call[k])
  <2>1. /\ call[k] \in Changing /\ turns' \in 0..MaxTurns
        /\ UNCHANGED <<conversations, opened, messages, contexts, trace, ask, lapped>>
    BY <1>2, CallKinds, CallFacts DEF WriteShare
  <2>2. s \in 1..MaxShares /\ share[s] \in ShareRow /\ (call[k].op = "update" => call[k].terms \in Terms)
    BY <2>1, CallFacts DEF CallOK, Changing
  <2>3. /\ r \in ShareRow /\ (share[s].status = "revoked" => r.status = "revoked")
        /\ call[k].op = "revoke" => r.status = "revoked"
    <3>1. CASE call[k].op = "revoke"  BY <3>1, <2>2 DEF Written, ShareRow
    <3>2. CASE call[k].op = "update"  BY <3>2, <2>2 DEF Written, ShareRow, Given
    <3>3. CASE call[k].op = "release"
      <4>1. r = [share[s] EXCEPT !.terms = Routed(share[s].terms)]  BY <3>3 DEF Written, Routed
      <4>2. Routed(share[s].terms) \in Given  BY <2>2, GivenAreTerms DEF ShareRow
      <4> QED  BY <4>1, <4>2, <3>3, <2>2 DEF ShareRow
    <3> QED  BY <3>1, <3>2, <3>3, <2>1 DEF Changing
  <2>4. r # None  BY <2>3, RowsAreRows
  <2>5. CASE Fits(s, r.status)
    <3> DEFINE c == [call[k] EXCEPT !.at = "notify"]
    <3>1. share' = [share EXCEPT ![s] = r] /\ call' = [call EXCEPT ![k] = c]  BY <1>2, <2>5 DEF WriteShare
    <3>2. c \in Changing /\ c.at = "notify" /\ c.op = call[k].op /\ c.row = s /\ c.terms = call[k].terms  BY <2>1, ChangeGoes
    <3> HIDE DEF r, c, s
    <3>3. share' \in [1..MaxShares -> ShareRow \cup {None}] /\ SharesKept /\ share'[s] = r
      BY <2>2, <2>3, <2>4, <3>1, CallFacts DEF SharesKept
    <3>4. CallOK(c, share') /\ c \in CallRow  BY <2>2, <2>3, <2>4, <3>2, <3>3 DEF CallOK, CallRow
    <3> QED  BY <2>1, <3>1, <3>3, <3>4, CallGoes
  <2>6. CASE ~Fits(s, r.status)
    <3>1. UNCHANGED share /\ call[k].op # "revoke"  BY <1>2, <2>6, <2>3 DEF WriteShare, Fits
    <3>2. call' = [call EXCEPT ![k] = Free]  BY <1>2, <2>6, <3>1 DEF WriteShare
    <3> QED  BY <2>1, <3>1, <3>2, CallFacts, CallGoes
  <2> QED  BY <2>5, <2>6
<1> QED  BY <1>1, <1>2

\* The steps of a request that change no share: it notifies, works on a conversation, or fails.
LEMMA OtherCallSteps ==
  ASSUME ChatAssumption, ChatInv, NEW k \in Callers,
         NotifyUser(k) \/ NewConversation(k) \/ Retitle(k) \/ DeleteConversation(k) \/ CallFault(k)
  PROVE  ChatInv'
<1> USE DEF AsksRest, Begin, Continue, Finish, Steps
<1>0. turns < MaxTurns /\ turns' = turns + 1 => turns' \in 0..MaxTurns  BY CallFacts DEF ChatAssumption
<1>1. CASE NotifyUser(k)
  <2>1. /\ call[k].at = "notify" /\ turns' \in 0..MaxTurns
        /\ UNCHANGED <<share, conversations, opened, messages, contexts, trace, ask, lapped>>
        /\ call' = [call EXCEPT ![k] = IF call[k].op = "revoke" THEN [call[k] EXCEPT !.at = "done"] ELSE Free]
    BY <1>1, CallFacts DEF NotifyUser
  <2>2. CASE call[k].op = "revoke"
    <3> DEFINE c == [call[k] EXCEPT !.at = "done"]
    <3>1. call[k] \in Changing  BY <2>1, <2>2, CallKinds
    <3>2. c \in Changing /\ c.at = "done" /\ c.op = call[k].op /\ c.row = call[k].row  BY <3>1, ChangeGoes
    <3>3. call' = [call EXCEPT ![k] = c]  BY <2>1, <2>2
    <3> HIDE DEF c
    <3>4. CallOK(c, share') /\ c \in CallRow  BY <2>1, <2>2, <3>1, <3>2, CallFacts DEF CallOK, CallRow
    <3> QED  BY <2>1, <3>3, <3>4, CallFacts, CallGoes
  <2>3. CASE call[k].op # "revoke"
    <3>1. call' = [call EXCEPT ![k] = Free]  BY <2>1, <2>3
    <3> QED  BY <2>1, <3>1, CallFacts, CallGoes
  <2> QED  BY <2>2, <2>3
<1>2. CASE NewConversation(k)
  <2>1. /\ opened < MaxConversations /\ opened' = opened + 1 /\ conversations' = conversations \cup {opened + 1}
        /\ turns' \in 0..MaxTurns /\ call' = [call EXCEPT ![k] = Free]
        /\ UNCHANGED <<share, messages, contexts, trace, ask, lapped>>
    BY <1>0, <1>2 DEF NewConversation
  <2>2. opened \in 0..MaxConversations /\ contexts \subseteq conversations /\ \A m \in messages : m.in \in conversations
    BY DEF ChatInv, ChatTyped
  <2>3. opened' \in 0..MaxConversations /\ opened' >= opened /\ opened + 1 \in (opened + 1)..opened'
    BY <2>1, <2>2 DEF ChatAssumption
  <2> QED  BY <2>1, <2>2, <2>3, CallFacts, CallMoves
<1>3. CASE Retitle(k)
  <2>1. /\ call[k] \in Editing /\ turns' \in 0..MaxTurns
        /\ UNCHANGED <<share, conversations, opened, messages, contexts, trace, ask, lapped>>
    BY <1>3, CallKinds, CallFacts DEF Retitle
  <2>2. call' = [call EXCEPT ![k] = Free]  BY <1>3, <2>1, CallKinds DEF Retitle
  <2> QED  BY <2>1, <2>2, CallFacts, CallGoes
<1>4. CASE DeleteConversation(k)
  <2> DEFINE c == call[k].in
  <2>1. /\ call[k] \in Editing /\ turns' \in 0..MaxTurns /\ conversations' = conversations \ {c}
        /\ contexts' = contexts \ {c} /\ messages' = {m \in messages : m.in # c}
        /\ UNCHANGED <<share, opened, trace, ask, lapped>>
    BY <1>4, CallKinds, CallFacts DEF DeleteConversation, ContextsAfter
  <2>2. call' = [call EXCEPT ![k] = Free]  BY <1>4, <2>1, CallKinds DEF DeleteConversation
  <2>3. opened \in 0..MaxConversations /\ contexts \subseteq conversations /\ \A m \in messages : m.in \in conversations
    BY DEF ChatInv, ChatTyped
  <2>4. opened' >= opened /\ contexts' = contexts \cap conversations'  BY <2>1, <2>3
  <2> QED  BY <2>1, <2>2, <2>3, <2>4, CallFacts, CallMoves
<1>5. CASE CallFault(k)
  <2>1. /\ call[k].at \in {"insert", "write", "notify", "retitle", "delete"} /\ turns' \in 0..MaxTurns
        /\ UNCHANGED <<share, conversations, opened, messages, contexts, trace, ask, lapped>>
        /\ call' = [call EXCEPT ![k] = IF call[k].op = "revoke" THEN [call[k] EXCEPT !.at = "failed", !.faulted = TRUE] ELSE Free]
    BY <1>0, <1>5 DEF CallFault
  <2>2. CASE call[k].op = "revoke"
    <3> DEFINE c == [call[k] EXCEPT !.at = "failed", !.faulted = TRUE]
    <3>1. call[k] \in Changing  BY <2>1, <2>2, CallKinds
    <3>2. c \in Changing /\ c.at = "failed" /\ c.op = call[k].op /\ c.row = call[k].row /\ c.faulted = TRUE
      BY <3>1 DEF Changing
    <3>3. call' = [call EXCEPT ![k] = c]  BY <2>1, <2>2
    <3> HIDE DEF c
    <3>4. CallOK(c, share') /\ c \in CallRow  BY <2>1, <2>2, <3>1, <3>2, CallFacts DEF CallOK, CallRow
    <3> QED  BY <2>1, <3>3, <3>4, CallFacts, CallGoes
  <2>3. CASE call[k].op # "revoke"
    <3>1. call' = [call EXCEPT ![k] = Free]  BY <2>1, <2>3
    <3> QED  BY <2>1, <3>1, CallFacts, CallGoes
  <2> QED  BY <2>2, <2>3
<1> QED  BY <1>1, <1>2, <1>3, <1>4, <1>5

\* The invariant is inductive.
LEMMA ChatStep == ASSUME ChatAssumption PROVE ChatInv /\ [NextChat]_chatVars => ChatInv'
<1> SUFFICES ASSUME ChatInv, [NextChat]_chatVars PROVE ChatInv'
  OBVIOUS
<1>1. ASSUME NEW a \in Asks, AskSteps(a) \/ AskFault(a) \/ \E c \in (1..opened) \cup {None} : Ask(a, c) PROVE ChatInv'
  <2>1. CASE AskSteps(a)  BY <2>1, EarlySteps, LateSteps, OtherAskSteps DEF AskSteps
  <2>2. CASE AskFault(a) \/ \E c \in (1..opened) \cup {None} : Ask(a, c)  BY <2>2, OtherAskSteps
  <2> QED  BY <1>1, <2>1, <2>2
<1>2. ASSUME NEW k \in Callers,
             \/ \E t \in Terms : ShareAgent(k, t) \/ FindActive(k, "update", t)
             \/ FindActive(k, "revoke", None) \/ FindActive(k, "release", None)
             \/ \E c \in 1..MaxConversations, op \in {"retitle", "delete"} : FindOwn(k, op, c)
      PROVE  ChatInv'
  BY <1>2, BeginStep
<1>3. ASSUME NEW k \in Callers, (\E s \in 1..MaxShares : CreateShare(k, s)) \/ WriteShare(k) PROVE ChatInv'
  BY <1>3, ShareSteps
<1>4. ASSUME NEW k \in Callers, NotifyUser(k) \/ NewConversation(k) \/ Retitle(k) \/ DeleteConversation(k) \/ CallFault(k)
      PROVE  ChatInv'
  BY <1>4, OtherCallSteps
<1>5. CASE UNCHANGED chatVars
  BY <1>5 DEF chatVars, ChatInv, ChatTyped, Together, InFlight, AskOK, Outrun, Shares
<1> QED  BY <1>1, <1>2, <1>3, <1>4, <1>5 DEF NextChat

\* The invariant holds at every moment.
LEMMA ChatHolds == SpecChat => []ChatInv
<1>1. InitChat => ChatInv  BY ChatStarts, ChatAssumption
<1>2. ChatInv /\ [NextChat]_chatVars => ChatInv'  BY ChatStep, ChatAssumption
<1> QED  BY <1>1, <1>2, PTL DEF SpecChat

\* Every variable keeps its type: a message only ever lies in a conversation that exists, and a
\* conversation has a context only while it exists.
THEOREM ChatTypeCorrect == SpecChat => []ChatTypeOK
<1>1. ChatInv => ChatTypeOK
  <2> SUFFICES ASSUME ChatInv PROVE ChatTypeOK
    OBVIOUS
  <2>1. ASSUME NEW s \in Shares
        PROVE  /\ share[s].terms \in Terms \cup {[t EXCEPT !.mode = "route"] : t \in Terms}
               /\ share[s].used \in Nat /\ share[s].status \in {"active", "revoked"}
    BY DEF ChatInv, ChatTyped, Shares, ShareRow, Given, Routed
  <2>2. \A a \in Asks : trace[a].paidBy \in {None, Owner} /\ ask[a].in \in (1..opened) \cup {None}
    BY DEF ChatInv, ChatTyped, TraceRow, AskOK
  <2> QED  BY <2>1, <2>2 DEF ChatInv, ChatTyped, ChatTypeOK
<1> QED  BY <1>1, ChatHolds, PTL

\* A guest's message that is answered is paid by the owner whatever has become of the share
\* since it was checked, and a message fails only for a failed call, a conversation deleted
\* under it, or another message in flight with it in the same conversation
\* (command-center.controller.ts:290-327, agent-context.service.ts:14-40).
THEOREM MessagesAlwaysSettled == SpecChat => []MessagesSettled
<1>1. ChatInv => MessagesSettled
  <2> SUFFICES ASSUME ChatInv PROVE PaidByOwner /\ FailuresHaveCause
    BY DEF MessagesSettled
  <2> QED  BY DEF ChatInv, AskOK, PaidByOwner, FailuresHaveCause, At, Outrun
<1> QED  BY <1>1, ChatHolds, PTL

\* A share that a request found and revoked stays revoked, whatever other requests that had
\* found it before do to it afterwards (agent-sharing.service.ts:106-136).
THEOREM RevocationsAlwaysLast == SpecChat => []RevocationsLast
<1>1. ChatInv => RevocationsLast  BY CallKinds DEF ChatInv, CallOK, RevocationsLast
<1> QED  BY <1>1, ChatHolds, PTL

----------------------------------------------------------------------------
(***************************************************************************)
(* Proofs about an agent of the agent portal, for any number of jobs: the  *)
(* numbers that prompt updates log, and the books and budgets of jobs that *)
(* come one after the other.                                               *)
(***************************************************************************)

Fields == {"status", "model", "params", "version", "crew", "critical", "health"}
Types == {"UPDATE", "DEACTIVATE", "ARCHIVE", "HEALTH", "MODEL_CHANGE", "PROMPT_UPDATE", "PARAMS_ADJUST",
          "TOGGLE", "ASSIGN", "REMOVE", "UNPAUSE"}
FieldValues == Models \cup Crews \cup Nat \cup {Nil, TRUE, FALSE, "encrypted", "unknown", "healthy",
                                           "ACTIVE", "INACTIVE", "PAUSED", "ARCHIVED"}

AgentRow == [status : {"ACTIVE", "INACTIVE", "PAUSED", "ARCHIVED"}, model : Models, params : Models,
             version : Nat \ {0}, crew : Crews \cup {Nil}, critical : BOOLEAN, health : {"unknown", "healthy"}]
BudgetRow == [cap : Caps, spend : Nat, paused : BOOLEAN, since : Nat]
LogRow == [type : Types, field : Fields, from : FieldValues, to : FieldValues]

\* What a job may be asked to do, and what it may have read.
Unpause == [type |-> "UNPAUSE", field |-> "status", to |-> "ACTIVE"]
Change == [type : Types \ {"REMOVE"}, field : Fields, to : FieldValues]
Removal == [type : {"REMOVE"}, field : {"crew"}, to : {Nil}, of : Crews]
Doing == {Nil} \cup Change \cup Removal \cup [type : {"BUDGET"}, cap : Caps] \cup [type : {"SESSION"}]
Seen == {Nil} \cup AgentRow \cup {[status |-> "PAUSED"]} \cup Nat
JobPlaces == {"idle", "write", "log", "budget", "resume", "session", "ledger", "stats", "budgets",
              "charge", "critical", "pause", "mark"}
JobRow == [at : JobPlaces, do : Doing, seen : Seen, left : Seq(BudgetRow)]

\* The values a change may write, but for the version, which is counted.
ChangeFits(c) ==
  /\ c.field = "status" => c.to \in {"ACTIVE", "INACTIVE", "ARCHIVED"}
  /\ c.field \in {"model", "params"} => c.to \in Models
  /\ c.field = "crew" => c.to \in Crews \cup {Nil}
  /\ c.field = "critical" => c.to \in BOOLEAN
  /\ c.field = "health" => c.to = "healthy"
  /\ c.type = "PROMPT_UPDATE" => c.field = "version"

\* What is known of a job at each point of its way, with n budgets in the table.
JobOK(r, n) ==
  /\ r.at = "write" => \/ r.do \in Change \cup Removal /\ r.do.type # "UNPAUSE" /\ ChangeFits(r.do) /\ r.seen \in AgentRow
                       \/ r.do = Unpause /\ r.seen = [status |-> "PAUSED"]
  /\ r.at = "log" => \/ r.do \in Change /\ r.do.type # "UNPAUSE" /\ r.seen \in AgentRow
                     \/ r.do = Unpause /\ r.seen = [status |-> "PAUSED"]
  /\ r.at = "resume" => r.do = Unpause /\ r.seen = [status |-> "PAUSED"]
  /\ r.at = "budget" => r.do \in [type : {"BUDGET"}, cap : Caps] /\ r.seen \in {Nil} \cup 1..n
  /\ r.at \in {"session", "ledger", "stats", "budgets", "charge", "critical", "pause", "mark"}
       => r.do = [type |-> "SESSION"]
  /\ r.at \in {"charge", "critical", "pause", "mark"}
       => r.left # <<>> /\ r.seen \in 1..n /\ r.seen + Len(r.left) <= n + 1

PortalTyped ==
  /\ agent \in AgentRow /\ configLog \in Seq(LogRow) /\ budget \in Seq(BudgetRow)
  /\ books \in [sessions : Nat, ledger : Nat, stats : Nat]
  /\ job \in [Jobs -> JobRow] /\ \A j \in Jobs : JobOK(job[j], Len(budget))
  /\ begun \in 0..MaxJobs /\ mixed \in BOOLEAN

\* The prompt updates that are logged, and the ones that have written and not logged yet.
Updates == {i \in DOMAIN configLog : configLog[i].type = "PROMPT_UPDATE"}
ToLog(r) == r.at = "log" /\ r.do.type = "PROMPT_UPDATE"
ToWrite(r) == r.at = "write" /\ r.do.type = "PROMPT_UPDATE"

\* No number is above the version the row has, and no two updates have the same, logged or not.
UniqueNumbers ==
  /\ \A i \in Updates : /\ configLog[i].from \in Nat /\ configLog[i].to \in Nat
                        /\ configLog[i].from < configLog[i].to /\ configLog[i].to <= agent.version
                        /\ \A k \in Updates \ {i} : configLog[k].to # configLog[i].to
  /\ \A j \in Jobs : ToWrite(job[j]) => job[j].seen.version <= agent.version
  /\ \A j \in Jobs : ToLog(job[j]) =>
       /\ job[j].do.field = "version" /\ job[j].do.to \in Nat
       /\ job[j].seen.version < job[j].do.to /\ job[j].do.to <= agent.version
       /\ \A i \in Updates : configLog[i].to # job[j].do.to
       /\ \A k \in Jobs \ {j} : ToLog(job[k]) => job[k].do.to # job[j].do.to

\* How the books and the budget stand to each other when the job that touches them is at "at".
BooksAgree(at) ==
  /\ books.ledger + (IF at = "ledger" THEN SessionCost ELSE 0) = SessionCost * books.sessions
  /\ books.stats + (IF at = "stats" THEN SessionCost ELSE 0) = books.ledger
  /\ \A i \in DOMAIN budget : budget[i].since
       + budget[i].spend + (IF at \in {"stats", "budgets", "charge"} THEN SessionCost ELSE 0) = books.ledger
  /\ agent.status = "PAUSED" /\ at # "mark" => \E i \in DOMAIN budget : budget[i].paused

\* What a job has read of the only budget.
JobKept(r) ==
  /\ r.at = "budget" => r.seen = (IF budget = <<>> THEN Nil ELSE 1)
  /\ r.at = "charge" => r.left = budget
  /\ r.at \in {"charge", "critical", "pause", "mark"} => r.seen = 1 /\ Len(r.left) = 1 /\ Len(budget) = 1
  /\ r.at = "resume" => agent.status # "PAUSED"

Kept == ~mixed =>
  /\ \A j, k \in SpendingInFlight : j = k
  /\ Len(budget) <= 1
  /\ SpendingInFlight = {} => BooksAgree("idle")
  /\ \A j \in SpendingInFlight : BooksAgree(job[j].at) /\ JobKept(job[j])

PortalInv == PortalTyped /\ UniqueNumbers /\ Kept

----------------------------------------------------------------------------
\* A change that may be asked for is one of these.
LEMMA ChangesFit ==
  ASSUME NEW c \in Changes
  PROVE  c \in Change \cup Removal /\ c.type # "UNPAUSE" /\ c.type \notin Spending /\ ChangeFits(c)
<1>1. /\ \A v \in Models \cup Crews \cup BOOLEAN : v \in FieldValues
      /\ {Nil, "healthy", "ACTIVE", "INACTIVE", "ARCHIVED"} \subseteq FieldValues
  BY DEF FieldValues
<1> USE DEF updateAgent, deactivateAgent, archiveAgent, healthCheck, changeModel, updateSystemPrompt,
            adjustParams, toggleAgent, assignAgent, removeAgent, Change, Removal, Types, Fields, ChangeFits, Spending
<1>2. CASE \E m \in Models : c = updateAgent("model", m)
  <2>1. PICK m \in Models : c = updateAgent("model", m)  BY <1>2
  <2>2. m \in FieldValues  BY <2>1, <1>1
  <2> QED  BY <2>1, <2>2
<1>3. CASE \E m \in Models : c = updateAgent("params", m)
  <2>1. PICK m \in Models : c = updateAgent("params", m)  BY <1>3
  <2>2. m \in FieldValues  BY <2>1, <1>1
  <2> QED  BY <2>1, <2>2
<1>4. CASE \E b \in BOOLEAN : c = updateAgent("critical", b)
  <2>1. PICK b \in BOOLEAN : c = updateAgent("critical", b)  BY <1>4
  <2>2. b \in FieldValues  BY <2>1, <1>1
  <2> QED  BY <2>1, <2>2
<1>5. CASE \E b \in BOOLEAN : c = toggleAgent(b)
  <2>1. PICK b \in BOOLEAN : c = toggleAgent(b)  BY <1>5
  <2> QED  BY <2>1, <1>1
<1>6. CASE \E m \in Models : c = changeModel(m)
  <2>1. PICK m \in Models : c = changeModel(m)  BY <1>6
  <2>2. m \in FieldValues  BY <2>1, <1>1
  <2> QED  BY <2>1, <2>2
<1>7. CASE \E m \in Models : c = adjustParams(m)
  <2>1. PICK m \in Models : c = adjustParams(m)  BY <1>7
  <2>2. m \in FieldValues  BY <2>1, <1>1
  <2> QED  BY <2>1, <2>2
<1>8. CASE \E w \in Crews : c = assignAgent(w)
  <2>1. PICK w \in Crews : c = assignAgent(w)  BY <1>8
  <2>2. w \in FieldValues  BY <2>1, <1>1
  <2> QED  BY <2>1, <2>2
<1>9. CASE \E w \in Crews : c = removeAgent(w)
  <2>1. PICK w \in Crews : c = removeAgent(w)  BY <1>9
  <2>2. w \in FieldValues  BY <2>1, <1>1
  <2> QED  BY <2>1, <2>2
<1>10. CASE c = updateAgent("version", Nil)  BY <1>10, <1>1
<1>11. CASE c = deactivateAgent  BY <1>11, <1>1
<1>12. CASE c = archiveAgent  BY <1>12, <1>1
<1>13. CASE c = healthCheck  BY <1>13, <1>1
<1>14. CASE c = updateSystemPrompt  BY <1>14, <1>1
<1> HIDE DEF updateAgent, deactivateAgent, archiveAgent, healthCheck, changeModel, updateSystemPrompt,
             adjustParams, toggleAgent, assignAgent, removeAgent, Change, Removal, Types, Fields, ChangeFits, Spending
<1>15. c \in {updateAgent(f, m) : f \in {"model", "params"}, m \in Models}
         => \E m \in Models : c = updateAgent("model", m) \/ c = updateAgent("params", m)
  OBVIOUS
<1> QED  BY <1>15, <1>2, <1>3, <1>4, <1>5, <1>6, <1>7, <1>8, <1>9, <1>10, <1>11, <1>12, <1>13, <1>14 DEF Changes

\* One job moves, the others stay where they are.
LEMMA JobGoes ==
  ASSUME job \in [Jobs -> JobRow], NEW j \in Jobs, NEW e \in JobRow, job' = [job EXCEPT ![j] = e],
         \A k \in Jobs : JobOK(job[k], Len(budget)), Len(budget) \in Nat, Len(budget)' \in Nat,
         Len(budget)' >= Len(budget), JobOK(e, Len(budget)')
  PROVE  /\ job' \in [Jobs -> JobRow] /\ job'[j] = e /\ \A k \in Jobs \ {j} : job'[k] = job[k]
         /\ \A k \in Jobs : JobOK(job'[k], Len(budget)')
<1>1. job' \in [Jobs -> JobRow] /\ job'[j] = e /\ \A k \in Jobs \ {j} : job'[k] = job[k]  OBVIOUS
<1>2. ASSUME NEW k \in Jobs PROVE JobOK(job'[k], Len(budget)')
  <2>1. CASE k = j  BY <2>1, <1>1
  <2>2. CASE k # j
    <3>1. JobOK(job[k], Len(budget)) /\ job'[k] = job[k] /\ job[k].left \in Seq(BudgetRow)
      BY <1>1, <2>2 DEF JobRow
    <3> DEFINE r == job[k]  n == Len(budget)  m == Len(budget)'
    <3>2. r.seen \in 1..n => r.seen \in 1..m  OBVIOUS
    <3>3. r.seen \in 1..n /\ r.seen + Len(r.left) <= n + 1 => r.seen + Len(r.left) <= m + 1
      BY <3>1
    <3>4. JobOK(r, m)
      <4> HIDE DEF r, n, m
      <4> QED  BY <3>1, <3>2, <3>3 DEF JobOK, r, n, m
    <3> QED  BY <3>1, <3>4
  <2> QED  BY <2>1, <2>2
<1> QED  BY <1>1, <1>2

\* Prompt updates are not disturbed by a job that neither is about to write or log one, nor logs.
LEMMA NumbersStay ==
  ASSUME PortalTyped, UniqueNumbers, NEW j \in Jobs, NEW e,
         job'[j] = e, \A k \in Jobs \ {j} : job'[k] = job[k],
         ~ToWrite(e), ~ToLog(e), configLog' = configLog,
         agent.version \in Nat, agent'.version \in Nat, agent'.version >= agent.version
  PROVE  UniqueNumbers'
<1>1. Updates' = Updates  BY DEF Updates
<1>2. \A k \in Jobs : ToLog(job'[k]) => ToLog(job[k]) /\ job'[k] = job[k]
  BY DEF ToLog
<1>3. \A k \in Jobs : ToWrite(job'[k]) => ToWrite(job[k]) /\ job'[k] = job[k] /\ job[k].seen.version \in Nat
  <2>1. \A k \in Jobs : ToWrite(job[k]) => job[k].seen.version \in Nat
    BY DEF ToWrite, PortalTyped, JobOK, AgentRow, Unpause
  <2> QED  BY <2>1 DEF ToWrite
<1>4. \A k \in Jobs : ToLog(job[k]) => job[k].seen.version \in Nat
  BY DEF ToLog, PortalTyped, JobOK, AgentRow, Unpause
<1>5. \A i \in Updates : /\ configLog[i].from \in Nat /\ configLog[i].to \in Nat
                         /\ configLog[i].from < configLog[i].to /\ configLog[i].to <= agent'.version
                         /\ \A k \in Updates \ {i} : configLog[k].to # configLog[i].to
  BY DEF UniqueNumbers
<1>6. \A k \in Jobs : ToWrite(job'[k]) => job'[k].seen.version <= agent'.version
  BY <1>3 DEF UniqueNumbers
<1>7. ASSUME NEW k \in Jobs, ToLog(job'[k])
      PROVE  /\ job[k].do.field = "version" /\ job[k].do.to \in Nat
             /\ job[k].seen.version < job[k].do.to /\ job[k].do.to <= agent'.version
             /\ \A i \in Updates : configLog[i].to # job[k].do.to
             /\ \A l \in Jobs \ {k} : ToLog(job[l]) => job[l].do.to # job[k].do.to
  BY <1>2, <1>4, <1>7 DEF UniqueNumbers
<1> QED  BY <1>1, <1>2, <1>5, <1>6, <1>7 DEF UniqueNumbers

----------------------------------------------------------------------------
\* A job that touches no budget leaves what is known of the books, whatever it does to the agent
\* but to pause it.
LEMMA OthersKeep ==
  ASSUME PortalTyped, Kept, NEW j \in Jobs, NEW e,
         job'[j] = e, \A k \in Jobs \ {j} : job'[k] = job[k],
         j \notin SpendingInFlight, ~(e.at # "idle" /\ e.do.type \in Spending),
         UNCHANGED <<budget, books>>, agent'.status = agent.status \/ agent'.status # "PAUSED",
         ~mixed' => ~mixed
  PROVE  Kept'
<1> SUFFICES ASSUME ~mixed' PROVE
      /\ \A k, l \in SpendingInFlight' : k = l
      /\ Len(budget)' <= 1
      /\ SpendingInFlight' = {} => BooksAgree("idle")'
      /\ \A k \in SpendingInFlight' : BooksAgree(job[k].at)' /\ JobKept(job[k])'
  BY DEF Kept
<1>1. SpendingInFlight' = SpendingInFlight  BY DEF SpendingInFlight
<1>2. \A k \in SpendingInFlight : k \in Jobs /\ job'[k] = job[k]  BY DEF SpendingInFlight
<1>3. \A k \in SpendingInFlight : BooksAgree(job[k].at) /\ JobKept(job[k])  BY DEF Kept
<1>4. ASSUME NEW at, BooksAgree(at) PROVE BooksAgree(at)'
  BY <1>4 DEF BooksAgree
<1>5. \A k \in SpendingInFlight : JobKept(job[k])'
  BY <1>2, <1>3 DEF JobKept
<1>6. ASSUME NEW k \in SpendingInFlight PROVE BooksAgree(job[k].at)'
  <2>1. BooksAgree(job[k].at) /\ job'[k] = job[k]  BY <1>2, <1>3
  <2> QED  BY <2>1 DEF BooksAgree
<1>7. Len(budget)' <= 1 /\ (SpendingInFlight = {} => BooksAgree("idle"))  BY DEF Kept
<1>8. \A k, l \in SpendingInFlight : k = l  BY DEF Kept
<1> QED  BY <1>1, <1>4, <1>5, <1>6, <1>7, <1>8

\* A job that touches budgets is the only one, before its step and after it.
LEMMA OneKeeps ==
  ASSUME PortalTyped, Kept, NEW j \in Jobs, NEW e,
         job'[j] = e, \A k \in Jobs \ {j} : job'[k] = job[k],
         j \in SpendingInFlight, ~mixed' => ~mixed,
         e.at # "idle" => e.do.type \in Spending,
         ~mixed /\ Len(budget) <= 1 /\ BooksAgree(job[j].at) /\ JobKept(job[j])
           => Len(budget)' <= 1 /\ BooksAgree(job[j].at)' /\ JobKept(job[j])'
  PROVE  Kept'
<1> SUFFICES ASSUME ~mixed' PROVE
      /\ \A k, l \in SpendingInFlight' : k = l
      /\ Len(budget)' <= 1
      /\ SpendingInFlight' = {} => BooksAgree("idle")'
      /\ \A k \in SpendingInFlight' : BooksAgree(job[k].at)' /\ JobKept(job[k])'
  BY DEF Kept
<1>1. SpendingInFlight = {j}  BY DEF Kept
<1>2. IF e.at = "idle" THEN SpendingInFlight' = {} ELSE SpendingInFlight' = {j}
  BY <1>1 DEF SpendingInFlight
<1>3. Len(budget)' <= 1 /\ BooksAgree(job[j].at)' /\ JobKept(job[j])'  BY DEF Kept
<1>4. e.at = "idle" => BooksAgree("idle")'  BY <1>3 DEF BooksAgree
<1> QED  BY <1>2, <1>3, <1>4

\* A job that touches budgets begins when there is none, or they are mixed from then on.
LEMMA OneBegins ==
  ASSUME PortalTyped, Kept, NEW j \in Jobs, NEW e,
         job'[j] = e, \A k \in Jobs \ {j} : job'[k] = job[k],
         JobAt(j, "idle"), e.at # "idle", e.do.type \in Spending,
         mixed' = (mixed \/ SpendingInFlight # {}), UNCHANGED <<agent, budget, books>>,
         ~mixed /\ Len(budget) <= 1 /\ BooksAgree("idle") => BooksAgree(e.at) /\ JobKept(e)
  PROVE  Kept'
<1> SUFFICES ASSUME ~mixed' PROVE
      /\ \A k, l \in SpendingInFlight' : k = l
      /\ Len(budget)' <= 1
      /\ SpendingInFlight' = {} => BooksAgree("idle")'
      /\ \A k \in SpendingInFlight' : BooksAgree(job[k].at)' /\ JobKept(job[k])'
  BY DEF Kept
<1>1. SpendingInFlight = {} /\ SpendingInFlight' = {j}  BY DEF SpendingInFlight
<1>2. Len(budget) <= 1 /\ BooksAgree(e.at) /\ JobKept(e)  BY <1>1 DEF Kept
<1>3. BooksAgree(e.at) => BooksAgree(job[j].at)'  BY DEF BooksAgree
<1>4. JobKept(e) => JobKept(job[j])'  BY DEF JobKept
<1> QED  BY <1>1, <1>2, <1>3, <1>4

----------------------------------------------------------------------------
\* The steps of a job that changes the agent.  It finds the agent ...
LEMMA FindAgentStep ==
  ASSUME PortalAssumption, PortalInv, NEW j \in Jobs, NEW c \in Changes, FindAgent(j, c)
  PROVE  PortalInv'
<1> DEFINE e == [at |-> "write", do |-> c, seen |-> agent, left |-> <<>>]
<1>1. c \in Change \cup Removal /\ c.type # "UNPAUSE" /\ c.type \notin Spending /\ ChangeFits(c)  BY ChangesFit
<1>2. e \in JobRow
  <2>1. agent \in Seen /\ c \in Doing /\ <<>> \in Seq(BudgetRow)  BY <1>1 DEF PortalInv, PortalTyped, Seen, Doing
  <2> QED  BY <2>1 DEF JobRow, JobPlaces
<1>3. JobOK(e, Len(budget))  BY <1>1 DEF JobOK, PortalInv, PortalTyped
<1>4. job' = [job EXCEPT ![j] = e] /\ UNCHANGED <<agent, configLog, budget, books>>
      /\ begun' = begun + 1 /\ begun < MaxJobs /\ JobAt(j, "idle") /\ mixed' = mixed
  BY <1>1 DEF FindAgent, BeginJob, PortalInv, PortalTyped
<1>5. Len(budget) \in Nat  BY DEF PortalInv, PortalTyped
<1>6. e.at = "write" /\ e.do = c /\ e.seen = agent  OBVIOUS
<1> HIDE DEF e
<1>7. /\ job' \in [Jobs -> JobRow] /\ job'[j] = e /\ \A k \in Jobs \ {j} : job'[k] = job[k]
      /\ \A k \in Jobs : JobOK(job'[k], Len(budget)')
  BY <1>2, <1>3, <1>4, <1>5, JobGoes DEF PortalInv, PortalTyped
<1>8. PortalTyped'  BY <1>4, <1>7 DEF PortalInv, PortalTyped, PortalAssumption
<1>9. UniqueNumbers'
  <2>1. Updates' = Updates  BY <1>4 DEF Updates
  <2>2. \A k \in Jobs : ToLog(job'[k]) => ToLog(job[k]) /\ job'[k] = job[k]  BY <1>6, <1>7 DEF ToLog
  <2>3. agent.version \in Nat  BY DEF PortalInv, PortalTyped, AgentRow
  <2>4. \A k \in Jobs : ToWrite(job'[k]) => job'[k].seen.version <= agent.version
    BY <1>6, <1>7, <2>3 DEF ToWrite, PortalInv, UniqueNumbers
  <2>5. ASSUME NEW k \in Jobs, ToLog(job'[k])
        PROVE  /\ job[k].do.field = "version" /\ job[k].do.to \in Nat
               /\ job[k].seen.version < job[k].do.to /\ job[k].do.to <= agent.version
               /\ \A i \in Updates : configLog[i].to # job[k].do.to
               /\ \A l \in Jobs \ {k} : ToLog(job[l]) => job[l].do.to # job[k].do.to
    BY <2>2, <2>5 DEF PortalInv, UniqueNumbers
  <2> QED  BY <1>4, <2>1, <2>2, <2>4, <2>5 DEF PortalInv, UniqueNumbers
<1>10. j \notin SpendingInFlight  BY <1>4 DEF SpendingInFlight, JobAt
<1>11. Kept'  BY <1>1, <1>4, <1>6, <1>7, <1>10, OthersKeep DEF PortalInv
<1> QED  BY <1>8, <1>9, <1>11 DEF PortalInv

\* ... what it writes to it fits its row, and the version grows with each prompt that is written ...
LEMMA RowFits ==
  ASSUME NEW a \in AgentRow, NEW c, c \in Change \cup Removal, ChangeFits(c), NEW to,
         to = IF c.field = "version" THEN a.version + 1 ELSE c.to
  PROVE  /\ [a EXCEPT ![c.field] = to] \in AgentRow /\ to \in FieldValues
         /\ [a EXCEPT ![c.field] = to].version = IF c.field = "version" THEN a.version + 1 ELSE a.version
         /\ [a EXCEPT ![c.field] = to].status = (IF c.field = "status" THEN to ELSE a.status)
         /\ c.field = "status" => to # "PAUSED"
<1>1. c.field \in Fields  BY DEF Change, Removal, Fields
<1>2. a.version \in Nat \ {0}  BY DEF AgentRow
<1>3. to \in FieldValues
  <2>1. Nil \in FieldValues /\ Nat \subseteq FieldValues  BY DEF FieldValues
  <2>2. c.to \in FieldValues  BY <2>1 DEF Change, Removal
  <2> QED  BY <1>2, <2>1, <2>2
<1> DEFINE f == c.field
<1>4. CASE f = "version"
  <2>1. to \in Nat \ {0} /\ to = a.version + 1  BY <1>2, <1>4
  <2>2. [a EXCEPT !["version"] = to] \in AgentRow  BY <2>1 DEF AgentRow
  <2> QED  BY <1>3, <1>4, <2>1, <2>2 DEF AgentRow
<1>5. CASE f = "status"  BY <1>3, <1>5 DEF AgentRow, ChangeFits
<1>6. CASE f = "model"  BY <1>3, <1>6 DEF AgentRow, ChangeFits
<1>7. CASE f = "params"  BY <1>3, <1>7 DEF AgentRow, ChangeFits
<1>8. CASE f = "crew"  BY <1>3, <1>8 DEF AgentRow, ChangeFits
<1>9. CASE f = "critical"  BY <1>3, <1>9 DEF AgentRow, ChangeFits
<1>10. CASE f = "health"  BY <1>3, <1>10 DEF AgentRow, ChangeFits
<1> QED  BY <1>1, <1>4, <1>5, <1>6, <1>7, <1>8, <1>9, <1>10 DEF Fields

LEMMA WriteAgentStep ==
  ASSUME PortalAssumption, PortalInv, NEW j \in Jobs, WriteAgent(j)
  PROVE  PortalInv'
<1> DEFINE c == job[j].do
           to == IF c.field = "version" THEN agent.version + 1 ELSE c.to
           w == [at |-> IF c.type = "UNPAUSE" THEN "resume" ELSE "log", do |-> [c EXCEPT !.to = to],
                 seen |-> job[j].seen, left |-> job[j].left]
           e == IF Logged(c) THEN w ELSE Idle
<1>1. job[j] \in JobRow /\ job[j].at = "write" /\ JobOK(job[j], Len(budget)) /\ agent \in AgentRow /\ Len(budget) \in Nat
      /\ job \in [Jobs -> JobRow]
  BY DEF PortalInv, PortalTyped, WriteAgent, JobAt
<1>2. /\ c \in Change \cup Removal /\ ChangeFits(c)
      /\ c.type # "UNPAUSE" => job[j].seen \in AgentRow
      /\ c.type = "UNPAUSE" => c = Unpause /\ job[j].seen = [status |-> "PAUSED"]
  <2>1. Unpause \in Change /\ ChangeFits(Unpause) /\ Unpause.type = "UNPAUSE"
    BY DEF Unpause, Change, Types, Fields, FieldValues, ChangeFits
  <2> QED  BY <1>1, <2>1 DEF JobOK
<1>3. /\ agent' = [agent EXCEPT ![c.field] = to] /\ UNCHANGED <<configLog, budget, books, begun, mixed>>
      /\ job' = [job EXCEPT ![j] = e]
  <2>1. job[j] = [at |-> job[j].at, do |-> job[j].do, seen |-> job[j].seen, left |-> job[j].left]
    BY <1>1 DEF JobRow
  <2> QED  BY <1>1, <2>1 DEF WriteAgent, Continues, JobEnds, NextVersion, JobRow
<1> HIDE DEF to
<1>4. /\ [agent EXCEPT ![c.field] = to] \in AgentRow /\ to \in FieldValues
      /\ [agent EXCEPT ![c.field] = to].version = IF c.field = "version" THEN agent.version + 1 ELSE agent.version
      /\ [agent EXCEPT ![c.field] = to].status = (IF c.field = "status" THEN to ELSE agent.status)
      /\ c.field = "status" => to # "PAUSED"
  BY <1>1, <1>2, RowFits DEF to
<1>5. Logged(c) => c \in Change /\ [c EXCEPT !.to = to] \in Change /\ [c EXCEPT !.to = to].type = c.type
                   /\ [c EXCEPT !.to = to].field = c.field /\ [c EXCEPT !.to = to].to = to
  BY <1>2, <1>4 DEF Logged, Change, Removal
<1>6. Logged(c) /\ c.type = "UNPAUSE" => [c EXCEPT !.to = to] = Unpause
  BY <1>2 DEF Unpause, to
<1>7. e \in JobRow /\ JobOK(e, Len(budget))
  <2>1. CASE ~Logged(c)
    BY <2>1 DEF Idle, JobRow, JobPlaces, Doing, Seen, JobOK
  <2>2. CASE Logged(c)
    <3> DEFINE d == [c EXCEPT !.to = to]
    <3>1. d \in Change /\ d.type = c.type /\ (c.type = "UNPAUSE" => d = Unpause)  BY <2>2, <1>5, <1>6
    <3>2. e = [at |-> IF c.type = "UNPAUSE" THEN "resume" ELSE "log", do |-> d,
                 seen |-> job[j].seen, left |-> job[j].left]
      BY <2>2
    <3> HIDE DEF d, e
    <3>3. d \in Doing /\ job[j].seen \in Seen /\ job[j].left \in Seq(BudgetRow)  BY <1>1, <3>1 DEF Doing, JobRow
    <3>4. e \in JobRow  BY <3>2, <3>3 DEF JobRow, JobPlaces
    <3> QED  BY <1>2, <3>1, <3>2, <3>4 DEF JobOK
  <2> QED  BY <2>1, <2>2
<1>8. ToLog(e) => /\ c.type = "PROMPT_UPDATE" /\ e.do.to = to /\ e.do.field = c.field /\ e.seen = job[j].seen
  BY <1>5 DEF ToLog, Idle
<1>9. e.at # "idle" => e.do.type = c.type /\ Logged(c) /\ e.at \in {"log", "resume"}  BY <1>5 DEF Idle
<1>10. ~ToWrite(e) /\ (c.type = "UNPAUSE" => e.at = "resume" /\ to # "PAUSED" /\ c.field = "status")
  BY <1>2, <1>9, <1>4 DEF ToWrite, Logged, Idle, Unpause
<1> HIDE DEF e
<1>11. /\ job'[j] = e /\ \A k \in Jobs \ {j} : job'[k] = job[k]
       /\ job' \in [Jobs -> JobRow] /\ \A k \in Jobs : JobOK(job'[k], Len(budget)')
  BY <1>1, <1>3, <1>7, JobGoes DEF PortalInv, PortalTyped
<1>12. PortalTyped'  BY <1>3, <1>4, <1>11 DEF PortalInv, PortalTyped
<1>13. agent.version \in Nat /\ agent'.version \in Nat /\ agent'.version >= agent.version
       /\ agent'.status = (IF c.field = "status" THEN to ELSE agent.status)
  BY <1>1, <1>3, <1>4 DEF AgentRow
<1>14. UniqueNumbers'
  <2>1. CASE ~ToLog(e)
    BY <2>1, <1>3, <1>10, <1>11, <1>13, NumbersStay DEF PortalInv
  <2>2. CASE ToLog(e)
    <3>1. Updates' = Updates /\ configLog' = configLog  BY <1>3 DEF Updates
    <3>2. c.field = "version" /\ job[j].seen.version \in Nat /\ job[j].seen.version <= agent.version /\ c.type = "PROMPT_UPDATE"
      BY <1>1, <1>2, <1>8, <2>2 DEF PortalInv, UniqueNumbers, ToWrite, ChangeFits, AgentRow
    <3>3. to = agent.version + 1 /\ agent'.version = to
      BY <1>3, <1>4, <3>2 DEF to
    <3>4. \A k \in Jobs \ {j} : (ToLog(job'[k]) <=> ToLog(job[k])) /\ (ToWrite(job'[k]) <=> ToWrite(job[k]))
      BY <1>11
    <3>5. \A i \in Updates : /\ configLog[i].from \in Nat /\ configLog[i].to \in Nat
                             /\ configLog[i].from < configLog[i].to /\ configLog[i].to < to
                             /\ \A k \in Updates \ {i} : configLog[k].to # configLog[i].to
      BY <1>13, <3>3 DEF PortalInv, UniqueNumbers
    <3>6. \A k \in Jobs : ToWrite(job'[k]) => job'[k].seen.version <= agent'.version
      <4>1. \A k \in Jobs : ToWrite(job[k]) => job[k].seen.version \in Nat
        BY DEF ToWrite, PortalInv, PortalTyped, JobOK, AgentRow, Unpause
      <4> QED  BY <4>1, <3>4, <1>10, <1>11, <1>13 DEF PortalInv, UniqueNumbers
    <3>7. \A k \in Jobs \ {j} : ToLog(job[k]) =>
            /\ job[k].do.field = "version" /\ job[k].do.to \in Nat
            /\ job[k].seen.version < job[k].do.to /\ job[k].do.to < to
            /\ \A i \in Updates : configLog[i].to # job[k].do.to
            /\ \A l \in Jobs \ {k} : ToLog(job[l]) => job[l].do.to # job[k].do.to
      BY <1>13, <3>3 DEF PortalInv, UniqueNumbers
    <3>8. ASSUME NEW k \in Jobs, ToLog(job'[k])
          PROVE  /\ job'[k].do.field = "version" /\ job'[k].do.to \in Nat
                 /\ job'[k].seen.version < job'[k].do.to /\ job'[k].do.to <= agent'.version
                 /\ \A i \in Updates : configLog[i].to # job'[k].do.to
                 /\ \A l \in Jobs \ {k} : ToLog(job'[l]) => job'[l].do.to # job'[k].do.to
      <4>1. CASE k = j
        BY <4>1, <1>8, <1>11, <1>13, <2>2, <3>2, <3>3, <3>4, <3>5, <3>7
      <4>2. CASE k # j
        <5>1. ToLog(job[k]) /\ job'[k] = job[k]  BY <3>8, <3>4, <4>2, <1>11
        <5>2. \A l \in Jobs \ {k} : ToLog(job'[l]) => job'[l].do.to # job[k].do.to
          BY <5>1, <4>2, <1>8, <1>11, <1>13, <2>2, <3>3, <3>4, <3>7
        <5> QED  BY <5>1, <5>2, <4>2, <3>3, <3>7, <1>13
      <4> QED  BY <4>1, <4>2
    <3>9. \A i \in Updates : configLog[i].to <= agent'.version  BY <3>3, <3>5, <1>13
    <3> HIDE DEF c
    <3> QED  BY <3>1, <3>5, <3>6, <3>8, <3>9 DEF UniqueNumbers
  <2> QED  BY <2>1, <2>2
<1>15. Kept'
  <2>1. CASE c.type \notin Spending
    <3>1. j \notin SpendingInFlight  BY <2>1 DEF SpendingInFlight
    <3> QED  BY <2>1, <3>1, <1>3, <1>4, <1>9, <1>11, <1>13, OthersKeep DEF PortalInv
  <2>2. CASE c.type \in Spending
    <3>1. c.type = "UNPAUSE"
      BY <2>2, <1>2 DEF Spending, Change, Removal, Types
    <3>2. j \in SpendingInFlight  BY <1>1, <2>2 DEF SpendingInFlight
    <3>3. e.at = "resume" /\ agent'.status # "PAUSED" /\ e.do.type \in Spending
      BY <1>9, <1>10, <1>13, <3>1, <2>2
    <3>4. BooksAgree(job[j].at) => BooksAgree(job[j].at)'
      BY <1>1, <1>3, <1>11, <3>3 DEF BooksAgree
    <3>5. JobKept(job[j])'  BY <1>11, <3>3 DEF JobKept
    <3> QED  BY <1>3, <1>11, <3>2, <3>3, <3>4, <3>5, OneKeeps DEF PortalInv
  <2> QED  BY <2>1, <2>2
<1> QED  BY <1>12, <1>14, <1>15 DEF PortalInv

\* ... and the log takes one entry more, with a number no other has.
LEMMA WriteConfigLogStep ==
  ASSUME PortalAssumption, PortalInv, NEW j \in Jobs, WriteConfigLog(j)
  PROVE  PortalInv'
<1> DEFINE c == job[j].do  new == Entry(c, job[j].seen)
<1>1. /\ job[j] \in JobRow /\ job[j].at = "log" /\ JobOK(job[j], Len(budget)) /\ Len(budget) \in Nat
      /\ job \in [Jobs -> JobRow] /\ job' = [job EXCEPT ![j] = Idle] /\ configLog \in Seq(LogRow)
      /\ configLog' = Append(configLog, new) /\ UNCHANGED <<agent, budget, books, begun, mixed>>
  BY DEF PortalInv, PortalTyped, WriteConfigLog, JobAt, JobEnds, Continues
<1>2. Idle \in JobRow /\ JobOK(Idle, Len(budget)) /\ ~ToLog(Idle) /\ ~ToWrite(Idle) /\ Idle.at = "idle"
  BY DEF Idle, JobRow, JobPlaces, Doing, Seen, JobOK, ToLog, ToWrite
<1> HIDE DEF new
<1>3. /\ job' \in [Jobs -> JobRow] /\ job'[j] = Idle /\ \A k \in Jobs \ {j} : job'[k] = job[k]
      /\ \A k \in Jobs : JobOK(job'[k], Len(budget)')
  BY <1>1, <1>2, JobGoes DEF PortalInv, PortalTyped
<1>4. \/ c \in Change /\ job[j].seen \in AgentRow
      \/ c = Unpause /\ job[j].seen = [status |-> "PAUSED"]
  BY <1>1 DEF JobOK
<1>5. /\ new \in LogRow /\ new.type = c.type
      /\ c.type = "PROMPT_UPDATE" /\ c.field = "version" => new.to = c.to /\ new.from = job[j].seen.version
  <2>1. "encrypted" \in FieldValues /\ "PAUSED" \in FieldValues /\ "ACTIVE" \in FieldValues  BY DEF FieldValues
  <2>2. CASE c \in Change /\ job[j].seen \in AgentRow
    <3> DEFINE seen == job[j].seen
    <3>1. seen.status \in FieldValues /\ seen.model \in FieldValues /\ seen.params \in FieldValues /\ seen.version \in FieldValues
      BY <2>2 DEF AgentRow, FieldValues
    <3>2. seen.crew \in FieldValues /\ seen.critical \in FieldValues /\ seen.health \in FieldValues
      BY <2>2 DEF AgentRow, FieldValues
    <3>3. seen[c.field] \in FieldValues /\ c.type \in Types /\ c.field \in Fields /\ c.to \in FieldValues
      BY <2>2, <3>1, <3>2 DEF Change, Fields
    <3>4. new \in LogRow /\ new.type = c.type
      BY <2>1, <3>3 DEF LogRow, Entry, new
    <3>5. c.type = "PROMPT_UPDATE" => c # updateAgent("version", c.to)
      BY DEF updateAgent
    <3> QED  BY <3>4, <3>5 DEF Entry, new
  <2>3. CASE c = Unpause /\ job[j].seen = [status |-> "PAUSED"]
    BY <2>1, <2>3 DEF LogRow, Entry, new, Unpause, updateAgent, Types, Fields
  <2> QED  BY <1>4, <2>2, <2>3
<1>6. PortalTyped'  BY <1>1, <1>3, <1>5 DEF PortalInv, PortalTyped
<1>7. UniqueNumbers'
  <2> DEFINE n == Len(configLog) + 1
  <2>1. /\ configLog' \in Seq(LogRow) /\ Len(configLog') = n /\ configLog'[n] = new /\ n \notin DOMAIN configLog
        /\ DOMAIN configLog' = DOMAIN configLog \cup {n}
        /\ \A i \in DOMAIN configLog : configLog'[i] = configLog[i]
    BY <1>1, <1>5
  <2> HIDE DEF n
  <2>2. Updates' = Updates \cup (IF new.type = "PROMPT_UPDATE" THEN {n} ELSE {}) /\ n \notin Updates
    BY <2>1 DEF Updates
  <2>3. \A i \in Updates : configLog'[i] = configLog[i]  BY <2>1 DEF Updates
  <2>4. \A k \in Jobs : ToLog(job'[k]) => ToLog(job[k]) /\ job'[k] = job[k] /\ k # j  BY <1>2, <1>3
  <2>5. \A k \in Jobs : ToWrite(job'[k]) => ToWrite(job[k]) /\ job'[k] = job[k]  BY <1>2, <1>3
  <2>6. agent.version \in Nat /\ agent' = agent  BY <1>1 DEF PortalInv, PortalTyped, AgentRow
  <2>7. CASE new.type # "PROMPT_UPDATE"
    <3>1. Updates' = Updates  BY <2>2, <2>7
    <3>2. \A i \in Updates' : /\ configLog'[i].from \in Nat /\ configLog'[i].to \in Nat
                         /\ configLog'[i].from < configLog'[i].to /\ configLog'[i].to <= agent'.version
                         /\ \A k \in Updates' \ {i} : configLog'[k].to # configLog'[i].to
      BY <3>1, <2>3, <2>6 DEF PortalInv, UniqueNumbers
    <3>3. ASSUME NEW k \in Jobs, ToLog(job'[k])
          PROVE  /\ job'[k].do.field = "version" /\ job'[k].do.to \in Nat
                 /\ job'[k].seen.version < job'[k].do.to /\ job'[k].do.to <= agent'.version
                 /\ \A i \in Updates' : configLog'[i].to # job'[k].do.to
                 /\ \A l \in Jobs \ {k} : ToLog(job'[l]) => job'[l].do.to # job'[k].do.to
      <4>1. ToLog(job[k]) /\ job'[k] = job[k]  BY <2>4, <3>3
      <4> QED  BY <4>1, <3>1, <2>3, <2>4, <2>6 DEF PortalInv, UniqueNumbers
    <3> QED  BY <3>2, <3>3, <2>5, <2>6 DEF PortalInv, UniqueNumbers
  <2>8. CASE new.type = "PROMPT_UPDATE"
    <3>1. /\ c.field = "version" /\ c.to \in Nat /\ new.to = c.to /\ new.from = job[j].seen.version
          /\ new.from < new.to /\ new.to <= agent.version /\ ToLog(job[j])
          /\ \A i \in Updates : configLog[i].to # new.to
          /\ \A l \in Jobs \ {j} : ToLog(job[l]) => job[l].do.to # new.to
      BY <2>8, <1>1, <1>5 DEF ToLog, PortalInv, UniqueNumbers
    <3>2. new.from \in Nat
      BY <1>1, <1>4, <1>5, <2>8, <3>1 DEF AgentRow, Unpause
    <3>3. Updates' = Updates \cup {n}  BY <2>2, <2>8
    <3>4. \A i \in Updates' : /\ configLog'[i].from \in Nat /\ configLog'[i].to \in Nat
                         /\ configLog'[i].from < configLog'[i].to /\ configLog'[i].to <= agent'.version
                         /\ \A k \in Updates' \ {i} : configLog'[k].to # configLog'[i].to
      BY <3>1, <3>2, <3>3, <2>1, <2>2, <2>3, <2>6 DEF PortalInv, UniqueNumbers
    <3>5. ASSUME NEW k \in Jobs, ToLog(job'[k])
          PROVE  /\ job'[k].do.field = "version" /\ job'[k].do.to \in Nat
                 /\ job'[k].seen.version < job'[k].do.to /\ job'[k].do.to <= agent'.version
                 /\ \A i \in Updates' : configLog'[i].to # job'[k].do.to
                 /\ \A l \in Jobs \ {k} : ToLog(job'[l]) => job'[l].do.to # job'[k].do.to
      <4>1. ToLog(job[k]) /\ job'[k] = job[k] /\ k # j  BY <2>4, <3>5
      <4> QED  BY <4>1, <3>1, <3>3, <2>1, <2>3, <2>4, <2>6 DEF PortalInv, UniqueNumbers
    <3> QED  BY <3>4, <3>5, <2>5, <2>6 DEF PortalInv, UniqueNumbers
  <2> QED  BY <2>7, <2>8
<1>8. Kept'
  <2>1. CASE c.type \notin Spending
    <3>1. j \notin SpendingInFlight  BY <2>1 DEF SpendingInFlight
    <3> QED  BY <3>1, <1>1, <1>2, <1>3, OthersKeep DEF PortalInv
  <2>2. CASE c.type \in Spending
    <3>1. j \in SpendingInFlight  BY <1>1, <2>2 DEF SpendingInFlight
    <3>2. BooksAgree(job[j].at) => BooksAgree(job[j].at)' /\ JobKept(job[j])'
      BY <1>1, <1>2, <1>3 DEF BooksAgree, JobKept
    <3> QED  BY <3>1, <3>2, <1>1, <1>2, <1>3, OneKeeps DEF PortalInv
  <2> QED  BY <2>1, <2>2
<1> QED  BY <1>6, <1>7, <1>8 DEF PortalInv

----------------------------------------------------------------------------
\* A job moves on without disturbing the numbers of prompts.
LEMMA JobPasses ==
  ASSUME PortalAssumption, PortalInv, NEW j \in Jobs, NEW e \in JobRow, job' = [job EXCEPT ![j] = e],
         JobOK(e, Len(budget)'), ~ToWrite(e), ~ToLog(e), configLog' = configLog,
         agent' \in AgentRow, agent'.version = agent.version,
         budget' \in Seq(BudgetRow), Len(budget)' >= Len(budget),
         books' \in [sessions : Nat, ledger : Nat, stats : Nat], begun' \in 0..MaxJobs, mixed' \in BOOLEAN
  PROVE  /\ PortalTyped' /\ UniqueNumbers'
         /\ job'[j] = e /\ \A k \in Jobs \ {j} : job'[k] = job[k]
<1>1. Len(budget) \in Nat /\ Len(budget)' \in Nat  BY DEF PortalInv, PortalTyped
<1>2. /\ job' \in [Jobs -> JobRow] /\ job'[j] = e /\ \A k \in Jobs \ {j} : job'[k] = job[k]
      /\ \A k \in Jobs : JobOK(job'[k], Len(budget)')
  BY <1>1, JobGoes DEF PortalInv, PortalTyped
<1>3. PortalTyped'  BY <1>2 DEF PortalInv, PortalTyped
<1>4. agent.version \in Nat /\ agent'.version \in Nat /\ agent'.version >= agent.version
  BY DEF PortalInv, PortalTyped, AgentRow
<1>5. UniqueNumbers'  BY <1>2, <1>4, NumbersStay DEF PortalInv
<1> QED  BY <1>2, <1>3, <1>5

\* A job that ends is like one that has never begun.
LEMMA IdleFits ==
  Idle \in JobRow /\ ~ToLog(Idle) /\ ~ToWrite(Idle) /\ Idle.at = "idle" /\ \A n \in Nat : JobOK(Idle, n)
BY DEF Idle, JobRow, JobPlaces, Doing, Seen, JobOK, ToLog, ToWrite

\* A call fails.
LEMMA JobFaultStep ==
  ASSUME PortalAssumption, PortalInv, NEW j \in Jobs, JobFault(j)
  PROVE  PortalInv'
<1>1. /\ UNCHANGED <<agent, configLog, budget, books>> /\ begun < MaxJobs /\ begun' = begun + 1 /\ mixed \in BOOLEAN
      /\ mixed' = (mixed \/ job[j].do.type \in Spending) /\ job' = [job EXCEPT ![j] = Idle] /\ begun \in Nat
      /\ budget \in Seq(BudgetRow) /\ Len(budget) \in Nat /\ agent \in AgentRow
      /\ books \in [sessions : Nat, ledger : Nat, stats : Nat] /\ job[j].at # "idle"
  BY DEF JobFault, JobEnds, PortalInv, PortalTyped, JobAt
<1>4. /\ agent' \in AgentRow /\ agent'.version = agent.version /\ budget' \in Seq(BudgetRow) /\ Len(budget)' >= Len(budget)
       /\ books' \in [sessions : Nat, ledger : Nat, stats : Nat] /\ begun' \in 0..MaxJobs /\ mixed' \in BOOLEAN
       /\ JobOK(Idle, Len(budget)') /\ configLog' = configLog
  BY <1>1, IdleFits DEF PortalAssumption
<1>2. /\ PortalTyped' /\ UniqueNumbers'
      /\ job'[j] = Idle /\ \A k \in Jobs \ {j} : job'[k] = job[k]
  BY <1>1, <1>4, IdleFits, JobPasses
<1>3. Kept'
  <2>1. CASE job[j].do.type \in Spending  BY <1>1, <2>1 DEF Kept
  <2>2. CASE job[j].do.type \notin Spending
    <3>1. j \notin SpendingInFlight  BY <2>2 DEF SpendingInFlight
    <3> QED  BY <3>1, <1>1, <1>2, <2>2, IdleFits, OthersKeep DEF PortalInv
  <2> QED  BY <2>1, <2>2
<1> QED  BY <1>2, <1>3 DEF PortalInv

\* A job that touches budgets begins.
LEMMA SpendingBegins ==
  ASSUME PortalAssumption, PortalInv, NEW j \in Jobs, NEW do \in Doing, NEW at \in JobPlaces, NEW seen \in Seen,
         BeginJob(j, do, at, seen), UNCHANGED <<agent, configLog, budget, books>>,
         at \in {"budget", "write", "session"}, do.type \in Spending,
         JobOK([at |-> at, do |-> do, seen |-> seen, left |-> <<>>], Len(budget)),
         at = "budget" /\ Len(budget) <= 1 => seen = IF budget = <<>> THEN Nil ELSE 1
  PROVE  PortalInv'
<1> DEFINE e == [at |-> at, do |-> do, seen |-> seen, left |-> <<>>]
<1>1. e \in JobRow
  <2>1. <<>> \in Seq(BudgetRow)  OBVIOUS
  <2> QED  BY <2>1 DEF JobRow
<1>2. e.at = at /\ e.do = do /\ e.seen = seen  OBVIOUS
<1>3. JobOK(e, Len(budget))  OBVIOUS
<1>4. job' = [job EXCEPT ![j] = e]  BY DEF BeginJob
<1> HIDE DEF e
<1>5. /\ begun < MaxJobs /\ begun' = begun + 1 /\ mixed' = (mixed \/ SpendingInFlight # {}) /\ mixed \in BOOLEAN
      /\ budget \in Seq(BudgetRow) /\ Len(budget) \in Nat /\ agent \in AgentRow /\ begun \in Nat
      /\ books \in [sessions : Nat, ledger : Nat, stats : Nat] /\ JobAt(j, "idle")
  BY DEF BeginJob, PortalInv, PortalTyped
<1>6. ~ToWrite(e) /\ ~ToLog(e)  BY <1>2 DEF ToWrite, ToLog, Spending
<1>11. /\ agent' \in AgentRow /\ agent'.version = agent.version /\ budget' \in Seq(BudgetRow) /\ Len(budget)' >= Len(budget)
       /\ books' \in [sessions : Nat, ledger : Nat, stats : Nat] /\ begun' \in 0..MaxJobs /\ mixed' \in BOOLEAN
       /\ JobOK(e, Len(budget)') /\ configLog' = configLog
  BY <1>3, <1>5 DEF PortalAssumption
<1>7. /\ PortalTyped' /\ UniqueNumbers'
      /\ job'[j] = e /\ \A k \in Jobs \ {j} : job'[k] = job[k]
  BY <1>1, <1>4, <1>6, <1>11, JobPasses
<1>8. BooksAgree("idle") => BooksAgree(e.at)
  BY <1>2 DEF BooksAgree
<1>9. Len(budget) <= 1 => JobKept(e)
  BY <1>2 DEF JobKept
<1>10. Kept'
  BY <1>2, <1>5, <1>7, <1>8, <1>9, OneBegins DEF PortalInv
<1> QED  BY <1>7, <1>10 DEF PortalInv

LEMMA BeginSteps ==
  ASSUME PortalAssumption, PortalInv, NEW j \in Jobs,
         (\E cap \in Caps : FindBudget(j, cap)) \/ FindPaused(j) \/ StartSession(j)
  PROVE  PortalInv'
<1>0. budget \in Seq(BudgetRow)  BY DEF PortalInv, PortalTyped
<1>1. ASSUME NEW cap \in Caps, FindBudget(j, cap) PROVE PortalInv'
  <2> DEFINE do == [type |-> "BUDGET", cap |-> cap]
  <2>1. PICK row \in (IF budget = <<>> THEN {Nil} ELSE DOMAIN budget) : BeginJob(j, do, "budget", row)
    BY <1>1 DEF FindBudget
  <2>2. do \in Doing /\ do.type \in Spending /\ do \in [type : {"BUDGET"}, cap : Caps]  BY DEF Doing, Spending
  <2> HIDE DEF do
  <2>3. row \in Seen /\ row \in {Nil} \cup 1..Len(budget)  BY <1>0 DEF Seen
  <2>4. Len(budget) <= 1 => row = IF budget = <<>> THEN Nil ELSE 1  BY <1>0
  <2>5. JobOK([at |-> "budget", do |-> do, seen |-> row, left |-> <<>>], Len(budget))  BY <2>2, <2>3 DEF JobOK
  <2>6. UNCHANGED <<agent, configLog, budget, books>>  BY <1>1 DEF FindBudget
  <2> QED  BY <2>1, <2>2, <2>3, <2>4, <2>5, <2>6, SpendingBegins DEF JobPlaces
<1>2. CASE FindPaused(j)
  <2>1. BeginJob(j, Unpause, "write", [status |-> "PAUSED"]) /\ UNCHANGED <<agent, configLog, budget, books>>
    BY <1>2 DEF FindPaused, Unpause
  <2>2. Unpause \in Doing /\ Unpause.type \in Spending /\ [status |-> "PAUSED"] \in Seen
    BY DEF Unpause, Doing, Change, Types, Fields, FieldValues, Spending, Seen
  <2>3. JobOK([at |-> "write", do |-> Unpause, seen |-> [status |-> "PAUSED"], left |-> <<>>], Len(budget))
    BY DEF JobOK
  <2> QED  BY <2>1, <2>2, <2>3, SpendingBegins DEF JobPlaces
<1>3. CASE StartSession(j)
  <2> DEFINE do == [type |-> "SESSION"]
  <2>1. BeginJob(j, do, "session", Nil) /\ UNCHANGED <<agent, configLog, budget, books>>
    BY <1>3 DEF StartSession
  <2>2. do \in Doing /\ do.type \in Spending /\ Nil \in Seen  BY DEF Doing, Spending, Seen
  <2>3. JobOK([at |-> "session", do |-> do, seen |-> Nil, left |-> <<>>], Len(budget))  BY DEF JobOK
  <2> HIDE DEF do
  <2> QED  BY <2>1, <2>2, <2>3, SpendingBegins DEF JobPlaces
<1> QED  BY <1>1, <1>2, <1>3

----------------------------------------------------------------------------
\* A job that touches budgets takes a step: the others keep their place, and when it is the
\* only one the books have to agree again.
LEMMA SpendingMoves ==
  ASSUME PortalAssumption, PortalInv, NEW j \in Jobs, NEW e \in JobRow, job' = [job EXCEPT ![j] = e],
         job[j].at # "idle", job[j].do.type \in Spending, e.at = "idle" \/ e.do = job[j].do,
         JobOK(e, Len(budget)'), UNCHANGED <<configLog, begun, mixed>>,
         agent' \in AgentRow, agent'.version = agent.version,
         budget' \in Seq(BudgetRow), Len(budget)' >= Len(budget),
         books' \in [sessions : Nat, ledger : Nat, stats : Nat],
         ~mixed /\ Len(budget) <= 1 /\ BooksAgree(job[j].at) /\ JobKept(job[j]) /\ job'[j] = e
           => Len(budget)' <= 1 /\ BooksAgree(job[j].at)' /\ JobKept(job[j])'
  PROVE  PortalInv'
<1>1. j \in SpendingInFlight  BY DEF SpendingInFlight
<1>2. e.at # "idle" => e.do.type \in Spending  OBVIOUS
<1>3. ~ToWrite(e) /\ ~ToLog(e)  BY DEF ToWrite, ToLog, Spending
<1>4. begun' \in 0..MaxJobs /\ mixed' \in BOOLEAN  BY DEF PortalInv, PortalTyped
<1>5. /\ PortalTyped' /\ UniqueNumbers'
      /\ job'[j] = e /\ \A k \in Jobs \ {j} : job'[k] = job[k]
  BY <1>3, <1>4, JobPasses
<1>6. Kept'  BY <1>1, <1>2, <1>5, OneKeeps DEF PortalInv
<1> QED  BY <1>5, <1>6 DEF PortalInv

\* What is known of the rows, to type what is written to them.
LEMMA PortalRows ==
  ASSUME PortalAssumption, PortalInv, NEW j \in Jobs
  PROVE  /\ agent \in AgentRow /\ budget \in Seq(BudgetRow) /\ Len(budget) \in Nat
         /\ books \in [sessions : Nat, ledger : Nat, stats : Nat] /\ SessionCost \in Nat
         /\ books.sessions \in Nat /\ books.ledger \in Nat /\ books.stats \in Nat
         /\ \A i \in DOMAIN budget : budget[i] \in BudgetRow /\ budget[i].spend \in Nat /\ budget[i].since \in Nat
         /\ job[j] \in JobRow /\ JobOK(job[j], Len(budget))
<1>1. budget \in Seq(BudgetRow) /\ books \in [sessions : Nat, ledger : Nat, stats : Nat]
  BY DEF PortalInv, PortalTyped
<1>2. \A i \in DOMAIN budget : budget[i] \in BudgetRow  BY <1>1
<1>3. \A i \in DOMAIN budget : budget[i].spend \in Nat /\ budget[i].since \in Nat  BY <1>2 DEF BudgetRow
<1> QED  BY <1>1, <1>2, <1>3 DEF PortalInv, PortalTyped, PortalAssumption

\* A job that goes on to another place with what it has.
LEMMA JobTurns ==
  ASSUME NEW r \in JobRow, NEW at \in JobPlaces
  PROVE  LET e == [r EXCEPT !.at = at] IN
         e \in JobRow /\ e.at = at /\ e.do = r.do /\ e.seen = r.seen /\ e.left = r.left
BY DEF JobRow

\* One element of a sequence is replaced.
LEMMA Replaced ==
  ASSUME NEW S, NEW s \in Seq(S), NEW i \in DOMAIN s, NEW e \in S
  PROVE  /\ [s EXCEPT ![i] = e] \in Seq(S) /\ Len([s EXCEPT ![i] = e]) = Len(s)
         /\ DOMAIN [s EXCEPT ![i] = e] = DOMAIN s /\ [s EXCEPT ![i] = e][i] = e
         /\ \A k \in DOMAIN s \ {i} : [s EXCEPT ![i] = e][k] = s[k]
OBVIOUS

\* setBudget and the resuming of the budgets.
LEMMA BudgetSteps ==
  ASSUME PortalAssumption, PortalInv, NEW j \in Jobs, SetBudget(j) \/ ResumeBudgets(j)
  PROVE  PortalInv'
<1> DEFINE r == job[j]
<1>0. /\ agent \in AgentRow /\ budget \in Seq(BudgetRow) /\ Len(budget) \in Nat
      /\ books \in [sessions : Nat, ledger : Nat, stats : Nat]
      /\ \A i \in DOMAIN budget : budget[i] \in BudgetRow /\ budget[i].spend \in Nat /\ budget[i].since \in Nat
      /\ r \in JobRow /\ JobOK(r, Len(budget)) /\ books.ledger \in Nat
  BY PortalRows
<1>1. CASE SetBudget(j)
  <2>1. /\ r.at = "budget" /\ job' = [job EXCEPT ![j] = Idle] /\ UNCHANGED <<agent, configLog, books, begun, mixed>>
        /\ budget' = IF r.seen = Nil THEN Append(budget, NewBudget(r.do.cap)) ELSE [budget EXCEPT ![r.seen].cap = r.do.cap]
    BY <1>1 DEF SetBudget, JobAt, JobEnds, Continues
  <2>2. r.do \in [type : {"BUDGET"}, cap : Caps] /\ r.seen \in {Nil} \cup 1..Len(budget) /\ r.do.type \in Spending
    BY <1>0, <2>1 DEF JobOK, Spending
  <2>3. NewBudget(r.do.cap) \in BudgetRow  BY <1>0, <2>2 DEF NewBudget, BudgetRow
  <2>4. r.seen # Nil => /\ budget' \in Seq(BudgetRow) /\ Len(budget') = Len(budget) /\ DOMAIN budget' = DOMAIN budget
                        /\ \A i \in DOMAIN budget : /\ budget'[i].spend = budget[i].spend /\ budget'[i].since = budget[i].since
                                                    /\ budget'[i].paused = budget[i].paused
    <3> SUFFICES ASSUME r.seen # Nil PROVE
                   /\ budget' \in Seq(BudgetRow) /\ Len(budget') = Len(budget) /\ DOMAIN budget' = DOMAIN budget
                   /\ \A i \in DOMAIN budget : /\ budget'[i].spend = budget[i].spend /\ budget'[i].since = budget[i].since
                                               /\ budget'[i].paused = budget[i].paused
      OBVIOUS
    <3> DEFINE new == [budget[r.seen] EXCEPT !.cap = r.do.cap]
    <3>1. r.seen \in DOMAIN budget /\ r.do.cap \in Caps  BY <1>0, <2>2
    <3>2. budget' = [budget EXCEPT ![r.seen] = new]  BY <2>1
    <3>3. /\ new \in BudgetRow /\ new.spend = budget[r.seen].spend
          /\ new.since = budget[r.seen].since /\ new.paused = budget[r.seen].paused
      BY <1>0, <3>1 DEF BudgetRow
    <3> HIDE DEF new
    <3> QED  BY <1>0, <3>1, <3>2, <3>3, Replaced
  <2>5. r.seen = Nil => budget' \in Seq(BudgetRow) /\ Len(budget') = Len(budget) + 1 /\ budget'[Len(budget) + 1] = NewBudget(r.do.cap)
    BY <1>0, <2>1, <2>3
  <2>6. budget' \in Seq(BudgetRow) /\ Len(budget') >= Len(budget)  BY <2>4, <2>5, <1>0
  <2>7. ASSUME Len(budget) <= 1, BooksAgree(r.at), JobKept(r), job'[j] = Idle
        PROVE  Len(budget') <= 1 /\ BooksAgree(job[j].at)' /\ JobKept(job[j])'
    <3>1. r.seen = (IF budget = <<>> THEN Nil ELSE 1)  BY <2>1, <2>7 DEF JobKept
    <3>2. JobKept(job[j])'  BY <2>7, IdleFits DEF JobKept
    <3>3. CASE budget = <<>>
      <4>1. Len(budget') = 1 /\ DOMAIN budget' = {1} /\ budget'[1] = NewBudget(r.do.cap)
        BY <3>1, <3>3, <2>5, <2>6
      <4>2. budget'[1].spend = 0 /\ budget'[1].since = books.ledger  BY <4>1 DEF NewBudget
      <4>3. agent.status # "PAUSED"  BY <2>1, <2>7, <3>3 DEF BooksAgree
      <4> QED  BY <1>0, <2>1, <2>7, <3>2, <4>1, <4>2, <4>3, IdleFits DEF BooksAgree
    <3>4. CASE budget # <<>>
      <4>1. r.seen # Nil  BY <3>1, <3>4 DEF PortalAssumption
      <4>2. BooksAgree(job[j].at)'  BY <2>1, <2>4, <2>7, <4>1, IdleFits DEF BooksAgree
      <4> QED  BY <2>4, <2>7, <3>2, <4>1, <4>2
    <3> QED  BY <3>3, <3>4
  <2>8. JobOK(Idle, Len(budget)') /\ Len(budget)' >= Len(budget)  BY <2>6, IdleFits
  <2> QED  BY <1>0, <2>1, <2>2, <2>6, <2>7, <2>8, IdleFits, SpendingMoves
<1>2. CASE ResumeBudgets(j)
  <2> DEFINE e == [r EXCEPT !.at = "log"]
  <2>1. /\ r.at = "resume" /\ job' = [job EXCEPT ![j].at = "log"] /\ UNCHANGED <<agent, configLog, books, begun, mixed>>
        /\ budget' = [i \in DOMAIN budget |-> [budget[i] EXCEPT !.paused = FALSE]]
    BY <1>2 DEF ResumeBudgets, JobAt, JobTo, Continues
  <2>2. job' = [job EXCEPT ![j] = e]  BY <2>1 DEF PortalInv, PortalTyped
  <2>3. e \in JobRow /\ e.at = "log" /\ e.do = r.do /\ e.seen = r.seen /\ e.left = r.left
    BY <1>0, JobTurns DEF JobPlaces
  <2>4. r.do = Unpause /\ r.seen = [status |-> "PAUSED"]  BY <1>0, <2>1 DEF JobOK
  <2> HIDE DEF e
  <2>5. /\ budget' \in Seq(BudgetRow) /\ Len(budget') = Len(budget) /\ DOMAIN budget' = DOMAIN budget
        /\ \A i \in DOMAIN budget : budget'[i].spend = budget[i].spend /\ budget'[i].since = budget[i].since
    <3>1. ASSUME NEW i \in DOMAIN budget
          PROVE  budget'[i] \in BudgetRow /\ budget'[i].spend = budget[i].spend /\ budget'[i].since = budget[i].since
      <4> DEFINE new == [budget[i] EXCEPT !.paused = FALSE]
      <4>1. new \in BudgetRow /\ new.spend = budget[i].spend /\ new.since = budget[i].since
        <5>1. budget[i] \in BudgetRow  BY <1>0
        <5> QED  BY <5>1 DEF BudgetRow
      <4>2. budget'[i] = new  BY <2>1
      <4> QED  BY <4>1, <4>2
    <3>2. DOMAIN budget' = 1..Len(budget)  BY <1>0, <2>1
    <3>3. budget' = [i \in 1..Len(budget) |-> budget'[i]]  BY <2>1, <3>2
    <3> QED  BY <1>0, <3>1, <3>2, <3>3
  <2>6. JobOK(e, Len(budget)') /\ Len(budget)' >= Len(budget)  BY <1>0, <2>3, <2>4, <2>5 DEF JobOK
  <2>7. r.do.type \in Spending  BY <2>4 DEF Unpause, Spending
  <2>8. ASSUME BooksAgree(r.at), JobKept(r), job'[j] = e
        PROVE  BooksAgree(job[j].at)' /\ JobKept(job[j])'
    <3>1. agent.status # "PAUSED"  BY <2>1, <2>8 DEF JobKept
    <3>2. JobKept(job[j])'  BY <2>3, <2>8 DEF JobKept
    <3> QED  BY <2>1, <2>3, <2>5, <2>8, <3>1, <3>2 DEF BooksAgree
  <2> QED  BY <1>0, <2>1, <2>2, <2>3, <2>5, <2>6, <2>7, <2>8, SpendingMoves
<1> QED  BY <1>1, <1>2

\* logSession before it comes to the budgets.
LEMMA BookingSteps ==
  ASSUME PortalAssumption, PortalInv, NEW j \in Jobs, StoreSession(j) \/ StoreCost(j) \/ CountDay(j)
  PROVE  PortalInv'
<1> DEFINE r == job[j]
           at == IF r.at = "session" THEN "ledger" ELSE IF r.at = "ledger" THEN "stats" ELSE "budgets"
           e == [r EXCEPT !.at = at]
<1>0. /\ agent \in AgentRow /\ budget \in Seq(BudgetRow) /\ Len(budget) \in Nat
      /\ books \in [sessions : Nat, ledger : Nat, stats : Nat] /\ SessionCost \in Nat
      /\ books.sessions \in Nat /\ books.ledger \in Nat /\ books.stats \in Nat
      /\ \A i \in DOMAIN budget : budget[i].spend \in Nat /\ budget[i].since \in Nat
      /\ r \in JobRow /\ JobOK(r, Len(budget))
  BY PortalRows
<1>1. /\ r.at \in {"session", "ledger", "stats"} /\ job' = [job EXCEPT ![j].at = at]
      /\ UNCHANGED <<agent, configLog, budget, begun, mixed>>
      /\ books' = IF r.at = "session" THEN [books EXCEPT !.sessions = @ + 1]
                  ELSE IF r.at = "ledger" THEN [books EXCEPT !.ledger = @ + SessionCost]
                  ELSE [books EXCEPT !.stats = @ + SessionCost]
  BY DEF StoreSession, StoreCost, CountDay, JobAt, JobTo, Continues
<1>2. job' = [job EXCEPT ![j] = e]  BY <1>1 DEF PortalInv, PortalTyped
<1>3. e \in JobRow /\ e.at = at /\ e.do = r.do /\ e.seen = r.seen /\ e.left = r.left
  <2>1. at \in JobPlaces  BY DEF JobPlaces
  <2> HIDE DEF at
  <2> QED  BY <1>0, <2>1, JobTurns
<1> HIDE DEF e
<1>4. r.do = [type |-> "SESSION"]  BY <1>0, <1>1 DEF JobOK
<1>5. r.do.type \in Spending  BY <1>4 DEF Spending
<1>6. JobOK(e, Len(budget)') /\ Len(budget)' >= Len(budget)  BY <1>0, <1>1, <1>3, <1>4 DEF JobOK
<1>7. /\ books' \in [sessions : Nat, ledger : Nat, stats : Nat]
      /\ books'.sessions = books.sessions + (IF r.at = "session" THEN 1 ELSE 0)
      /\ books'.ledger = books.ledger + (IF r.at = "ledger" THEN SessionCost ELSE 0)
      /\ books'.stats = books.stats + (IF r.at = "stats" THEN SessionCost ELSE 0)
  BY <1>0, <1>1
<1>8. ASSUME BooksAgree(r.at), JobKept(r), job'[j] = e
      PROVE  BooksAgree(job[j].at)' /\ JobKept(job[j])'
  <2>1. JobKept(job[j])'  BY <1>3, <1>8 DEF JobKept
  <2>2. SessionCost * (books.sessions + 1) = SessionCost * books.sessions + SessionCost  BY <1>0
  <2>3. CASE r.at = "session"
    BY <1>0, <1>1, <1>3, <1>7, <1>8, <2>1, <2>2, <2>3 DEF BooksAgree
  <2>4. CASE r.at = "ledger"
    BY <1>0, <1>1, <1>3, <1>7, <1>8, <2>1, <2>4 DEF BooksAgree
  <2>5. CASE r.at = "stats"
    BY <1>0, <1>1, <1>3, <1>7, <1>8, <2>1, <2>5 DEF BooksAgree
  <2> QED  BY <1>1, <2>3, <2>4, <2>5
<1> QED  BY <1>0, <1>1, <1>2, <1>3, <1>5, <1>6, <1>7, <1>8, SpendingMoves

\* The budgets are read.
LEMMA ReadBudgetsStep ==
  ASSUME PortalAssumption, PortalInv, NEW j \in Jobs, ReadBudgets(j)
  PROVE  PortalInv'
<1> DEFINE r == job[j]
           w == [at |-> "charge", do |-> r.do, seen |-> 1, left |-> budget]
           e == IF budget = <<>> THEN Idle ELSE w
<1>0. /\ agent \in AgentRow /\ budget \in Seq(BudgetRow) /\ Len(budget) \in Nat
      /\ books \in [sessions : Nat, ledger : Nat, stats : Nat]
      /\ r \in JobRow /\ JobOK(r, Len(budget))
  BY PortalRows
<1>1. /\ r.at = "budgets" /\ UNCHANGED <<agent, configLog, budget, books, begun, mixed>>
      /\ job' = [job EXCEPT ![j] = e]
  <2>1. r = [at |-> r.at, do |-> r.do, seen |-> r.seen, left |-> r.left]  BY <1>0 DEF JobRow
  <2>2. r.at = "budgets" /\ UNCHANGED <<agent, configLog, budget, books, begun, mixed>>
        /\ IF budget = <<>> THEN JobEnds(j)
           ELSE job' = [job EXCEPT ![j].left = budget, ![j].seen = 1, ![j].at = "charge"]
    BY DEF ReadBudgets, JobAt, Continues
  <2>3. CASE budget = <<>>  BY <2>2, <2>3 DEF JobEnds
  <2>4. CASE budget # <<>>
    <3>1. w = [[[r EXCEPT !.left = budget] EXCEPT !.seen = 1] EXCEPT !.at = "charge"]
      <4> DEFINE r1 == [at |-> r.at, do |-> r.do, seen |-> r.seen, left |-> budget]
                 r2 == [at |-> r.at, do |-> r.do, seen |-> 1, left |-> budget]
      <4>1. [r EXCEPT !.left = budget] = r1  BY <1>0 DEF JobRow
      <4>2. [r1 EXCEPT !.seen = 1] = r2  OBVIOUS
      <4>3. [r2 EXCEPT !.at = "charge"] = w  OBVIOUS
      <4> HIDE DEF r1, r2, w, r
      <4> QED  BY <4>1, <4>2, <4>3
    <3>2. job \in [Jobs -> JobRow]  BY DEF PortalInv, PortalTyped
    <3> HIDE DEF w
    <3>3. job' = [job EXCEPT ![j] = w]  BY <2>2, <2>4, <3>1, <3>2
    <3> QED  BY <2>2, <2>4, <3>3
  <2> QED  BY <2>2, <2>3, <2>4
<1>2. r.do = [type |-> "SESSION"]  BY <1>0, <1>1 DEF JobOK
<1>3. r.do.type \in Spending  BY <1>2 DEF Spending
<1>4. e \in JobRow /\ JobOK(e, Len(budget)') /\ (e.at = "idle" \/ e.do = r.do)
  <2>1. CASE budget = <<>>  BY <2>1, <1>0, <1>1, IdleFits
  <2>2. CASE budget # <<>>
    <3>1. w \in JobRow  BY <1>0 DEF JobRow, JobPlaces, Seen
    <3>2. 1 \in 1..Len(budget) /\ 1 + Len(budget) <= Len(budget) + 1  BY <1>0, <2>2
    <3> QED  BY <3>1, <3>2, <2>2, <1>1, <1>2 DEF JobOK
  <2> QED  BY <2>1, <2>2
<1>5. Len(budget)' >= Len(budget)  BY <1>0, <1>1
<1>6. budget # <<>> => e.at = "charge" /\ e.seen = 1 /\ e.left = budget  OBVIOUS
<1>7. budget = <<>> => e = Idle  OBVIOUS
<1> HIDE DEF e
<1>8. ASSUME Len(budget) <= 1, BooksAgree(r.at), JobKept(r), job'[j] = e
      PROVE  BooksAgree(job[j].at)' /\ JobKept(job[j])'
  <2>1. CASE budget = <<>>
    BY <2>1, <1>1, <1>7, <1>8, IdleFits DEF BooksAgree, JobKept
  <2>2. CASE budget # <<>>
    <3>1. Len(budget) # 0  BY <1>0, <2>2
    <3>2. Len(budget) = 1
      <4> DEFINE n == Len(budget)
      <4>1. n \in Nat /\ n <= 1 /\ n # 0  BY <1>0, <1>8, <3>1
      <4> HIDE DEF n
      <4>2. n = 1  BY <4>1
      <4> QED  BY <4>2 DEF n
    <3> QED  BY <3>2, <2>2, <1>1, <1>6, <1>8 DEF BooksAgree, JobKept
  <2> QED  BY <2>1, <2>2
<1> QED  BY <1>0, <1>1, <1>3, <1>4, <1>5, <1>8, SpendingMoves

\* A logger goes on to the next budget it has read, or ends.
Onward(r) == IF Len(r.left) = 1 THEN Idle
             ELSE [at |-> "charge", do |-> r.do, seen |-> r.seen + 1, left |-> Tail(r.left)]

LEMMA GoesOnward ==
  ASSUME PortalAssumption, PortalInv, NEW j \in Jobs, job[j].at \in {"charge", "critical", "mark"}, NextBudget(j)
  PROVE  /\ job' = [job EXCEPT ![j] = Onward(job[j])] /\ Onward(job[j]) \in JobRow
         /\ JobOK(Onward(job[j]), Len(budget))
         /\ Onward(job[j]).at = "idle" \/ Onward(job[j]).do = job[j].do
         /\ Len(job[j].left) = 1 => Onward(job[j]) = Idle
<1> DEFINE r == job[j]
           w == [at |-> "charge", do |-> r.do, seen |-> r.seen + 1, left |-> Tail(r.left)]
<1>1. r \in JobRow /\ JobOK(r, Len(budget)) /\ Len(budget) \in Nat /\ job \in [Jobs -> JobRow]
  BY PortalRows DEF PortalInv, PortalTyped
<1>2. /\ r.left \in Seq(BudgetRow) /\ r.left # <<>> /\ r.seen \in 1..Len(budget)
      /\ r.seen + Len(r.left) <= Len(budget) + 1 /\ r.do = [type |-> "SESSION"]
  BY <1>1 DEF JobOK, JobRow
<1>3. CASE Len(r.left) = 1
  BY <1>1, <1>3, IdleFits DEF NextBudget, JobEnds, Onward
<1>4. CASE Len(r.left) # 1
  <2>1. Len(r.left) >= 2 /\ Tail(r.left) \in Seq(BudgetRow) /\ Len(Tail(r.left)) = Len(r.left) - 1
    <3>1. Len(r.left) # 0 /\ Len(r.left) \in Nat  BY <1>2
    <3>2. Len(r.left) >= 2
      <4> DEFINE l == Len(r.left)
      <4>1. l # 0 /\ l \in Nat /\ l # 1  BY <1>4, <3>1
      <4> HIDE DEF l
      <4>2. l >= 2  BY <4>1
      <4> QED  BY <4>2 DEF l
    <3>3. Tail(r.left) \in Seq(BudgetRow) /\ Len(Tail(r.left)) = Len(r.left) - 1  BY <1>2, <3>1
    <3> QED  BY <3>2, <3>3
  <2>2. Tail(r.left) # <<>> /\ r.seen + 1 \in 1..Len(budget)
        /\ r.seen + 1 + Len(Tail(r.left)) <= Len(budget) + 1
    <3> DEFINE l == Len(r.left)  k == r.seen  n == Len(budget)
    <3>1. l \in Nat /\ l >= 2 /\ k \in 1..n /\ n \in Nat /\ k + l <= n + 1  BY <1>1, <1>2, <2>1
    <3> HIDE DEF l, k, n
    <3>2. k + 1 \in 1..n /\ k + 1 + (l - 1) <= n + 1  BY <3>1
    <3>3. l - 1 # 0  BY <3>1
    <3>4. Len(Tail(r.left)) = l - 1  BY <2>1 DEF l
    <3>5. Tail(r.left) # <<>>  BY <3>3, <3>4
    <3> QED  BY <3>2, <3>4, <3>5 DEF l, k, n
  <2>3. w \in JobRow
    <3>1. r.do \in Doing /\ r.seen + 1 \in Seen  BY <1>1, <2>2 DEF JobRow, Seen
    <3> QED  BY <3>1, <2>1 DEF JobRow, JobPlaces
  <2>4. JobOK(w, Len(budget))  BY <1>2, <2>2 DEF JobOK
  <2>5. w = [[[r EXCEPT !.left = Tail(r.left)] EXCEPT !.seen = r.seen + 1] EXCEPT !.at = "charge"]
    <3> DEFINE t == Tail(r.left)  k == r.seen + 1
               r1 == [at |-> r.at, do |-> r.do, seen |-> r.seen, left |-> t]
               r2 == [at |-> r.at, do |-> r.do, seen |-> k, left |-> t]
    <3> HIDE DEF t, k
    <3>1. [r EXCEPT !.left = t] = r1  BY <1>1 DEF JobRow
    <3>2. [r1 EXCEPT !.seen = k] = r2  OBVIOUS
    <3>3. [r2 EXCEPT !.at = "charge"] = [at |-> "charge", do |-> r.do, seen |-> k, left |-> t]  OBVIOUS
    <3> HIDE DEF r1, r2, r
    <3> QED  BY <3>1, <3>2, <3>3 DEF t, k
  <2>6. job' = [job EXCEPT ![j].left = Tail(@), ![j].seen = @ + 1, ![j].at = "charge"]
    BY <1>4 DEF NextBudget
  <2>7. job' = [job EXCEPT ![j] = [[[r EXCEPT !.left = Tail(r.left)] EXCEPT !.seen = r.seen + 1] EXCEPT !.at = "charge"]]
    BY <1>1, <2>6 DEF JobRow
  <2>8. Onward(r) = w  BY <1>4 DEF Onward
  <2> HIDE DEF w
  <2> QED  BY <2>3, <2>4, <2>5, <2>7, <2>8, <1>4 DEF w
<1> QED  BY <1>3, <1>4

\* What is known of a logger that is at a budget.
LEMMA LoggerFacts ==
  ASSUME PortalAssumption, PortalInv, NEW j \in Jobs, job[j].at \in {"charge", "critical", "pause", "mark"}
  PROVE  /\ job[j].do = [type |-> "SESSION"] /\ job[j].do.type \in Spending
         /\ job[j].left \in Seq(BudgetRow) /\ job[j].left # <<>> /\ Head(job[j].left) \in BudgetRow
         /\ job[j].seen \in DOMAIN budget
<1>1. job[j] \in JobRow /\ JobOK(job[j], Len(budget)) /\ budget \in Seq(BudgetRow)  BY PortalRows
<1>2. job[j].left \in Seq(BudgetRow) /\ job[j].left # <<>> /\ job[j].seen \in 1..Len(budget)
      /\ job[j].do = [type |-> "SESSION"]
  BY <1>1 DEF JobOK, JobRow
<1>3. Head(job[j].left) \in BudgetRow  BY <1>2
<1>4. job[j].do.type \in Spending  BY <1>2 DEF Spending
<1> QED  BY <1>1, <1>2, <1>3, <1>4

\* A logger that goes from one of these places to the next with what it has.
LEMMA LoggerTurns ==
  ASSUME PortalAssumption, PortalInv, NEW j \in Jobs, job[j].at \in {"charge", "critical", "pause", "mark"},
         NEW at \in {"critical", "pause", "mark"}, JobTo(j, at)
  PROVE  LET e == [job[j] EXCEPT !.at = at] IN
         /\ job' = [job EXCEPT ![j] = e] /\ e \in JobRow /\ JobOK(e, Len(budget)) /\ e.at = at /\ e.do = job[j].do
         /\ e.seen = job[j].seen /\ e.left = job[j].left
<1> DEFINE e == [job[j] EXCEPT !.at = at]
<1>1. job[j] \in JobRow /\ JobOK(job[j], Len(budget))  BY PortalRows
<1>2. at \in JobPlaces  BY DEF JobPlaces
<1>3. e \in JobRow /\ e.at = at /\ e.do = job[j].do /\ e.seen = job[j].seen /\ e.left = job[j].left
  BY <1>1, <1>2, JobTurns
<1>4. job' = [job EXCEPT ![j] = e]  BY DEF JobTo, PortalInv, PortalTyped
<1> HIDE DEF e
<1>5. JobOK(e, Len(budget))  BY <1>1, <1>3 DEF JobOK
<1> QED  BY <1>3, <1>4, <1>5 DEF e

\* A budget is charged with what was read of it and the cost.
LEMMA ChargeStep ==
  ASSUME PortalAssumption, PortalInv, NEW j \in Jobs, Charge(j)
  PROVE  PortalInv'
<1> DEFINE r == job[j]
           full == NewSpend(j) >= Read(j).cap /\ ~Read(j).paused
           e == IF full THEN [r EXCEPT !.at = "critical"] ELSE Onward(r)
           new == [budget[r.seen] EXCEPT !.spend = NewSpend(j)]
<1>0. /\ agent \in AgentRow /\ budget \in Seq(BudgetRow) /\ Len(budget) \in Nat
      /\ books \in [sessions : Nat, ledger : Nat, stats : Nat] /\ SessionCost \in Nat /\ books.ledger \in Nat
      /\ \A i \in DOMAIN budget : budget[i] \in BudgetRow /\ budget[i].spend \in Nat /\ budget[i].since \in Nat
  BY PortalRows
<1>1. /\ r.at = "charge" /\ UNCHANGED <<agent, configLog, books, begun, mixed>>
      /\ budget' = [budget EXCEPT ![r.seen] = new]
      /\ IF full THEN JobTo(j, "critical") ELSE NextBudget(j)
  BY DEF Charge, JobAt, Continues
<1>2. /\ r.do.type \in Spending /\ r.left \in Seq(BudgetRow) /\ r.left # <<>> /\ Head(r.left) \in BudgetRow
      /\ r.seen \in DOMAIN budget
  BY <1>1, LoggerFacts
<1>3. NewSpend(j) = Head(r.left).spend + SessionCost /\ Head(r.left).spend \in Nat
  BY <1>2 DEF NewSpend, Read, BudgetRow
<1>4. /\ job' = [job EXCEPT ![j] = e] /\ e \in JobRow /\ JobOK(e, Len(budget))
      /\ e.at = "idle" \/ e.do = r.do
      /\ Len(r.left) = 1 => \/ e = Idle
                            \/ e.at = "critical" /\ e.seen = r.seen /\ e.left = r.left
  <2>1. CASE full
    <3>1. JobTo(j, "critical") /\ e = [r EXCEPT !.at = "critical"]  BY <1>1, <2>1
    <3> HIDE DEF full, e
    <3> QED  BY <3>1, <1>1, LoggerTurns
  <2>2. CASE ~full
    <3>1. NextBudget(j) /\ e = Onward(r)  BY <1>1, <2>2
    <3> HIDE DEF full, e
    <3> QED  BY <3>1, <1>1, GoesOnward
  <2> QED  BY <2>1, <2>2
<1>5. new \in BudgetRow /\ new.spend = Head(r.left).spend + SessionCost /\ new.since = budget[r.seen].since
      /\ new.paused = budget[r.seen].paused
  <2> DEFINE n == NewSpend(j)
  <2>1. n \in Nat  BY <1>0, <1>3
  <2>2. n = Head(r.left).spend + SessionCost  BY <1>3
  <2> HIDE DEF n
  <2>3. budget[r.seen] \in BudgetRow  BY <1>0, <1>2
  <2>4. [budget[r.seen] EXCEPT !.spend = n] \in BudgetRow /\ [budget[r.seen] EXCEPT !.spend = n].spend = n
        /\ [budget[r.seen] EXCEPT !.spend = n].since = budget[r.seen].since
        /\ [budget[r.seen] EXCEPT !.spend = n].paused = budget[r.seen].paused
    BY <2>1, <2>3 DEF BudgetRow
  <2> QED  BY <2>2, <2>4 DEF n
<1> HIDE DEF e, new
<1>6. /\ budget' \in Seq(BudgetRow) /\ Len(budget') = Len(budget) /\ DOMAIN budget' = DOMAIN budget
      /\ budget'[r.seen] = new /\ \A k \in DOMAIN budget \ {r.seen} : budget'[k] = budget[k]
  BY <1>0, <1>1, <1>2, <1>5, Replaced
<1>7. JobOK(e, Len(budget)') /\ Len(budget)' >= Len(budget)  BY <1>0, <1>4, <1>6
<1>8. ASSUME BooksAgree(r.at), JobKept(r), job'[j] = e
      PROVE  BooksAgree(job[j].at)' /\ JobKept(job[j])'
  <2>1. r.left = budget /\ r.seen = 1 /\ Len(r.left) = 1 /\ Len(budget) = 1  BY <1>1, <1>8 DEF JobKept
  <2>2. e = Idle \/ (e.at = "critical" /\ e.seen = 1 /\ e.left = r.left)  BY <1>4, <2>1
  <2>3. JobKept(job[j])'  BY <1>6, <1>8, <2>1, <2>2, IdleFits DEF JobKept
  <2>4. Head(r.left) = budget[1] /\ DOMAIN budget = {1}  BY <1>0, <2>1
  <2>5. new.since = budget[1].since /\ new.spend = budget[1].spend + SessionCost /\ new.paused = budget[1].paused /\ budget'[1] = new
    BY <1>5, <1>6, <2>1, <2>4
  <2>6. e.at \in {"idle", "critical"}  BY <2>2, IdleFits
  <2>7. BooksAgree("charge")  BY <1>1, <1>8
  <2>8. budget'[1].since + budget'[1].spend = books.ledger /\ budget'[1].paused = budget[1].paused
    <3>1. budget[1].since + budget[1].spend + SessionCost = books.ledger  BY <2>4, <2>7 DEF BooksAgree
    <3>2. budget[1].since \in Nat /\ budget[1].spend \in Nat  BY <1>0, <2>4
    <3> QED  BY <1>0, <2>5, <3>1, <3>2
  <2>9. /\ books.ledger = SessionCost * books.sessions /\ books.stats = books.ledger
        /\ agent.status = "PAUSED" => budget[1].paused
    BY <1>0, <2>4, <2>7 DEF BooksAgree
  <2>10. budget'[1].since \in Nat /\ budget'[1].spend \in Nat /\ DOMAIN budget' = {1}
    BY <1>0, <1>2, <1>6, <2>4, <2>5
  <2>11. BooksAgree(job[j].at)'
    <3>1. job'[j].at = "idle" \/ job'[j].at = "critical"  BY <1>8, <2>6
    <3> QED  BY <1>0, <1>1, <2>8, <2>9, <2>10, <3>1 DEF BooksAgree
  <2> QED  BY <2>3, <2>11
<1> QED  BY <1>0, <1>1, <1>2, <1>4, <1>6, <1>7, <1>8, SpendingMoves

\* The agent is paused under a budget that is full, unless it is critical.
LEMMA PauseSteps ==
  ASSUME PortalAssumption, PortalInv, NEW j \in Jobs, CheckCritical(j) \/ PauseAgent(j)
  PROVE  PortalInv'
<1> DEFINE r == job[j]
<1>0. /\ agent \in AgentRow /\ budget \in Seq(BudgetRow) /\ Len(budget) \in Nat
      /\ books \in [sessions : Nat, ledger : Nat, stats : Nat]
  BY PortalRows
<1>1. CASE CheckCritical(j)
  <2> DEFINE e == IF agent.critical THEN Onward(r) ELSE [r EXCEPT !.at = "pause"]
  <2>1. /\ r.at = "critical" /\ UNCHANGED <<agent, configLog, budget, books, begun, mixed>>
        /\ IF agent.critical THEN NextBudget(j) ELSE JobTo(j, "pause")
    BY <1>1 DEF CheckCritical, JobAt, Continues
  <2>2. r.do.type \in Spending  BY <2>1, LoggerFacts
  <2>3. /\ job' = [job EXCEPT ![j] = e] /\ e \in JobRow /\ JobOK(e, Len(budget))
        /\ e.at = "idle" \/ e.do = r.do
        /\ Len(r.left) = 1 => \/ e = Idle
                              \/ e.at = "pause" /\ e.seen = r.seen /\ e.left = r.left
    <3>1. CASE agent.critical
      <4>1. NextBudget(j) /\ e = Onward(r)  BY <2>1, <3>1
      <4> HIDE DEF e
      <4> QED  BY <4>1, <2>1, GoesOnward
    <3>2. CASE ~agent.critical
      <4>1. JobTo(j, "pause") /\ e = [r EXCEPT !.at = "pause"]  BY <2>1, <3>2
      <4> HIDE DEF e
      <4> QED  BY <4>1, <2>1, LoggerTurns
    <3> QED  BY <3>1, <3>2
  <2> HIDE DEF e
  <2>4. JobOK(e, Len(budget)') /\ Len(budget)' >= Len(budget)  BY <1>0, <2>1, <2>3
  <2>5. ASSUME BooksAgree(r.at), JobKept(r), job'[j] = e
        PROVE  BooksAgree(job[j].at)' /\ JobKept(job[j])'
    <3>1. r.seen = 1 /\ Len(r.left) = 1 /\ Len(budget) = 1  BY <2>1, <2>5 DEF JobKept
    <3>2. e = Idle \/ (e.at = "pause" /\ e.seen = 1 /\ e.left = r.left)  BY <2>3, <3>1
    <3>3. JobKept(job[j])'  BY <2>1, <2>5, <3>1, <3>2, IdleFits DEF JobKept
    <3>4. e.at \in {"idle", "pause"}  BY <3>2, IdleFits
    <3> QED  BY <2>1, <2>5, <3>3, <3>4 DEF BooksAgree
  <2> QED  BY <1>0, <2>1, <2>2, <2>3, <2>4, <2>5, SpendingMoves
<1>2. CASE PauseAgent(j)
  <2> DEFINE e == [r EXCEPT !.at = "mark"]
  <2>1. /\ r.at = "pause" /\ UNCHANGED <<configLog, budget, books, begun, mixed>> /\ JobTo(j, "mark")
        /\ agent' = [agent EXCEPT !.status = "PAUSED"]
    BY <1>2 DEF PauseAgent, JobAt, Continues
  <2>2. r.do.type \in Spending  BY <2>1, LoggerFacts
  <2>3. /\ job' = [job EXCEPT ![j] = e] /\ e \in JobRow /\ JobOK(e, Len(budget)) /\ e.at = "mark" /\ e.do = r.do
        /\ e.seen = r.seen /\ e.left = r.left
    BY <2>1, LoggerTurns
  <2> HIDE DEF e
  <2>4. agent' \in AgentRow /\ agent'.version = agent.version  BY <1>0, <2>1 DEF AgentRow
  <2>5. JobOK(e, Len(budget)') /\ Len(budget)' >= Len(budget)  BY <1>0, <2>1, <2>3
  <2>6. ASSUME BooksAgree(r.at), JobKept(r), job'[j] = e
        PROVE  BooksAgree(job[j].at)' /\ JobKept(job[j])'
    BY <2>1, <2>3, <2>6 DEF BooksAgree, JobKept
  <2> QED  BY <1>0, <2>1, <2>2, <2>3, <2>4, <2>5, <2>6, SpendingMoves
<1> QED  BY <1>1, <1>2

\* The budget shows that the agent is paused.
LEMMA MarkBudgetStep ==
  ASSUME PortalAssumption, PortalInv, NEW j \in Jobs, MarkBudget(j)
  PROVE  PortalInv'
<1> DEFINE r == job[j]
           e == Onward(r)
           new == [budget[r.seen] EXCEPT !.paused = TRUE]
<1>0. /\ agent \in AgentRow /\ budget \in Seq(BudgetRow) /\ Len(budget) \in Nat
      /\ books \in [sessions : Nat, ledger : Nat, stats : Nat]
      /\ \A i \in DOMAIN budget : budget[i] \in BudgetRow
  BY PortalRows
<1>1. /\ r.at = "mark" /\ UNCHANGED <<agent, configLog, books, begun, mixed>> /\ NextBudget(j)
      /\ budget' = [budget EXCEPT ![r.seen] = new]
  BY DEF MarkBudget, JobAt, Continues
<1>2. r.do.type \in Spending /\ r.seen \in DOMAIN budget  BY <1>1, LoggerFacts
<1>3. /\ job' = [job EXCEPT ![j] = e] /\ e \in JobRow /\ JobOK(e, Len(budget))
      /\ e.at = "idle" \/ e.do = r.do
      /\ Len(r.left) = 1 => e = Idle
  BY <1>1, GoesOnward
<1>4. new \in BudgetRow /\ new.spend = budget[r.seen].spend /\ new.since = budget[r.seen].since /\ new.paused = TRUE
  <2>1. budget[r.seen] \in BudgetRow  BY <1>0, <1>2
  <2> QED  BY <2>1 DEF BudgetRow
<1> HIDE DEF e, new
<1>5. /\ budget' \in Seq(BudgetRow) /\ Len(budget') = Len(budget) /\ DOMAIN budget' = DOMAIN budget
      /\ budget'[r.seen] = new /\ \A k \in DOMAIN budget \ {r.seen} : budget'[k] = budget[k]
  BY <1>0, <1>1, <1>2, <1>4, Replaced
<1>6. JobOK(e, Len(budget)') /\ Len(budget)' >= Len(budget)  BY <1>0, <1>3, <1>5
<1>7. ASSUME BooksAgree(r.at), JobKept(r), job'[j] = e
      PROVE  BooksAgree(job[j].at)' /\ JobKept(job[j])'
  <2>1. r.seen = 1 /\ Len(r.left) = 1 /\ Len(budget) = 1  BY <1>1, <1>7 DEF JobKept
  <2>2. e = Idle /\ DOMAIN budget = {1}  BY <1>0, <1>3, <2>1
  <2>3. JobKept(job[j])'  BY <1>7, <2>2, IdleFits DEF JobKept
  <2>4. budget'[1].spend = budget[1].spend /\ budget'[1].since = budget[1].since /\ budget'[1].paused
    BY <1>4, <1>5, <2>1
  <2>5. BooksAgree("mark")  BY <1>1, <1>7
  <2>6. DOMAIN budget' = {1} /\ budget'[1].since = budget[1].since  BY <1>4, <1>5, <2>1, <2>2
  <2>7. job'[j].at = "idle"  BY <1>7, <2>2, IdleFits
  <2>8. BooksAgree(job[j].at)'  BY <1>1, <2>2, <2>4, <2>5, <2>6, <2>7 DEF BooksAgree
  <2> QED  BY <2>3, <2>8
<1> QED  BY <1>0, <1>1, <1>2, <1>3, <1>5, <1>6, <1>7, SpendingMoves

----------------------------------------------------------------------------
\* A new agent, whose jobs have not begun.
LEMMA PortalStarts ==
  ASSUME PortalAssumption, InitPortal
  PROVE  PortalInv
<1>0. /\ job = [j \in Jobs |-> Idle] /\ budget = <<>> /\ configLog = <<>> /\ begun = 0 /\ mixed = FALSE
      /\ books = [sessions |-> 0, ledger |-> 0, stats |-> 0]
      /\ \E m \in Models : agent = NewAgent(m)
  BY Zenon DEF InitPortal
<1>5. job = [j \in Jobs |-> Idle]  BY Zenon DEF InitPortal
<1>1. \A j \in Jobs : job[j] = Idle  BY <1>5, Zenon
<1>6. /\ begun \in 0..MaxJobs /\ mixed \in BOOLEAN /\ books \in [sessions : Nat, ledger : Nat, stats : Nat]
  <2>1. begun \in 0..MaxJobs  BY <1>0 DEF PortalAssumption
  <2>2. mixed \in BOOLEAN  BY <1>0
  <2>3. books \in [sessions : Nat, ledger : Nat, stats : Nat]  BY <1>0
  <2> QED  BY <2>1, <2>2, <2>3
<1>2. PortalTyped
  <2>1. agent \in AgentRow /\ agent.status = "ACTIVE"  BY <1>0 DEF NewAgent, AgentRow
  <2>2. job \in [Jobs -> JobRow] /\ \A j \in Jobs : JobOK(job[j], 0)  BY <1>0, <1>1, IdleFits
  <2>3. Len(budget) = 0 /\ budget \in Seq(BudgetRow) /\ configLog \in Seq(LogRow)  BY <1>0
  <2> QED  BY <1>6, <2>1, <2>2, <2>3 DEF PortalTyped
<1>3. UniqueNumbers  BY <1>0, <1>1, IdleFits DEF UniqueNumbers, Updates
<1>4. Kept
  <2>1. SpendingInFlight = {}  BY <1>1, IdleFits DEF SpendingInFlight
  <2>2. BooksAgree("idle")  BY <1>0 DEF NewAgent, BooksAgree, PortalAssumption
  <2>3. Len(budget) <= 1  BY <1>0
  <2> QED  BY <2>1, <2>2, <2>3 DEF Kept
<1> QED  BY <1>2, <1>3, <1>4 DEF PortalInv

\* The invariant is inductive.
LEMMA PortalStep == ASSUME PortalAssumption PROVE PortalInv /\ [NextPortal]_portalVars => PortalInv'
<1> SUFFICES ASSUME PortalInv, [NextPortal]_portalVars PROVE PortalInv'  OBVIOUS
<1>1. ASSUME NEW j \in Jobs,
             \/ (\E c \in Changes : FindAgent(j, c)) \/ WriteAgent(j) \/ WriteConfigLog(j)
             \/ (\E cap \in Caps : FindBudget(j, cap)) \/ SetBudget(j) \/ FindPaused(j) \/ ResumeBudgets(j)
             \/ StartSession(j) \/ StoreSession(j) \/ StoreCost(j) \/ CountDay(j) \/ ReadBudgets(j)
             \/ Charge(j) \/ CheckCritical(j) \/ PauseAgent(j) \/ MarkBudget(j) \/ JobFault(j)
      PROVE  PortalInv'
  BY <1>1, FindAgentStep, WriteAgentStep, WriteConfigLogStep, BeginSteps, BudgetSteps, BookingSteps,
     ReadBudgetsStep, ChargeStep, PauseSteps, MarkBudgetStep, JobFaultStep
<1>2. CASE UNCHANGED portalVars
  BY <1>2 DEF portalVars, PortalInv, PortalTyped, UniqueNumbers, Kept, Updates, SpendingInFlight, BooksAgree, JobKept
<1> QED  BY <1>1, <1>2 DEF NextPortal

\* The invariant holds at every moment.
LEMMA PortalHolds == SpecPortal => []PortalInv
<1>1. InitPortal => PortalInv  BY PortalStarts, PortalAssumption
<1>2. PortalInv /\ [NextPortal]_portalVars => PortalInv'  BY PortalStep, PortalAssumption
<1> QED  BY <1>1, <1>2, PTL DEF SpecPortal

\* The rows of an agent and its budgets keep their types, whatever jobs run together and
\* whichever of their calls fail.
THEOREM PortalTypeCorrect == SpecPortal => []PortalTypeOK
<1>1. PortalInv => PortalTypeOK
  <2>1. ASSUME PortalInv PROVE PortalTypeOK
    <3>1. \A i \in DOMAIN budget : budget[i] \in BudgetRow  BY <2>1 DEF PortalInv, PortalTyped
    <3> QED  BY <2>1, <3>1 DEF PortalInv, PortalTyped, PortalTypeOK, AgentRow, BudgetRow
  <2> QED  BY <2>1
<1> QED  BY <1>1, PortalHolds, PTL

\* The numbers that prompt updates log belong to one update each and grow, however many updates
\* read the row before others wrote it (config.service.ts:39-60); and after jobs that touch
\* budgets one after the other there is one budget, charged with what the ledger and the daily
\* statistics say, which shows it when the agent is paused (session.service.ts:97-133).
THEOREM AgentAlwaysKeepsUp == SpecPortal => []AgentKeepsUp
<1>1. PortalInv => AgentKeepsUp
  <2>1. ASSUME PortalInv PROVE VersionsNumberPrompts
    BY <2>1 DEF PortalInv, UniqueNumbers, Updates, VersionsNumberPrompts
  <2>2. ASSUME PortalInv PROVE BudgetsKeepUp
    <3>1. SUFFICES ASSUME ~mixed, SpendingInFlight = {}
          PROVE  /\ Len(budget) <= 1
                 /\ books.stats = books.ledger /\ books.ledger = SessionCost * books.sessions
                 /\ \A i \in DOMAIN budget : budget[i].spend = books.ledger - budget[i].since
                 /\ agent.status = "PAUSED" => \E i \in DOMAIN budget : budget[i].paused
      BY DEF BudgetsKeepUp
    <3>2. Len(budget) <= 1 /\ BooksAgree("idle")  BY <2>2, <3>1 DEF PortalInv, Kept
    <3>3. /\ books.ledger \in Nat /\ books.stats \in Nat /\ books.sessions \in Nat
          /\ budget \in Seq(BudgetRow) /\ SessionCost \in Nat
      BY <2>2, PortalAssumption DEF PortalInv, PortalTyped, PortalAssumption
    <3>4. \A i \in DOMAIN budget : budget[i] \in BudgetRow  BY <3>3
    <3>5. \A i \in DOMAIN budget : budget[i].spend \in Nat /\ budget[i].since \in Nat  BY <3>4 DEF BudgetRow
    <3>6. \A i \in DOMAIN budget : budget[i].spend = books.ledger - budget[i].since
      BY <3>2, <3>3, <3>5 DEF BooksAgree
    <3>7. books.ledger + 0 = SessionCost * books.sessions /\ books.stats + 0 = books.ledger
      BY <3>2 DEF BooksAgree
    <3>8. agent.status = "PAUSED" => \E i \in DOMAIN budget : budget[i].paused  BY <3>2 DEF BooksAgree
    <3> QED  BY <3>2, <3>3, <3>6, <3>7, <3>8
  <2> QED  BY <2>1, <2>2 DEF AgentKeepsUp
<1> QED  BY <1>1, PortalHolds, PTL
=============================================================================
