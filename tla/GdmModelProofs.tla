---------------------------- MODULE GdmModelProofs ----------------------------
(***************************************************************************)
(* TLAPS proofs about the GDM adapter (GdmModel): its type invariant and   *)
(* that the user's answer is forwarded at most once per challenge.        *)
(***************************************************************************)
EXTENDS GdmModel, SequenceTheorems, TLAPS

B(x) == IF x THEN 1 ELSE 0

\* m.waitingAuth as the next Update will see it: the loop's copy while
\* pollGdm runs.
Waiting == IF polling THEN pollSt.waiting ELSE waitingAuth

\* The isAuthenticatedRequested the running poll has produced so far.
Pending == IF polling THEN pollSt.out["isAuthRequested"] ELSE 0

\* One poll loop: its gdmPollDone is queued or the loop is running, never
\* both.
OnePollLoop == inbox["pollDone"] + B(polling) <= 1

\* No poll loop before Init has run.
NoLoopBeforeInit == ~started => inbox["pollDone"] = 0 /\ ~polling

\* The loop never produces a gdmPollDone or a startAuthentication of its own.
LoopOutputs == pollSt.out["pollDone"] = 0 /\ pollSt.out["startAuth"] = 0

\* A challenge is one token: a queued startAuthentication, the adapter
\* waiting for the answer, the answer produced or queued, or the parent's
\* IsAuthenticated call.
OneAuthToken ==
    inbox["startAuth"] + B(Waiting) + Pending + inbox["isAuthRequested"]
      + inFlight <= 1

\* Since the last StartAuthentication, at most one answer went or can go.
ForwardBudget == forwarded + B(Waiting) + Pending <= 1

IInv ==
    /\ TypeOK /\ NoLoopBeforeInit /\ OnePollLoop /\ LoopOutputs
    /\ OneAuthToken /\ ForwardBudget

\* TypeOK, split into its Boolean and its other conjuncts for the provers.
BoolsOK ==
    /\ started \in BOOLEAN /\ waitingAuth \in BOOLEAN /\ stopped \in BOOLEAN
    /\ lateTalk \in BOOLEAN /\ polling \in BOOLEAN

DataOK ==
    /\ gdmQueue \in Seq(GdmEvents) /\ Len(gdmQueue) <= MaxQueue
    /\ inbox \in [Msgs -> Nat] /\ inbox["pollDone"] \in 0..1
    /\ verdicts \in [Accesses -> Nat]
    /\ asyncEmits \in Nat /\ inFlight \in Nat /\ forwarded \in Nat
    /\ cancelsSent \in Nat
    /\ events \in 0..MaxEvents /\ rounds \in 0..MaxRounds
    /\ pollRest \in Seq(GdmEvents) /\ Len(pollRest) <= MaxQueue
    /\ pollSt \in PollStates

-----------------------------------------------------------------------------
(* Lemmas about the operators of the poll loop.                            *)

\* Adding a message to a well-typed inbox keeps it well typed and touches
\* only that message's count.
LEMMA PutType ==
    ASSUME NEW box \in [Msgs -> Nat], NEW m \in Msgs
    PROVE  /\ Put(box, m) \in [Msgs -> Nat]
           /\ Put(box, m)[m] = box[m] + 1
           /\ \A n \in Msgs \ {m} : Put(box, m)[n] = box[n]
  BY DEF Put

\* One event of the poll: the loop state stays well typed, never gains a
\* gdmPollDone or a startAuthentication, and the waiting flag plus the
\* answers produced never grows: an answer is produced only by giving up
\* waitingAuth.
LEMMA PollEventProps ==
    ASSUME NEW st \in PollStates, NEW e \in GdmEvents
    PROVE  LET r == PollEvent(st, e) IN
           /\ r \in PollStates
           /\ r.out["pollDone"] = st.out["pollDone"]
           /\ r.out["startAuth"] = st.out["startAuth"]
           /\ B(r.waiting) + r.out["isAuthRequested"]
                <= B(st.waiting) + st.out["isAuthRequested"]
  <1> DEFINE r == PollEvent(st, e)
  <1> USE DEF PollStates
  <1>1. CASE e = "userSelected"
    <2>1. r = [st EXCEPT !.out = Put(st.out, "userSelected")]
      BY <1>1 DEF PollEvent
    <2> QED
      BY <2>1 DEF Put, Msgs, B
  <1>2. CASE e = "isAuthRequested" /\ st.waiting
    <2>1. r = [st EXCEPT !.waiting = FALSE, !.out = Put(st.out, "isAuthRequested")]
      BY <1>2 DEF PollEvent
    <2>2. /\ r.waiting = FALSE
          /\ r.err = st.err
          /\ r.out = Put(st.out, "isAuthRequested")
      BY <2>1
    <2>3. /\ Put(st.out, "isAuthRequested") \in [Msgs -> Nat]
          /\ Put(st.out, "isAuthRequested")["isAuthRequested"]
               = st.out["isAuthRequested"] + 1
          /\ Put(st.out, "isAuthRequested")["pollDone"] = st.out["pollDone"]
          /\ Put(st.out, "isAuthRequested")["startAuth"] = st.out["startAuth"]
      BY DEF Put, Msgs
    <2>4. r \in PollStates
      BY <2>1, <2>3
    <2> QED
      BY <1>2, <2>2, <2>3, <2>4 DEF B, Msgs
  <1>3. CASE e = "isAuthRequestedNil" /\ st.waiting
    <2>1. r = [st EXCEPT !.waiting = FALSE, !.err = TRUE]
      BY <1>3 DEF PollEvent
    <2>2. r.waiting = FALSE /\ r.out = st.out /\ r \in PollStates
      BY <2>1
    <2> QED
      BY <1>3, <2>2 DEF B, Msgs
  <1>4. CASE e \in {"isAuthCancelled", "stageOther"} /\ st.waiting
    <2>1. r = [st EXCEPT !.out = Put(st.out, "isAuthCancelled")]
      BY <1>4 DEF PollEvent
    <2> QED
      BY <2>1 DEF Put, Msgs, B
  <1>5. CASE \/ e = "stageChallenge"
             \/ e \in {"isAuthRequested", "isAuthRequestedNil"} /\ ~st.waiting
             \/ e \in {"isAuthCancelled", "stageOther"} /\ ~st.waiting
    <2>1. r = st
      BY <1>5 DEF PollEvent
    <2> QED
      BY <2>1 DEF B, Msgs
  <1> QED
    BY <1>1, <1>2, <1>3, <1>4, <1>5 DEF GdmEvents

\* What pollGdm's commands deliver: a lone pamError on an early return,
\* otherwise the loop's messages and one gdmPollDone.
LEMMA PollOutputProps ==
    ASSUME NEW st \in PollStates
    PROVE  /\ PollOutput(st) \in [Msgs -> Nat]
           /\ PollOutput(st)["pollDone"] = IF st.err THEN 0 ELSE st.out["pollDone"] + 1
           /\ PollOutput(st)["startAuth"] = IF st.err THEN 0 ELSE st.out["startAuth"]
           /\ PollOutput(st)["isAuthRequested"]
                = IF st.err THEN 0 ELSE st.out["isAuthRequested"]
  <1>1. CASE st.err
    <2>1. PollOutput(st) = Put(NoMsgs, "pamError")
      BY <1>1 DEF PollOutput
    <2> QED
      BY <1>1, <2>1 DEF Put, NoMsgs, Msgs
  <1>2. CASE ~st.err
    <2>1. PollOutput(st) = Put(st.out, "pollDone")
      BY <1>2 DEF PollOutput
    <2> QED
      BY <1>2, <2>1 DEF Put, PollStates, Msgs
  <1> QED
    BY <1>1, <1>2

-----------------------------------------------------------------------------
(* The inductive invariant.                                                *)

LEMMA IInvInit == Init => IInv
<1> SUFFICES ASSUME Init PROVE IInv
  OBVIOUS
<1>1. NoMsgs \in [Msgs -> Nat] /\ NoPoll \in PollStates
  BY DEF NoMsgs, NoPoll, PollStates
<1>2. started \in BOOLEAN /\ waitingAuth \in BOOLEAN /\ stopped \in BOOLEAN
      /\ lateTalk \in BOOLEAN /\ polling \in BOOLEAN
  BY Zenon DEF Init
<1>3. gdmQueue \in Seq(GdmEvents) /\ pollRest \in Seq(GdmEvents)
      /\ Len(gdmQueue) <= MaxQueue /\ Len(pollRest) <= MaxQueue
  BY GdmAssumption DEF Init
<1>4. /\ inbox \in [Msgs -> Nat] /\ inbox["pollDone"] \in 0..1
      /\ verdicts \in [Accesses -> Nat] /\ pollSt \in PollStates
  BY <1>1 DEF Init, NoMsgs, Msgs
<1>5. /\ asyncEmits \in Nat /\ inFlight \in Nat /\ forwarded \in Nat
      /\ cancelsSent \in Nat /\ events \in 0..MaxEvents /\ rounds \in 0..MaxRounds
  BY GdmAssumption DEF Init
<1>6. TypeOK
  BY <1>2, <1>3, <1>4, <1>5 DEF TypeOK
<1>7. NoLoopBeforeInit /\ OnePollLoop /\ LoopOutputs /\ OneAuthToken
      /\ ForwardBudget
  BY DEF Init, NoLoopBeforeInit, OnePollLoop, LoopOutputs, OneAuthToken, ForwardBudget,
         Waiting, Pending, B, NoMsgs, NoPoll, Msgs
<1> QED
  BY <1>6, <1>7 DEF IInv

\* The flag and the count the counting invariants are about are a Boolean
\* and a natural in every well-typed state.
LEMMA WaitPendType ==
    ASSUME BoolsOK, DataOK
    PROVE  Waiting \in BOOLEAN /\ Pending \in Nat
  BY DEF BoolsOK, DataOK, Waiting, Pending, PollStates, Msgs

\* A step that leaves Update's state and the loop alone leaves both alone.
LEMMA WaitPendUnchanged ==
    ASSUME UNCHANGED <<waitingAuth, polling, pollSt>>
    PROVE  Waiting' = Waiting /\ Pending' = Pending
  BY DEF Waiting, Pending

\* gdm.SendPoll at Init or on gdmPollDone: whether the loop starts or the
\* poll fails, the inbox keeps its challenge messages, the loop starts from
\* m.waitingAuth with nothing produced, and Waiting and Pending stay put.
LEMMA StartLoop ==
    ASSUME BoolsOK, DataOK, LoopOutputs, ~polling, waitingAuth' = waitingAuth,
           NEW box \in [Msgs -> Nat], box["pollDone"] = 0,
           box["startAuth"] = inbox["startAuth"],
           box["isAuthRequested"] = inbox["isAuthRequested"],
           PollGdm(box) \/ PollFails(box)
    PROVE  /\ inbox' \in [Msgs -> Nat] /\ inbox'["pollDone"] = 0
           /\ inbox'["startAuth"] = inbox["startAuth"]
           /\ inbox'["isAuthRequested"] = inbox["isAuthRequested"]
           /\ polling' \in BOOLEAN /\ B(polling') \in 0..1
           /\ gdmQueue' \in Seq(GdmEvents) /\ Len(gdmQueue') <= MaxQueue
           /\ pollRest' \in Seq(GdmEvents) /\ Len(pollRest') <= MaxQueue
           /\ pollSt' \in PollStates
           /\ pollSt'.out["pollDone"] = 0 /\ pollSt'.out["startAuth"] = 0
           /\ Waiting' = Waiting /\ Pending' = Pending
<1> USE GdmAssumption
<1>1. CASE PollGdm(box)
  <2>1. /\ inbox' = box /\ polling' = TRUE /\ pollRest' = gdmQueue
        /\ pollSt' = [waiting |-> waitingAuth, out |-> NoMsgs, err |-> FALSE]
        /\ gdmQueue' = <<>>
    BY <1>1 DEF PollGdm
  <2>2. /\ pollSt' \in PollStates
        /\ pollSt'.out["pollDone"] = 0 /\ pollSt'.out["startAuth"] = 0
        /\ pollSt'.out["isAuthRequested"] = 0
    BY <2>1 DEF PollStates, NoMsgs, Msgs, BoolsOK
  <2>3. Waiting' = Waiting /\ Pending' = Pending
    BY <2>1, <2>2 DEF Waiting, Pending
  <2>4. polling' \in BOOLEAN /\ B(polling') \in 0..1
    BY <2>1 DEF B
  <2>5. gdmQueue' \in Seq(GdmEvents) /\ Len(gdmQueue') <= MaxQueue
    BY <2>1, EmptySeq
  <2> QED
    BY <2>1, <2>2, <2>3, <2>4, <2>5 DEF DataOK
<1>2. CASE PollFails(box)
  <2>1. inbox' = Put(box, "pamError") /\ UNCHANGED <<gdmQueue, polling, pollRest, pollSt>>
    BY <1>2 DEF PollFails, pollVars
  <2>2. /\ Put(box, "pamError") \in [Msgs -> Nat]
        /\ Put(box, "pamError")["pollDone"] = 0
        /\ Put(box, "pamError")["startAuth"] = inbox["startAuth"]
        /\ Put(box, "pamError")["isAuthRequested"] = inbox["isAuthRequested"]
    BY DEF Put, Msgs
  <2>3. Waiting' = Waiting /\ Pending' = Pending
    BY <2>1, WaitPendUnchanged
  <2>4. polling' \in BOOLEAN
    BY <2>1, Zenon DEF BoolsOK
  <2>5. B(polling') \in 0..1
    BY <2>4 DEF B
  <2> QED
    BY <2>1, <2>2, <2>3, <2>4, <2>5 DEF DataOK, LoopOutputs
<1> QED
  BY <1>1, <1>2

LEMMA IInvStep == IInv /\ [Next]_vars => IInv'
<1> SUFFICES ASSUME IInv, [Next]_vars PROVE IInv'
  OBVIOUS
<1> USE GdmAssumption
<1>0. /\ BoolsOK /\ DataOK /\ NoLoopBeforeInit
      /\ OnePollLoop /\ LoopOutputs /\ OneAuthToken /\ ForwardBudget
      /\ inbox \in [Msgs -> Nat]
      /\ inbox["pollDone"] \in Nat /\ inbox["startAuth"] \in Nat
      /\ inbox["isAuthRequested"] \in Nat
      /\ inFlight \in Nat /\ forwarded \in Nat
      /\ Waiting \in BOOLEAN /\ Pending \in Nat
      /\ B(Waiting) \in 0..1 /\ B(polling) \in 0..1
  <2>1. BoolsOK /\ DataOK /\ NoLoopBeforeInit /\ OnePollLoop /\ LoopOutputs
        /\ OneAuthToken /\ ForwardBudget
    BY Zenon DEF IInv, TypeOK, BoolsOK, DataOK
  <2>2. Waiting \in BOOLEAN /\ Pending \in Nat
    BY <2>1, WaitPendType
  <2>3. B(Waiting) \in 0..1 /\ B(polling) \in 0..1
    BY <2>1, <2>2 DEF BoolsOK, B
  <2> QED
    BY <2>1, <2>2, <2>3 DEF DataOK, Msgs
<1> HIDE DEF Waiting, Pending
<1> SUFFICES BoolsOK' /\ DataOK' /\ NoLoopBeforeInit' /\ OnePollLoop'
             /\ LoopOutputs' /\ OneAuthToken' /\ ForwardBudget'
  BY Zenon DEF IInv, TypeOK, BoolsOK, DataOK
<1>1. CASE Start
  <2>1. /\ ~started /\ started' = TRUE /\ asyncEmits' = asyncEmits + 1
        /\ UNCHANGED <<waitingAuth, stopped, verdicts, inFlight, forwarded,
                       cancelsSent, lateTalk, events, rounds>>
        /\ \E ok \in BOOLEAN :
             PollGdm(IF ok THEN inbox ELSE Put(inbox, "pamError"))
             \/ PollFails(IF ok THEN inbox ELSE Put(inbox, "pamError"))
    BY <1>1 DEF Start
  <2>2. inbox["pollDone"] = 0 /\ ~polling
    BY <1>0, <2>1, Zenon DEF NoLoopBeforeInit
  <2>3. PICK ok \in BOOLEAN :
          PollGdm(IF ok THEN inbox ELSE Put(inbox, "pamError"))
          \/ PollFails(IF ok THEN inbox ELSE Put(inbox, "pamError"))
    BY <2>1
  <2> DEFINE box == IF ok THEN inbox ELSE Put(inbox, "pamError")
  <2>4. /\ box \in [Msgs -> Nat] /\ box["pollDone"] = 0
        /\ box["startAuth"] = inbox["startAuth"]
        /\ box["isAuthRequested"] = inbox["isAuthRequested"]
    BY <1>0, <2>2 DEF Put, Msgs
  <2>5. /\ inbox' \in [Msgs -> Nat] /\ inbox'["pollDone"] = 0
        /\ inbox'["startAuth"] = inbox["startAuth"]
        /\ inbox'["isAuthRequested"] = inbox["isAuthRequested"]
        /\ polling' \in BOOLEAN /\ B(polling') \in 0..1
        /\ gdmQueue' \in Seq(GdmEvents) /\ Len(gdmQueue') <= MaxQueue
        /\ pollRest' \in Seq(GdmEvents) /\ Len(pollRest') <= MaxQueue
        /\ pollSt' \in PollStates
        /\ pollSt'.out["pollDone"] = 0 /\ pollSt'.out["startAuth"] = 0
        /\ Waiting' = Waiting /\ Pending' = Pending
    BY <1>0, <2>1, <2>2, <2>3, <2>4, StartLoop
  <2>6. BoolsOK'
    BY <1>0, <2>1, <2>5, Zenon DEF BoolsOK
  <2>7. DataOK'
    BY <1>0, <2>1, <2>5 DEF DataOK
  <2>20. NoLoopBeforeInit'
    BY <2>1 DEF NoLoopBeforeInit
  <2> QED
    BY <2>20, <1>0, <2>1, <2>5, <2>6, <2>7 DEF OnePollLoop, LoopOutputs, OneAuthToken, ForwardBudget
<1>2. CASE HandlePollDone
  <2>1. /\ started /\ ~polling /\ inbox["pollDone"] > 0
        /\ UNCHANGED <<started, waitingAuth, stopped, verdicts, asyncEmits,
                       inFlight, forwarded, cancelsSent, lateTalk, events, rounds>>
        /\ PollGdm(Take(inbox, "pollDone")) \/ PollFails(Take(inbox, "pollDone"))
    BY <1>2 DEF HandlePollDone
  <2>2. /\ Take(inbox, "pollDone") \in [Msgs -> Nat]
        /\ Take(inbox, "pollDone")["pollDone"] = 0
        /\ Take(inbox, "pollDone")["startAuth"] = inbox["startAuth"]
        /\ Take(inbox, "pollDone")["isAuthRequested"] = inbox["isAuthRequested"]
    BY <1>0, <2>1 DEF DataOK, Take, Msgs
  <2>3. /\ inbox' \in [Msgs -> Nat] /\ inbox'["pollDone"] = 0
        /\ inbox'["startAuth"] = inbox["startAuth"]
        /\ inbox'["isAuthRequested"] = inbox["isAuthRequested"]
        /\ polling' \in BOOLEAN /\ B(polling') \in 0..1
        /\ gdmQueue' \in Seq(GdmEvents) /\ Len(gdmQueue') <= MaxQueue
        /\ pollRest' \in Seq(GdmEvents) /\ Len(pollRest') <= MaxQueue
        /\ pollSt' \in PollStates
        /\ pollSt'.out["pollDone"] = 0 /\ pollSt'.out["startAuth"] = 0
        /\ Waiting' = Waiting /\ Pending' = Pending
    BY <1>0, <2>1, <2>2, StartLoop
  <2>4. BoolsOK'
    BY <1>0, <2>1, <2>3, Zenon DEF BoolsOK
  <2>5. DataOK'
    BY <1>0, <2>1, <2>3 DEF DataOK
  <2>20. NoLoopBeforeInit'
    BY <2>1 DEF NoLoopBeforeInit
  <2> QED
    BY <2>20, <1>0, <2>1, <2>3, <2>4, <2>5 DEF OnePollLoop, LoopOutputs, OneAuthToken, ForwardBudget
<1>3. CASE PollStep
  <2>1. /\ polling /\ pollRest # <<>>
        /\ pollSt' = PollEvent(pollSt, Head(pollRest))
        /\ pollRest' = Tail(pollRest)
        /\ UNCHANGED <<started, waitingAuth, stopped, gdmQueue, inbox, verdicts,
                       asyncEmits, inFlight, forwarded, cancelsSent, lateTalk,
                       events, rounds, polling>>
    BY <1>3 DEF PollStep
  <2>2. /\ Head(pollRest) \in GdmEvents
        /\ Tail(pollRest) \in Seq(GdmEvents)
        /\ Len(Tail(pollRest)) <= MaxQueue
    BY <1>0, <2>1, HeadTailProperties DEF DataOK
  <2>3. /\ pollSt' \in PollStates
        /\ pollSt'.out["pollDone"] = pollSt.out["pollDone"]
        /\ pollSt'.out["startAuth"] = pollSt.out["startAuth"]
        /\ B(pollSt'.waiting) + pollSt'.out["isAuthRequested"]
             <= B(pollSt.waiting) + pollSt.out["isAuthRequested"]
    BY <1>0, <2>1, <2>2, PollEventProps DEF DataOK
  <2>4. /\ Waiting' = pollSt'.waiting /\ Pending' = pollSt'.out["isAuthRequested"]
        /\ Waiting = pollSt.waiting /\ Pending = pollSt.out["isAuthRequested"]
    BY <2>1 DEF Waiting, Pending
  <2>5. pollSt'.out["isAuthRequested"] \in Nat /\ pollSt'.waiting \in BOOLEAN
    BY <2>3 DEF PollStates, Msgs
  <2>6. BoolsOK'
    BY <1>0, <2>1, Zenon DEF BoolsOK
  <2>7. DataOK'
    BY <1>0, <2>1, <2>2, <2>3 DEF DataOK
  <2>20. NoLoopBeforeInit'
    BY <1>0, <2>1, Zenon DEF NoLoopBeforeInit
  <2>21. B(Waiting') + Pending' <= B(Waiting) + Pending
    BY <2>3, <2>4
  <2>22. OnePollLoop' /\ LoopOutputs'
    BY <1>0, <2>1, <2>3 DEF OnePollLoop, LoopOutputs
  <2>24. B(Waiting') \in 0..1 /\ Pending' \in Nat
    BY <2>4, <2>5 DEF B
  <2>25. /\ inbox'["startAuth"] + B(Waiting') + Pending'
             + inbox'["isAuthRequested"] + inFlight' <= 1
        /\ forwarded' + B(Waiting') + Pending' <= 1
    <3>1. inbox' = inbox /\ inFlight' = inFlight /\ forwarded' = forwarded
      BY <2>1
    <3> QED
      BY <1>0, <3>1, <2>21, <2>24 DEF OneAuthToken, ForwardBudget
  <2>23. OneAuthToken' /\ ForwardBudget'
    BY <2>25 DEF OneAuthToken, ForwardBudget
  <2> QED
    BY <2>6, <2>7, <2>20, <2>22, <2>23
<1>4. CASE PollReturn
  <2>1. /\ polling
        /\ waitingAuth' = pollSt.waiting
        /\ inbox' = Deliver(inbox, PollOutput(pollSt))
        /\ forwarded' = forwarded + PollOutput(pollSt)["isAuthRequested"]
        /\ polling' = FALSE /\ pollRest' = <<>> /\ pollSt' = NoPoll
        /\ UNCHANGED <<started, stopped, gdmQueue, verdicts, asyncEmits,
                       inFlight, cancelsSent, lateTalk, events, rounds>>
    BY <1>4 DEF PollReturn
  <2> DEFINE o == PollOutput(pollSt)
  <2>2. /\ o \in [Msgs -> Nat]
        /\ o["pollDone"] = IF pollSt.err THEN 0 ELSE pollSt.out["pollDone"] + 1
        /\ o["startAuth"] = IF pollSt.err THEN 0 ELSE pollSt.out["startAuth"]
        /\ o["isAuthRequested"]
             = IF pollSt.err THEN 0 ELSE pollSt.out["isAuthRequested"]
    BY <1>0, PollOutputProps DEF DataOK
  <2>11. /\ pollSt.out["isAuthRequested"] \in Nat
         /\ pollSt.waiting \in BOOLEAN /\ pollSt.err \in BOOLEAN
    BY <1>0 DEF DataOK, PollStates, Msgs
  <2>3. /\ o["pollDone"] \in 0..1 /\ o["startAuth"] = 0
        /\ o["isAuthRequested"] \in Nat
        /\ o["isAuthRequested"] <= pollSt.out["isAuthRequested"]
        /\ pollSt.waiting \in BOOLEAN
    <3>1. CASE pollSt.err
      BY <2>2, <2>11, <3>1
    <3>2. CASE ~pollSt.err
      BY <1>0, <2>2, <2>11, <3>2 DEF LoopOutputs
    <3> QED
      BY <3>1, <3>2
  <2>4. B(polling) = 1 /\ B(polling') = 0
    BY <2>1 DEF B
  <2>12. inbox["pollDone"] = 0
    BY <1>0, <2>4 DEF OnePollLoop
  <2>13. started
    BY <1>0, <2>1, Zenon DEF NoLoopBeforeInit
  <2>5. inbox["pollDone"] = 0 /\ started
    BY <2>12, <2>13
  <2>6. /\ Waiting' = Waiting /\ Pending' = 0
        /\ Pending = pollSt.out["isAuthRequested"]
    BY <2>1 DEF Waiting, Pending, NoPoll, NoMsgs, Msgs
  <2>14. /\ Deliver(inbox, o) \in [Msgs -> Nat]
         /\ Deliver(inbox, o)["pollDone"] = inbox["pollDone"] + o["pollDone"]
         /\ Deliver(inbox, o)["startAuth"] = inbox["startAuth"] + o["startAuth"]
         /\ Deliver(inbox, o)["isAuthRequested"]
              = inbox["isAuthRequested"] + o["isAuthRequested"]
    BY <1>0, <2>2 DEF Deliver, Msgs
  <2>7. /\ inbox' \in [Msgs -> Nat]
        /\ inbox'["pollDone"] = o["pollDone"]
        /\ inbox'["startAuth"] = inbox["startAuth"]
        /\ inbox'["isAuthRequested"] = inbox["isAuthRequested"] + o["isAuthRequested"]
    BY <1>0, <2>1, <2>3, <2>5, <2>14
  <2>8. /\ pollSt' \in PollStates
        /\ pollSt'.out["pollDone"] = 0 /\ pollSt'.out["startAuth"] = 0
    BY <2>1 DEF NoPoll, NoMsgs, PollStates, Msgs
  <2>9. BoolsOK'
    BY <1>0, <2>1, <2>3, Zenon DEF BoolsOK
  <2>10. DataOK'
    BY <1>0, <2>1, <2>3, <2>7, <2>8, EmptySeq DEF DataOK
  <2>20. NoLoopBeforeInit'
    BY <2>1, <2>5, Zenon DEF NoLoopBeforeInit
  <2>21. OnePollLoop'
    BY <2>3, <2>4, <2>7 DEF OnePollLoop
  <2>22. LoopOutputs'
    BY <2>8 DEF LoopOutputs
  <2>25. B(Waiting') \in 0..1
    BY <1>0, <2>6
  <2>26. inbox'["startAuth"] + B(Waiting') + Pending'
          + inbox'["isAuthRequested"] + inFlight' <= 1
    <3>1. inFlight' = inFlight
      BY <2>1
    <3> QED
      BY <1>0, <2>3, <2>6, <2>7, <2>25, <3>1 DEF OneAuthToken
  <2>23. OneAuthToken'
    BY <2>26 DEF OneAuthToken
  <2>24. ForwardBudget'
    BY <1>0, <2>1, <2>3, <2>6, <2>25 DEF ForwardBudget
  <2> QED
    BY <2>9, <2>10, <2>20, <2>21, <2>22, <2>23, <2>24
<1>5. CASE HandleStartAuth
  <2>1. /\ ~polling /\ inbox["startAuth"] > 0
        /\ inbox' = Take(inbox, "startAuth")
        /\ UNCHANGED <<started, stopped, gdmQueue, verdicts, asyncEmits, inFlight,
                       lateTalk, events, rounds, polling, pollRest, pollSt>>
    BY <1>5 DEF HandleStartAuth, pollVars
  <2>2. /\ Take(inbox, "startAuth") \in [Msgs -> Nat]
        /\ Take(inbox, "startAuth")["pollDone"] = inbox["pollDone"]
        /\ Take(inbox, "startAuth")["startAuth"] = inbox["startAuth"] - 1
        /\ Take(inbox, "startAuth")["isAuthRequested"] = inbox["isAuthRequested"]
    BY <1>0, <2>1 DEF Take, Msgs
  <2>3. Pending' = 0 /\ Pending = 0
    BY <2>1 DEF Pending
  <2>4. CASE waitingAuth
    <3>1. UNCHANGED <<waitingAuth, forwarded, cancelsSent>>
      BY <1>5, <2>4 DEF HandleStartAuth
    <3>2. Waiting' = Waiting
      BY <2>1, <3>1, WaitPendUnchanged
    <3>3. BoolsOK'
      BY <1>0, <2>1, <3>1, Zenon DEF BoolsOK
    <3>4. DataOK'
      BY <1>0, <2>1, <2>2, <3>1 DEF DataOK
    <3>20. NoLoopBeforeInit'
      BY <1>0, <2>1, <2>2, Zenon DEF NoLoopBeforeInit
    <3> QED
      BY <3>20, <1>0, <2>1, <2>2, <2>3, <3>1, <3>2, <3>3, <3>4
         DEF OnePollLoop, LoopOutputs, OneAuthToken, ForwardBudget
  <2>5. CASE ~waitingAuth
    <3>1. waitingAuth' = TRUE /\ forwarded' = 0 /\ cancelsSent' = 0
      BY <1>5, <2>5 DEF HandleStartAuth
    <3>2. B(Waiting) = 0 /\ B(Waiting') = 1
      BY <2>1, <2>5, <3>1 DEF Waiting, B
    <3>3. BoolsOK'
      BY <1>0, <2>1, <3>1, Zenon DEF BoolsOK
    <3>4. DataOK'
      BY <1>0, <2>1, <2>2, <3>1 DEF DataOK
    <3>20. NoLoopBeforeInit'
      BY <1>0, <2>1, <2>2, Zenon DEF NoLoopBeforeInit
    <3> QED
      BY <3>20, <1>0, <2>1, <2>2, <2>3, <3>1, <3>2, <3>3, <3>4
         DEF OnePollLoop, LoopOutputs, OneAuthToken, ForwardBudget
  <2> QED
    BY <2>4, <2>5
<1>6. CASE HandleUserSelected
  <2>1. /\ ~polling
        /\ inbox["userSelected"] > 0
        /\ inbox' = Take(inbox, "userSelected")
        /\ asyncEmits' = asyncEmits + 1
        /\ UNCHANGED <<started, waitingAuth, stopped, gdmQueue, verdicts,
                       inFlight, forwarded, cancelsSent, lateTalk, events, rounds,
                       polling, pollRest, pollSt>>
    BY <1>6 DEF HandleUserSelected, pollVars
  <2>2. /\ Take(inbox, "userSelected") \in [Msgs -> Nat]
        /\ Take(inbox, "userSelected")["pollDone"] = inbox["pollDone"]
        /\ Take(inbox, "userSelected")["startAuth"] = inbox["startAuth"]
        /\ Take(inbox, "userSelected")["isAuthRequested"] = inbox["isAuthRequested"]
    BY <1>0, <2>1 DEF Take, Msgs
  <2>3. Waiting' = Waiting /\ Pending' = Pending
    BY <2>1, WaitPendUnchanged
  <2>4. BoolsOK'
    BY <1>0, <2>1, Zenon DEF BoolsOK
  <2>5. DataOK'
    BY <1>0, <2>1, <2>2 DEF DataOK
  <2>20. NoLoopBeforeInit'
    BY <1>0, <2>1, <2>2, Zenon DEF NoLoopBeforeInit
  <2> QED
    BY <2>20, <1>0, <2>1, <2>2, <2>3, <2>4, <2>5 DEF OnePollLoop, LoopOutputs, OneAuthToken, ForwardBudget
<1>7. CASE HandleCancelled
  <2>1. /\ ~polling
        /\ inbox["isAuthCancelled"] > 0
        /\ inbox' = Take(inbox, "isAuthCancelled")
        /\ waitingAuth' = FALSE
        /\ cancelsSent' = cancelsSent + 1
        /\ UNCHANGED <<started, stopped, gdmQueue, verdicts, asyncEmits, inFlight,
                       forwarded, lateTalk, events, rounds, polling, pollRest,
                       pollSt>>
    BY <1>7 DEF HandleCancelled, pollVars
  <2>2. /\ Take(inbox, "isAuthCancelled") \in [Msgs -> Nat]
        /\ Take(inbox, "isAuthCancelled")["pollDone"] = inbox["pollDone"]
        /\ Take(inbox, "isAuthCancelled")["startAuth"] = inbox["startAuth"]
        /\ Take(inbox, "isAuthCancelled")["isAuthRequested"] = inbox["isAuthRequested"]
    BY <1>0, <2>1 DEF Take, Msgs
  <2>3. B(Waiting') = 0 /\ Pending' = 0 /\ Pending = 0
    BY <2>1 DEF Waiting, Pending, B
  <2>4. BoolsOK'
    BY <1>0, <2>1, Zenon DEF BoolsOK
  <2>5. DataOK'
    BY <1>0, <2>1, <2>2 DEF DataOK
  <2>20. NoLoopBeforeInit'
    BY <1>0, <2>1, <2>2, Zenon DEF NoLoopBeforeInit
  <2> QED
    BY <2>20, <1>0, <2>1, <2>2, <2>3, <2>4, <2>5 DEF OnePollLoop, LoopOutputs, OneAuthToken, ForwardBudget
<1>8. ASSUME NEW a \in Accesses, HandleVerdict(a)
      PROVE BoolsOK' /\ DataOK' /\ NoLoopBeforeInit' /\ OnePollLoop'
            /\ LoopOutputs' /\ OneAuthToken' /\ ForwardBudget'
  <2>1. /\ ~polling /\ verdicts[a] > 0
        /\ UNCHANGED <<started, waitingAuth, stopped, gdmQueue, asyncEmits,
                       inFlight, forwarded, cancelsSent, lateTalk, events, rounds,
                       polling, pollRest, pollSt>>
    BY <1>8 DEF HandleVerdict, pollVars
  <2>2. /\ verdicts' \in [Accesses -> Nat]
        /\ inbox' = inbox \/ inbox' = Put(inbox, "isAuthCancelled")
    <3>1. CASE a \in {"granted", "denied", "retry", "next"}
      <4>1. verdicts' = [verdicts EXCEPT ![a] = @ - 1] /\ inbox' = inbox
        BY <1>8, <3>1 DEF HandleVerdict
      <4> QED
        BY <1>0, <2>1, <4>1 DEF DataOK
    <3>2. CASE a = "cancelled"
      BY <1>0, <1>8, <2>1, <3>2 DEF HandleVerdict, DataOK
    <3>3. CASE a = "invalid"
      <4>1. /\ verdicts' = [verdicts EXCEPT ![a] = @ - 1, !["denied"] = @ + 1]
            /\ inbox' = inbox
        BY <1>8, <3>3 DEF HandleVerdict
      <4>2. verdicts \in [Accesses -> Nat] /\ verdicts[a] > 0
        BY <1>0, <2>1 DEF DataOK
      <4> QED
        BY <3>3, <4>1, <4>2 DEF Accesses
    <3> QED
      BY <3>1, <3>2, <3>3 DEF Accesses
  <2>3. /\ inbox' \in [Msgs -> Nat]
        /\ inbox'["pollDone"] = inbox["pollDone"]
        /\ inbox'["startAuth"] = inbox["startAuth"]
        /\ inbox'["isAuthRequested"] = inbox["isAuthRequested"]
    BY <1>0, <2>2 DEF Put, Msgs
  <2>4. Waiting' = Waiting /\ Pending' = Pending
    BY <2>1, WaitPendUnchanged
  <2>5. BoolsOK'
    BY <1>0, <2>1, Zenon DEF BoolsOK
  <2>6. DataOK'
    BY <1>0, <2>1, <2>2, <2>3 DEF DataOK
  <2>20. NoLoopBeforeInit'
    BY <1>0, <2>1, <2>3, Zenon DEF NoLoopBeforeInit
  <2> QED
    BY <2>20, <1>0, <2>1, <2>3, <2>4, <2>5, <2>6
       DEF OnePollLoop, LoopOutputs, OneAuthToken, ForwardBudget
<1>9. ASSUME NEW a \in Accesses, HandleVerdictBadMsg(a)
      PROVE BoolsOK' /\ DataOK' /\ NoLoopBeforeInit' /\ OnePollLoop'
            /\ LoopOutputs' /\ OneAuthToken' /\ ForwardBudget'
  <2>1. /\ ~polling
        /\ verdicts[a] > 0
        /\ verdicts' = [verdicts EXCEPT ![a] = @ - 1]
        /\ inbox' = Put(inbox, "pamError")
        /\ UNCHANGED <<started, waitingAuth, stopped, gdmQueue, asyncEmits,
                       inFlight, forwarded, cancelsSent, lateTalk, events, rounds,
                       polling, pollRest, pollSt>>
    BY <1>9 DEF HandleVerdictBadMsg, pollVars
  <2>2. /\ Put(inbox, "pamError") \in [Msgs -> Nat]
        /\ Put(inbox, "pamError")["pollDone"] = inbox["pollDone"]
        /\ Put(inbox, "pamError")["startAuth"] = inbox["startAuth"]
        /\ Put(inbox, "pamError")["isAuthRequested"] = inbox["isAuthRequested"]
    BY <1>0, <2>1 DEF Put, Msgs
  <2>3. Waiting' = Waiting /\ Pending' = Pending
    BY <2>1, WaitPendUnchanged
  <2>4. BoolsOK'
    BY <1>0, <2>1, Zenon DEF BoolsOK
  <2>5. DataOK'
    BY <1>0, <2>1, <2>2 DEF DataOK
  <2>20. NoLoopBeforeInit'
    BY <1>0, <2>1, <2>2, Zenon DEF NoLoopBeforeInit
  <2> QED
    BY <2>20, <1>0, <2>1, <2>2, <2>3, <2>4, <2>5 DEF OnePollLoop, LoopOutputs, OneAuthToken, ForwardBudget
<1>10. CASE DropMsg
  <2>1. /\ ~polling
        /\ \/ \E m \in {"pollDone", "startAuth", "isAuthCancelled", "userSelected"} :
                /\ inbox[m] > 0 /\ inbox' = Take(inbox, m) /\ verdicts' = verdicts
           \/ \E a \in Accesses :
                /\ verdicts[a] > 0
                /\ verdicts' = [verdicts EXCEPT ![a] = @ - 1]
                /\ inbox' = inbox
        /\ UNCHANGED <<started, waitingAuth, stopped, gdmQueue, asyncEmits,
                       inFlight, forwarded, cancelsSent, lateTalk, events, rounds,
                       polling, pollRest, pollSt>>
    BY <1>10 DEF DropMsg, pollVars
  <2>2. /\ verdicts' \in [Accesses -> Nat]
        /\ inbox' \in [Msgs -> Nat]
        /\ inbox'["pollDone"] \in 0..1
        /\ inbox'["pollDone"] <= inbox["pollDone"]
        /\ inbox'["startAuth"] <= inbox["startAuth"]
        /\ inbox'["isAuthRequested"] = inbox["isAuthRequested"]
    <3>1. CASE \E m \in {"pollDone", "startAuth", "isAuthCancelled", "userSelected"} :
                /\ inbox[m] > 0 /\ inbox' = Take(inbox, m) /\ verdicts' = verdicts
      <4>1. PICK m \in {"pollDone", "startAuth", "isAuthCancelled", "userSelected"} :
                /\ inbox[m] > 0 /\ inbox' = Take(inbox, m) /\ verdicts' = verdicts
        BY <3>1
      <4> QED
        BY <1>0, <4>1 DEF DataOK, Take, Msgs
    <3>2. CASE \E a \in Accesses :
                /\ verdicts[a] > 0
                /\ verdicts' = [verdicts EXCEPT ![a] = @ - 1]
                /\ inbox' = inbox
      <4>1. PICK a \in Accesses :
                /\ verdicts[a] > 0
                /\ verdicts' = [verdicts EXCEPT ![a] = @ - 1]
                /\ inbox' = inbox
        BY <3>2
      <4>2. verdicts' \in [Accesses -> Nat]
        BY <1>0, <4>1 DEF DataOK
      <4> QED
        BY <1>0, <4>1, <4>2 DEF DataOK
    <3> QED
      BY <2>1, <3>1, <3>2
  <2>3. Waiting' = Waiting /\ Pending' = Pending
    BY <2>1, WaitPendUnchanged
  <2>4. BoolsOK'
    BY <1>0, <2>1, Zenon DEF BoolsOK
  <2>5. DataOK'
    BY <1>0, <2>1, <2>2 DEF DataOK
  <2>20. NoLoopBeforeInit'
    <3> SUFFICES ASSUME ~started' PROVE inbox'["pollDone"] = 0 /\ ~polling'
      BY Zenon DEF NoLoopBeforeInit
    <3>1. inbox["pollDone"] = 0 /\ ~polling
      BY <1>0, <2>1, Zenon DEF NoLoopBeforeInit
    <3>2. inbox'["pollDone"] = 0
      BY <1>0, <2>2, <3>1
    <3>3. ~polling'
      BY <2>1, <3>1, Zenon
    <3> QED
      BY <3>2, <3>3
  <2>21. OnePollLoop' /\ LoopOutputs'
    BY <1>0, <2>1, <2>2 DEF OnePollLoop, LoopOutputs
  <2>23. B(Waiting') \in 0..1 /\ Pending' \in Nat
    BY <1>0, <2>3
  <2>24. /\ inbox'["startAuth"] + B(Waiting') + Pending'
             + inbox'["isAuthRequested"] + inFlight' <= 1
        /\ forwarded' + B(Waiting') + Pending' <= 1
    <3>1. inFlight' = inFlight /\ forwarded' = forwarded
      BY <2>1
    <3>2. inbox'["startAuth"] \in Nat /\ inbox'["isAuthRequested"] \in Nat
      BY <2>2 DEF Msgs
    <3>3. B(Waiting') = B(Waiting) /\ Pending' = Pending
      BY <2>3
    <3> QED
      BY <1>0, <2>2, <3>1, <3>2, <3>3 DEF OneAuthToken, ForwardBudget
  <2>22. OneAuthToken' /\ ForwardBudget'
    BY <2>24 DEF OneAuthToken, ForwardBudget
  <2> QED
    BY <2>4, <2>5, <2>20, <2>21, <2>22
<1>11. CASE RunAsyncEmit
  <2>1. /\ asyncEmits > 0
        /\ asyncEmits' = asyncEmits - 1
        /\ lateTalk' = (lateTalk \/ stopped)
        /\ UNCHANGED <<started, waitingAuth, stopped, gdmQueue, inbox, verdicts,
                       inFlight, forwarded, cancelsSent, events, rounds, polling,
                       pollRest, pollSt>>
    BY <1>11 DEF RunAsyncEmit, pollVars
  <2>2. inbox' = inbox
    BY <1>0, <2>1
  <2>3. Waiting' = Waiting /\ Pending' = Pending
    BY <2>1, WaitPendUnchanged
  <2>4. BoolsOK'
    BY <1>0, <2>1, Zenon DEF BoolsOK
  <2>5. DataOK'
    BY <1>0, <2>1, <2>2 DEF DataOK
  <2>20. NoLoopBeforeInit'
    BY <1>0, <2>1, <2>2, Zenon DEF NoLoopBeforeInit
  <2> QED
    BY <2>20, <1>0, <2>1, <2>2, <2>3, <2>4, <2>5 DEF OnePollLoop, LoopOutputs, OneAuthToken, ForwardBudget
<1>12. CASE StopConversations
  <2>1. /\ ~polling
        /\ stopped' = TRUE
        /\ UNCHANGED <<started, waitingAuth, gdmQueue, inbox, verdicts,
                       asyncEmits, inFlight, forwarded, cancelsSent, lateTalk,
                       events, rounds, polling, pollRest, pollSt>>
    BY <1>12 DEF StopConversations, pollVars
  <2>2. inbox' = inbox
    BY <1>0, <2>1
  <2>3. Waiting' = Waiting /\ Pending' = Pending
    BY <2>1, WaitPendUnchanged
  <2>4. BoolsOK'
    BY <1>0, <2>1, Zenon DEF BoolsOK
  <2>5. DataOK'
    BY <1>0, <2>1, <2>2 DEF DataOK
  <2>20. NoLoopBeforeInit'
    BY <1>0, <2>1, <2>2, Zenon DEF NoLoopBeforeInit
  <2> QED
    BY <2>20, <1>0, <2>1, <2>2, <2>3, <2>4, <2>5 DEF OnePollLoop, LoopOutputs, OneAuthToken, ForwardBudget
<1>13. ASSUME NEW e \in GdmEvents, GdmUserEvent(e)
      PROVE BoolsOK' /\ DataOK' /\ NoLoopBeforeInit' /\ OnePollLoop'
            /\ LoopOutputs' /\ OneAuthToken' /\ ForwardBudget'
  <2>1. /\ Len(gdmQueue) < MaxQueue
        /\ events < MaxEvents
        /\ gdmQueue' = Append(gdmQueue, e)
        /\ events' = events + 1
        /\ UNCHANGED <<started, waitingAuth, stopped, inbox, verdicts, asyncEmits,
                       inFlight, forwarded, cancelsSent, lateTalk, rounds,
                       polling, pollRest, pollSt>>
    BY <1>13 DEF GdmUserEvent, pollVars
  <2>2. gdmQueue' \in Seq(GdmEvents) /\ Len(gdmQueue') <= MaxQueue
    BY <1>0, <2>1 DEF DataOK
  <2>3. Waiting' = Waiting /\ Pending' = Pending
    BY <2>1, WaitPendUnchanged
  <2>4. BoolsOK'
    BY <1>0, <2>1, Zenon DEF BoolsOK
  <2>5. DataOK'
    BY <1>0, <2>1, <2>2, AppendProperties DEF DataOK
  <2>20. NoLoopBeforeInit'
    BY <1>0, <2>1, Zenon DEF NoLoopBeforeInit
  <2> QED
    BY <2>20, <1>0, <2>1, <2>2, <2>3, <2>4, <2>5 DEF OnePollLoop, LoopOutputs, OneAuthToken, ForwardBudget
<1>14. CASE ParentStartAuth
  <2>1. /\ ~polling
        /\ ~waitingAuth
        /\ inbox["startAuth"] = 0
        /\ inFlight = 0
        /\ inbox["isAuthRequested"] = 0
        /\ rounds < MaxRounds
        /\ inbox' = Put(inbox, "startAuth")
        /\ rounds' = rounds + 1
        /\ UNCHANGED <<started, waitingAuth, stopped, gdmQueue, verdicts,
                       asyncEmits, inFlight, forwarded, cancelsSent, lateTalk,
                       events, polling, pollRest, pollSt>>
    BY <1>14 DEF ParentStartAuth, pollVars
  <2>2. /\ Put(inbox, "startAuth") \in [Msgs -> Nat]
        /\ Put(inbox, "startAuth")["pollDone"] = inbox["pollDone"]
        /\ Put(inbox, "startAuth")["startAuth"] = 1
        /\ Put(inbox, "startAuth")["isAuthRequested"] = 0
    BY <1>0, <2>1 DEF Put, Msgs
  <2>3. Waiting' = Waiting /\ Pending' = Pending /\ B(Waiting) = 0 /\ Pending = 0
    BY <2>1, WaitPendUnchanged DEF Waiting, Pending, B
  <2>4. BoolsOK'
    BY <1>0, <2>1, Zenon DEF BoolsOK
  <2>5. DataOK'
    BY <1>0, <2>1, <2>2 DEF DataOK
  <2>20. NoLoopBeforeInit'
    BY <1>0, <2>1, <2>2, Zenon DEF NoLoopBeforeInit
  <2> QED
    BY <2>20, <1>0, <2>1, <2>2, <2>3, <2>4, <2>5 DEF OnePollLoop, LoopOutputs, OneAuthToken, ForwardBudget
<1>15. CASE ParentAuthenticate
  <2>1. /\ ~polling
        /\ inbox["isAuthRequested"] > 0
        /\ inbox' = Take(inbox, "isAuthRequested")
        /\ inFlight' = inFlight + 1
        /\ UNCHANGED <<started, waitingAuth, stopped, gdmQueue, verdicts,
                       asyncEmits, forwarded, cancelsSent, lateTalk, events,
                       rounds, polling, pollRest, pollSt>>
    BY <1>15 DEF ParentAuthenticate, pollVars
  <2>2. /\ Take(inbox, "isAuthRequested") \in [Msgs -> Nat]
        /\ Take(inbox, "isAuthRequested")["pollDone"] = inbox["pollDone"]
        /\ Take(inbox, "isAuthRequested")["startAuth"] = inbox["startAuth"]
        /\ Take(inbox, "isAuthRequested")["isAuthRequested"]
             = inbox["isAuthRequested"] - 1
    BY <1>0, <2>1 DEF Take, Msgs
  <2>3. Waiting' = Waiting /\ Pending' = Pending
    BY <2>1, WaitPendUnchanged
  <2>4. BoolsOK'
    BY <1>0, <2>1, Zenon DEF BoolsOK
  <2>5. DataOK'
    BY <1>0, <2>1, <2>2 DEF DataOK
  <2>20. NoLoopBeforeInit'
    BY <1>0, <2>1, <2>2, Zenon DEF NoLoopBeforeInit
  <2> QED
    BY <2>20, <1>0, <2>1, <2>2, <2>3, <2>4, <2>5 DEF OnePollLoop, LoopOutputs, OneAuthToken, ForwardBudget
<1>16. CASE ParentPamError
  <2>1. /\ ~polling
        /\ inbox["pamError"] > 0
        /\ inbox' = Take(inbox, "pamError")
        /\ UNCHANGED <<started, waitingAuth, stopped, gdmQueue, verdicts,
                       asyncEmits, inFlight, forwarded, cancelsSent, lateTalk,
                       events, rounds, polling, pollRest, pollSt>>
    BY <1>16 DEF ParentPamError, pollVars
  <2>2. /\ Take(inbox, "pamError") \in [Msgs -> Nat]
        /\ Take(inbox, "pamError")["pollDone"] = inbox["pollDone"]
        /\ Take(inbox, "pamError")["startAuth"] = inbox["startAuth"]
        /\ Take(inbox, "pamError")["isAuthRequested"] = inbox["isAuthRequested"]
    BY <1>0, <2>1 DEF Take, Msgs
  <2>3. Waiting' = Waiting /\ Pending' = Pending
    BY <2>1, WaitPendUnchanged
  <2>4. BoolsOK'
    BY <1>0, <2>1, Zenon DEF BoolsOK
  <2>5. DataOK'
    BY <1>0, <2>1, <2>2 DEF DataOK
  <2>20. NoLoopBeforeInit'
    BY <1>0, <2>1, <2>2, Zenon DEF NoLoopBeforeInit
  <2> QED
    BY <2>20, <1>0, <2>1, <2>2, <2>3, <2>4, <2>5 DEF OnePollLoop, LoopOutputs, OneAuthToken, ForwardBudget
<1>17. ASSUME NEW a \in Accesses, BrokerReply(a)
      PROVE BoolsOK' /\ DataOK' /\ NoLoopBeforeInit' /\ OnePollLoop'
            /\ LoopOutputs' /\ OneAuthToken' /\ ForwardBudget'
  <2>1. /\ inFlight > 0
        /\ inFlight' = inFlight - 1
        /\ verdicts' = [verdicts EXCEPT ![a] = @ + 1]
        /\ UNCHANGED <<started, waitingAuth, stopped, gdmQueue, inbox, asyncEmits,
                       forwarded, cancelsSent, lateTalk, events, rounds, polling,
                       pollRest, pollSt>>
    BY <1>17 DEF BrokerReply, pollVars
  <2>2. inbox' = inbox
    BY <1>0, <2>1
  <2>3. Waiting' = Waiting /\ Pending' = Pending
    BY <2>1, WaitPendUnchanged
  <2>4. BoolsOK'
    BY <1>0, <2>1, Zenon DEF BoolsOK
  <2>5. DataOK'
    BY <1>0, <2>1, <2>2 DEF DataOK
  <2>20. NoLoopBeforeInit'
    BY <1>0, <2>1, <2>2, Zenon DEF NoLoopBeforeInit
  <2> QED
    BY <2>20, <1>0, <2>1, <2>2, <2>3, <2>4, <2>5 DEF OnePollLoop, LoopOutputs, OneAuthToken, ForwardBudget
<1>18. CASE UNCHANGED vars
  <2>1. UNCHANGED <<started, waitingAuth, stopped, gdmQueue, inbox, verdicts,
                    asyncEmits, inFlight, forwarded, cancelsSent, lateTalk,
                    events, rounds, polling, pollRest, pollSt>>
    BY <1>18 DEF vars
  <2>2. Waiting' = Waiting /\ Pending' = Pending
    BY <2>1, WaitPendUnchanged
  <2>3. BoolsOK'
    BY <1>0, <2>1, Zenon DEF BoolsOK
  <2>4. DataOK'
    BY <1>0, <2>1 DEF DataOK
  <2>20. NoLoopBeforeInit'
    BY <1>0, <2>1, Zenon DEF NoLoopBeforeInit
  <2> QED
    BY <2>20, <1>0, <2>1, <2>2, <2>3, <2>4
       DEF OnePollLoop, LoopOutputs, OneAuthToken, ForwardBudget
<1> QED
  BY <1>1, <1>2, <1>3, <1>4, <1>5, <1>6, <1>7, <1>8, <1>9, <1>10, <1>11,
     <1>12, <1>13, <1>14, <1>15, <1>16, <1>17, <1>18 DEF Next

-----------------------------------------------------------------------------
(* The theorems.                                                           *)

\* Every reachable state of the GDM adapter, the parent model and the broker
\* satisfies the inductive invariant: one poll loop, and one token per
\* challenge from StartAuthentication to the broker's answer.
THEOREM GdmInvariant == Spec => []IInv
<1>1. Init => IInv
  BY IInvInit
<1>2. IInv /\ [Next]_vars => IInv'
  BY IInvStep
<1> QED
  BY <1>1, <1>2, PTL DEF Spec

\* Every variable of the adapter model, the loop of pollGdm included, keeps
\* the type the code gives it.
THEOREM GdmTypeCorrect == Spec => []TypeOK
<1>1. IInv => TypeOK
  BY DEF IInv
<1> QED
  BY GdmInvariant, <1>1, PTL

\* The user's answer reported by GDM is forwarded to IsAuthenticated at most
\* once per StartAuthentication, and at most one IsAuthenticated is queued
\* or in flight (pollGdm's waitingAuth handling), for every queue, event and
\* challenge bound.
THEOREM ForwardOnce == Spec => []SingleForwardPerStart
<1>1. IInv => SingleForwardPerStart
  <2> SUFFICES ASSUME IInv PROVE SingleForwardPerStart
    OBVIOUS
  <2>1. BoolsOK /\ DataOK
    BY Zenon DEF IInv, TypeOK, BoolsOK, DataOK
  <2>2. Waiting \in BOOLEAN /\ Pending \in Nat
    BY <2>1, WaitPendType
  <2>3. B(Waiting) \in 0..1
    BY <2>2 DEF B
  <2>4. /\ inbox["startAuth"] \in Nat /\ inbox["isAuthRequested"] \in Nat
        /\ inFlight \in Nat /\ forwarded \in Nat
    BY <2>1 DEF DataOK, Msgs
  <2>5. OneAuthToken /\ ForwardBudget
    BY DEF IInv
  <2> QED
    BY <2>2, <2>3, <2>4, <2>5
       DEF OneAuthToken, ForwardBudget, SingleForwardPerStart
<1> QED
  BY GdmInvariant, <1>1, PTL

=============================================================================
