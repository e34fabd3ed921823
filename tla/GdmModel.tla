------------------------------ MODULE GdmModel ------------------------------
(***************************************************************************)
(* The GDM adapter of the PAM module (pam/internal/adapter/gdmmodel.go).   *)
(* The adapter is a bubbletea model: Update handles one message at a time, *)
(* while the commands it returns run concurrently and feed messages back.  *)
(* It polls GDM every gdmPollFrequency for the events of the login screen  *)
(* and forwards the user's answer to the parent model, which calls the     *)
(* IsAuthenticated RPC; the broker's verdict comes back as a message and   *)
(* is emitted to GDM as an AuthEvent.  The parent model, GDM's user and    *)
(* the broker are the environment.                                         *)
(* The messages waiting for Update are a multiset (the commands of a       *)
(* tea.Batch deliver in any order), kept as a function to counts.          *)
(* pollGdm runs inside Update: while its loop handles the poll results one *)
(* by one, Update (the parent's included) handles nothing else, but the    *)
(* commands, GDM and the broker go on.                                     *)
(***************************************************************************)
EXTENDS Integers, Sequences

CONSTANTS
    MaxQueue,    \* bound on the GDM events waiting for a poll
    MaxEvents,   \* bound on the events GDM's user produces
    MaxRounds    \* bound on the authentications the parent starts

ASSUME GdmAssumption ==
    /\ MaxQueue \in Nat \ {0}
    /\ MaxEvents \in Nat
    /\ MaxRounds \in Nat

\* The poll results of gdm.SendPoll, by kind; "...Nil" is a result whose
\* payload is missing.
GdmEvents == {"userSelected", "isAuthRequested", "isAuthRequestedNil",
              "isAuthCancelled", "stageChallenge", "stageOther"}

\* The tea.Msg values the adapter handles or produces.
Msgs == {"pollDone", "startAuth", "isAuthRequested", "isAuthCancelled",
         "userSelected", "pamError"}

\* brokers.Auth* verdicts, and a verdict the adapter does not know.
Accesses == {"granted", "denied", "cancelled", "retry", "next", "invalid"}

VARIABLES
    started,      \* Init has run
    waitingAuth,  \* m.waitingAuth
    stopped,      \* m.conversationsStopped
    gdmQueue,     \* events GDM will return on the next poll
    inbox,        \* messages waiting for Update: [Msgs -> count]
    verdicts,     \* isAuthenticatedResultReceived waiting: [Accesses -> count]
    asyncEmits,   \* emitEvent commands created but not yet run
    inFlight,     \* IsAuthenticated calls the parent has made, unanswered
    forwarded,    \* isAuthenticatedRequested sent since the last StartAuthentication
    cancelsSent,  \* Cancelled AuthEvents emitted since the last StartAuthentication
    lateTalk,     \* a conversation with GDM happened after the quit point
    events,       \* events GDM's user produced so far
    rounds,       \* authentications the parent started so far
    polling,      \* Update is inside pollGdm's loop
    pollRest,     \* the poll results the loop has still to handle
    pollSt        \* the loop's state: m.waitingAuth, commands, early return

vars == <<started, waitingAuth, stopped, gdmQueue, inbox, verdicts, asyncEmits,
          inFlight, forwarded, cancelsSent, lateTalk, events, rounds, polling,
          pollRest, pollSt>>

pollVars == <<polling, pollRest, pollSt>>

NoMsgs == [m \in Msgs |-> 0]

\* Adds the messages counted by out to the inbox.
Deliver(box, out) == [m \in Msgs |-> box[m] + out[m]]

Put(box, m) == [box EXCEPT ![m] = @ + 1]
Take(box, m) == [box EXCEPT ![m] = @ - 1]

-----------------------------------------------------------------------------
(* pollGdm: the events of one poll are handled in order.  The loop's      *)
(* state is a record: the adapter's waitingAuth, the messages produced so *)
(* far, and whether a malformed event made pollGdm return a lone pamError *)
(* (which drops every other command, gdmPollDone included).               *)

PollStates == [waiting : BOOLEAN, out : [Msgs -> Nat], err : BOOLEAN]
NoPoll == [waiting |-> FALSE, out |-> NoMsgs, err |-> FALSE]

\* Mutant: an IsAuthenticatedRequested result that does not reset waitingAuth.
PollEventNoReset(st, e) ==
    CASE e = "userSelected" ->
            [st EXCEPT !.out = Put(@, "userSelected")]
      [] e = "isAuthRequested" ->
            IF ~st.waiting THEN st
            ELSE [st EXCEPT !.out = Put(@, "isAuthRequested")]
      [] e = "isAuthRequestedNil" ->
            IF ~st.waiting THEN st
            ELSE [st EXCEPT !.waiting = FALSE, !.err = TRUE]
      [] e = "isAuthCancelled" ->
            IF st.waiting THEN [st EXCEPT !.out = Put(@, "isAuthCancelled")]
            ELSE st
      [] e = "stageOther" ->
            IF st.waiting THEN [st EXCEPT !.out = Put(@, "isAuthCancelled")]
            ELSE st
      [] e = "stageChallenge" -> st

\* One event of the poll (the switch of pollGdm).
PollEvent(st, e) ==
    CASE e = "userSelected" ->
            [st EXCEPT !.out = Put(@, "userSelected")]
      [] e = "isAuthRequested" ->
            IF ~st.waiting THEN st
            ELSE [st EXCEPT !.waiting = FALSE, !.out = Put(@, "isAuthRequested")]
      [] e = "isAuthRequestedNil" ->
            IF ~st.waiting THEN st
            ELSE [st EXCEPT !.waiting = FALSE, !.err = TRUE]
      [] e = "isAuthCancelled" ->
            IF st.waiting THEN [st EXCEPT !.out = Put(@, "isAuthCancelled")]
            ELSE st
      [] e = "stageOther" ->
            IF st.waiting THEN [st EXCEPT !.out = Put(@, "isAuthCancelled")]
            ELSE st
      [] e = "stageChallenge" -> st

\* The messages the commands of pollGdm deliver.
PollOutput(res) ==
    IF res.err THEN Put(NoMsgs, "pamError") ELSE Put(res.out, "pollDone")


-----------------------------------------------------------------------------
Init ==
    /\ started = FALSE
    /\ waitingAuth = FALSE
    /\ stopped = FALSE
    /\ gdmQueue = <<>>
    /\ inbox = NoMsgs
    /\ verdicts = [a \in Accesses |-> 0]
    /\ asyncEmits = 0
    /\ inFlight = 0
    /\ forwarded = 0
    /\ cancelsSent = 0
    /\ lateTalk = FALSE
    /\ events = 0
    /\ rounds = 0
    /\ polling = FALSE
    /\ pollRest = <<>>
    /\ pollSt = NoPoll

\* gdm.SendPoll succeeds: the loop starts over the events GDM returns; box
\* is the inbox once the message being handled is taken out.
PollGdm(box) ==
    /\ inbox' = box
    /\ polling' = TRUE
    /\ pollRest' = gdmQueue
    /\ pollSt' = [waiting |-> waitingAuth, out |-> NoMsgs, err |-> FALSE]
    /\ gdmQueue' = <<>>

\* gdm.SendPoll fails: a lone pamError, and polling stops.
PollFails(box) ==
    /\ inbox' = Put(box, "pamError")
    /\ UNCHANGED <<gdmQueue, pollVars>>

\* One iteration of the loop over the poll results.
PollStep ==
    /\ polling
    /\ pollRest # <<>>
    /\ ~pollSt.err
    /\ pollSt' = PollEvent(pollSt, Head(pollRest))
    /\ pollRest' = Tail(pollRest)
    /\ UNCHANGED <<started, waitingAuth, stopped, gdmQueue, inbox, verdicts,
                   asyncEmits, inFlight, forwarded, cancelsSent, lateTalk,
                   events, rounds, polling>>

\* pollGdm returns, at the end of the results or on a malformed one: the
\* tea.Batch of its commands (or the lone pamError) delivers, and Update
\* keeps the waitingAuth the loop left.
PollReturn ==
    /\ polling
    /\ pollRest = <<>> \/ pollSt.err
    /\ waitingAuth' = pollSt.waiting
    /\ inbox' = Deliver(inbox, PollOutput(pollSt))
    /\ forwarded' = forwarded + PollOutput(pollSt)["isAuthRequested"]
    /\ polling' = FALSE
    /\ pollRest' = <<>>
    /\ pollSt' = NoPoll
    /\ UNCHANGED <<started, stopped, gdmQueue, verdicts, asyncEmits, inFlight,
                   cancelsSent, lateTalk, events, rounds>>

\* Mutant: Init also kicks the poll loop with a gdmPollDone of its own.
StartDoublePoll ==
    /\ ~started
    /\ started' = TRUE
    /\ \E helloOk \in BOOLEAN :
         LET box == Put(IF helloOk THEN inbox ELSE Put(inbox, "pamError"),
                        "pollDone") IN
         PollGdm(box) \/ PollFails(box)
    /\ asyncEmits' = asyncEmits + 1
    /\ UNCHANGED <<waitingAuth, stopped, verdicts, inFlight, forwarded,
                   cancelsSent, lateTalk, events, rounds>>

\* Init: protoHello and pollGdm run at once; requestUICapabilities is a
\* command that talks to GDM when it runs.
Start ==
    /\ ~started
    /\ started' = TRUE
    /\ \E helloOk \in BOOLEAN :
         LET box == IF helloOk THEN inbox ELSE Put(inbox, "pamError") IN
         PollGdm(box) \/ PollFails(box)
    /\ asyncEmits' = asyncEmits + 1
    /\ UNCHANGED <<waitingAuth, stopped, verdicts, inFlight, forwarded,
                   cancelsSent, lateTalk, events, rounds>>

-----------------------------------------------------------------------------
(* Update, one action per message kind.  Once conversations are stopped,  *)
(* Update drops every message.                                            *)

\* gdmPollDone: poll again (the results are delivered after a tea.Tick).
HandlePollDone ==
    /\ started
    /\ ~stopped
    /\ ~polling
    /\ inbox["pollDone"] > 0
    /\ LET box == Take(inbox, "pollDone") IN PollGdm(box) \/ PollFails(box)
    /\ UNCHANGED <<started, waitingAuth, stopped, verdicts, asyncEmits,
                   inFlight, forwarded, cancelsSent, lateTalk, events, rounds>>

\* startAuthentication: ignored while one is going, otherwise emitted to GDM
\* with emitEventSync.
HandleStartAuth ==
    /\ ~polling
    /\ ~stopped
    /\ inbox["startAuth"] > 0
    /\ inbox' = Take(inbox, "startAuth")
    /\ IF waitingAuth
         THEN UNCHANGED <<waitingAuth, forwarded, cancelsSent>>
         ELSE /\ waitingAuth' = TRUE
              /\ forwarded' = 0
              /\ cancelsSent' = 0
    /\ UNCHANGED <<started, stopped, gdmQueue, verdicts, asyncEmits, inFlight,
                   lateTalk, events, rounds>>
    /\ UNCHANGED pollVars

\* userSelected: echoed to GDM by an emitEvent command.
HandleUserSelected ==
    /\ ~polling
    /\ ~stopped
    /\ inbox["userSelected"] > 0
    /\ inbox' = Take(inbox, "userSelected")
    /\ asyncEmits' = asyncEmits + 1
    /\ UNCHANGED <<started, waitingAuth, stopped, gdmQueue, verdicts, inFlight,
                   forwarded, cancelsSent, lateTalk, events, rounds>>
    /\ UNCHANGED pollVars

\* isAuthenticatedCancelled: not waiting any more, Cancelled AuthEvent.
HandleCancelled ==
    /\ ~polling
    /\ ~stopped
    /\ inbox["isAuthCancelled"] > 0
    /\ inbox' = Take(inbox, "isAuthCancelled")
    /\ waitingAuth' = FALSE
    /\ cancelsSent' = cancelsSent + 1
    /\ UNCHANGED <<started, stopped, gdmQueue, verdicts, asyncEmits, inFlight,
                   forwarded, lateTalk, events, rounds>>
    /\ UNCHANGED pollVars

\* isAuthenticatedResultReceived: a known verdict is emitted as an AuthEvent,
\* Cancelled becomes isAuthenticatedCancelled, an unknown one is resent as
\* Denied.
HandleVerdict(a) ==
    /\ ~polling
    /\ ~stopped
    /\ verdicts[a] > 0
    /\ CASE a \in {"granted", "denied", "retry", "next"} ->
              /\ verdicts' = [verdicts EXCEPT ![a] = @ - 1]
              /\ UNCHANGED inbox
         [] a = "cancelled" ->
              /\ verdicts' = [verdicts EXCEPT ![a] = @ - 1]
              /\ inbox' = Put(inbox, "isAuthCancelled")
         [] a = "invalid" ->
              /\ verdicts' = [verdicts EXCEPT ![a] = @ - 1, !["denied"] = @ + 1]
              /\ UNCHANGED inbox
    /\ UNCHANGED <<started, waitingAuth, stopped, gdmQueue, asyncEmits,
                   inFlight, forwarded, cancelsSent, lateTalk, events, rounds>>
    /\ UNCHANGED pollVars

\* isAuthenticatedResultReceived whose message fails to decode (dataToMsg):
\* a pamError, whatever the verdict.
HandleVerdictBadMsg(a) ==
    /\ ~polling
    /\ ~stopped
    /\ verdicts[a] > 0
    /\ verdicts' = [verdicts EXCEPT ![a] = @ - 1]
    /\ inbox' = Put(inbox, "pamError")
    /\ UNCHANGED <<started, waitingAuth, stopped, gdmQueue, asyncEmits,
                   inFlight, forwarded, cancelsSent, lateTalk, events, rounds>>
    /\ UNCHANGED pollVars

\* Update after the quit point: the message is dropped.
DropMsg ==
    /\ ~polling
    /\ stopped
    /\ \/ \E m \in {"pollDone", "startAuth", "isAuthCancelled", "userSelected"} :
            /\ inbox[m] > 0
            /\ inbox' = Take(inbox, m)
            /\ UNCHANGED verdicts
       \/ \E a \in Accesses :
            /\ verdicts[a] > 0
            /\ verdicts' = [verdicts EXCEPT ![a] = @ - 1]
            /\ UNCHANGED inbox
    /\ UNCHANGED <<started, waitingAuth, stopped, gdmQueue, asyncEmits,
                   inFlight, forwarded, cancelsSent, lateTalk, events, rounds>>
    /\ UNCHANGED pollVars

\* An emitEvent (or requestUICapabilities) command runs and talks to GDM.
RunAsyncEmit ==
    /\ asyncEmits > 0
    /\ asyncEmits' = asyncEmits - 1
    /\ lateTalk' = (lateTalk \/ stopped)
    /\ UNCHANGED <<started, waitingAuth, stopped, gdmQueue, inbox, verdicts,
                   inFlight, forwarded, cancelsSent, events, rounds>>
    /\ UNCHANGED pollVars

\* stopConversations: once no conversation is in progress (every talk with
\* GDM is one step here), no further conversation should happen.
StopConversations ==
    /\ ~polling
    /\ started
    /\ ~stopped
    /\ stopped' = TRUE
    /\ UNCHANGED <<started, waitingAuth, gdmQueue, inbox, verdicts, asyncEmits,
                   inFlight, forwarded, cancelsSent, lateTalk, events, rounds>>
    /\ UNCHANGED pollVars

-----------------------------------------------------------------------------
(* The environment: GDM's user, the parent model and the broker.          *)

GdmUserEvent(e) ==
    /\ events < MaxEvents
    /\ Len(gdmQueue) < MaxQueue
    /\ gdmQueue' = Append(gdmQueue, e)
    /\ events' = events + 1
    /\ UNCHANGED <<started, waitingAuth, stopped, inbox, verdicts, asyncEmits,
                   inFlight, forwarded, cancelsSent, lateTalk, rounds>>
    /\ UNCHANGED pollVars

\* The parent starts a challenge only once the previous one is over: no
\* start pending, the user's answer not awaited, no IsAuthenticated going and
\* no verdict waiting (spec 4.6, single pending authentication).
ParentStartAuth ==
    /\ ~polling
    /\ started
    /\ rounds < MaxRounds
    /\ inbox["startAuth"] = 0
    /\ ~waitingAuth
    /\ inFlight = 0
    /\ inbox["isAuthRequested"] = 0
    /\ \A a \in Accesses : verdicts[a] = 0
    /\ inbox' = Put(inbox, "startAuth")
    /\ rounds' = rounds + 1
    /\ UNCHANGED <<started, waitingAuth, stopped, gdmQueue, verdicts,
                   asyncEmits, inFlight, forwarded, cancelsSent, lateTalk, events>>
    /\ UNCHANGED pollVars

\* The parent calls IsAuthenticated with the user's answer.
ParentAuthenticate ==
    /\ ~polling
    /\ inbox["isAuthRequested"] > 0
    /\ inbox' = Take(inbox, "isAuthRequested")
    /\ inFlight' = inFlight + 1
    /\ UNCHANGED <<started, waitingAuth, stopped, gdmQueue, verdicts,
                   asyncEmits, forwarded, cancelsSent, lateTalk, events, rounds>>
    /\ UNCHANGED pollVars

\* The parent takes a pamError: the PAM module is about to return.
ParentPamError ==
    /\ ~polling
    /\ inbox["pamError"] > 0
    /\ inbox' = Take(inbox, "pamError")
    /\ UNCHANGED <<started, waitingAuth, stopped, gdmQueue, verdicts,
                   asyncEmits, inFlight, forwarded, cancelsSent, lateTalk,
                   events, rounds>>
    /\ UNCHANGED pollVars

BrokerReply(a) ==
    /\ inFlight > 0
    /\ inFlight' = inFlight - 1
    /\ verdicts' = [verdicts EXCEPT ![a] = @ + 1]
    /\ UNCHANGED <<started, waitingAuth, stopped, gdmQueue, inbox, asyncEmits,
                   forwarded, cancelsSent, lateTalk, events, rounds>>
    /\ UNCHANGED pollVars

-----------------------------------------------------------------------------
Next ==
    \/ Start \/ HandlePollDone \/ HandleStartAuth \/ HandleUserSelected
    \/ HandleCancelled
    \/ \E a \in Accesses : HandleVerdict(a) \/ HandleVerdictBadMsg(a)
    \/ PollStep \/ PollReturn
    \/ DropMsg \/ RunAsyncEmit \/ StopConversations
    \/ \E e \in GdmEvents : GdmUserEvent(e)
    \/ ParentStartAuth \/ ParentAuthenticate \/ ParentPamError
    \/ \E a \in Accesses : BrokerReply(a)

Spec == Init /\ [][Next]_vars

-----------------------------------------------------------------------------
(* Properties.                                                            *)

\* Every variable ranges over the values the code can give it, and there is
\* a single poll loop: Init starts it and only gdmPollDone re-arms it.
TypeOK ==
    /\ started \in BOOLEAN
    /\ waitingAuth \in BOOLEAN
    /\ stopped \in BOOLEAN
    /\ gdmQueue \in Seq(GdmEvents)
    /\ Len(gdmQueue) <= MaxQueue
    /\ inbox \in [Msgs -> Nat]
    /\ inbox["pollDone"] \in 0..1
    /\ verdicts \in [Accesses -> Nat]
    /\ asyncEmits \in Nat
    /\ inFlight \in Nat
    /\ forwarded \in Nat
    /\ cancelsSent \in Nat
    /\ lateTalk \in BOOLEAN
    /\ events \in 0..MaxEvents
    /\ rounds \in 0..MaxRounds
    /\ polling \in BOOLEAN
    /\ pollRest \in Seq(GdmEvents)
    /\ Len(pollRest) <= MaxQueue
    /\ pollSt \in PollStates

\* The user's answer is forwarded to IsAuthenticated at most once for each
\* StartAuthentication, however often GDM reports it (pollGdm's waitingAuth),
\* so at most one IsAuthenticated is in flight (spec, invariant 5).
SingleForwardPerStart ==
    /\ forwarded <= 1
    /\ inFlight + inbox["isAuthRequested"] <= 1

\* An authentication is reported cancelled to GDM at most once.
CancelReportedOnce == cancelsSent <= 1

\* After stopConversations, nothing talks to GDM any more (the comment on
\* conversationsStopped).
NoConversationAfterStop == ~lateTalk

=============================================================================
