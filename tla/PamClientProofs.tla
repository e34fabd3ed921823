--------------------------- MODULE PamClientProofs ---------------------------
(***************************************************************************)
(* Proofs about PamClient: every reachable state is well typed, for every  *)
(* set of session IDs, every set of locale names and every bound on the    *)
(* user's actions.                                                         *)
(***************************************************************************)
EXTENDS PamClient, TLAPS

\* The commands and messages the bags may hold.
CmdSet == [kind : Cmds, arg : Brokers \cup Sessions \cup {NoSession}]
MsgSet == [kind : Msgs, arg : Sessions \cup {NoSession}]

\* A bag of elements of S.
BagOf(B, S) == IsABag(B) /\ BagToSet(B) \subseteq S

-----------------------------------------------------------------------------
(* Lemmas about the bag operators the runtime's queues are built from.     *)

\* Adding an element of S to a bag of S gives a bag of S.
LEMMA BagAddOf ==
    ASSUME NEW S, NEW B, BagOf(B, S), NEW x \in S
    PROVE  BagOf(BagAdd(B, x), S)
BY DEF BagOf, IsABag, BagToSet, BagAdd

\* Removing an element from a bag of S, present or not, gives a bag of S.
LEMMA BagRemoveOf ==
    ASSUME NEW S, NEW B, BagOf(B, S), NEW x
    PROVE  BagOf(BagRemove(B, x), S)
BY DEF BagOf, IsABag, BagToSet, BagRemove

\* The union of two bags of S is a bag of S.
LEMMA BagUnionOf ==
    ASSUME NEW S, NEW A, NEW B, BagOf(A, S), BagOf(B, S)
    PROVE  BagOf(A (+) B, S)
BY DEF BagOf, IsABag, BagToSet, (+)

\* A set is a bag of its own elements.
LEMMA SetToBagOf ==
    ASSUME NEW S
    PROVE  BagOf(SetToBag(S), S)
BY DEF BagOf, IsABag, BagToSet, SetToBag

\* A bag of S is a bag of any superset of S.
LEMMA BagOfMono ==
    ASSUME NEW S, NEW T, S \subseteq T, NEW B, BagOf(B, S)
    PROVE  BagOf(B, T)
BY DEF BagOf

-----------------------------------------------------------------------------
(* startBrokerSession's lang is a locale, or unset.                       *)

\* The trim keeps a locale a locale, and an unset value unset.
LEMMA TrimUTF8Type ==
    ASSUME NEW l \in {Unset} \cup Locales
    PROVE  TrimUTF8(l) \in {Unset} \cup Locales
<1>1. l.codeset = "UTF-8" => l \in Locales
  <2>1. Unset.codeset # "UTF-8"
    BY DEF Unset
  <2>. QED
    BY <2>1
<1>2. l \in Locales => [l EXCEPT !.codeset = "none"] \in Locales
  BY Zenon DEF Locales, Codesets
<1>. QED
  BY <1>1, <1>2 DEF TrimUTF8

\* Whatever the environment, the lang startBrokerSession sends is a locale.
LEMMA SessionLangType ==
    ASSUME PamClientAssumption,
           NEW e \in [Range(LangVars) -> {Unset} \cup Locales]
    PROVE  SessionLang(e) \in {Unset} \cup Locales
<1>1. Range(LangVars) = {"LANG", "LC_MESSAGES", "LC_ALL"}
  BY DEF Range, LangVars
<1>2. ASSUME NEW lang \in Locales, NEW v \in Range(LangVars)
      PROVE  LangStep(e, lang, v) \in Locales
  BY DEF LangStep, Unset, Locales
<1>3. [name |-> "C", codeset |-> "none"] \in Locales
  BY DEF PamClientAssumption, Locales, Codesets
<1>4. LangVars[1] \in Range(LangVars) /\ LangVars[2] \in Range(LangVars)
      /\ LangVars[3] \in Range(LangVars)
  BY <1>1 DEF LangVars
<1>5. LangStep(e, LangStep(e, LangStep(e, [name |-> "C", codeset |-> "none"],
                                       LangVars[1]),
                           LangVars[2]),
               LangVars[3]) \in Locales
  BY <1>2, <1>3, <1>4
<1>. QED
  BY <1>5, TrimUTF8Type DEF SessionLang

-----------------------------------------------------------------------------
(* The inductive invariant.  TypeOK alone is not inductive: getLayout     *)
(* answers with its argument as the layout's session, and endSession with *)
(* its argument as the ended session, so the commands carrying a session   *)
(* must carry a session ID, never a broker name or NoSession.              *)

\* The commands m.quit and the user can have started.
WellFormedCmds ==
    {c \in CmdSet : c.kind \in {"getLayout", "endSession"} => c.arg \in Sessions}

\* getLayout and endSession only ever run for a session the daemon handed
\* out (m.currentSession once it is set).
CmdArgs == BagOf(cmds, WellFormedCmds)

\* TypeOK without its two bags.
Scalars ==
    /\ env \in [Range(LangVars) -> {Unset} \cup Locales]
    /\ current \in Sessions \cup {NoSession}
    /\ daemon \subseteq used /\ used \subseteq Sessions
    /\ langSent \in {Unset} \cup Locales
    /\ quitCalled \in BOOLEAN /\ exited \in BOOLEAN
    /\ requests \in 0..MaxRequests

IInv == CmdArgs /\ BagOf(inbox, MsgSet) /\ Scalars

\* The invariant gives TypeOK.
LEMMA IInvTypeOK == IInv => TypeOK
BY DEF IInv, CmdArgs, Scalars, TypeOK, BagOf, WellFormedCmds, CmdSet, MsgSet

\* Every initial state satisfies the invariant.
LEMMA IInvInit ==
    ASSUME PamClientAssumption
    PROVE  Init => IInv
<1> SUFFICES ASSUME Init PROVE IInv
  OBVIOUS
<1>1. CmdArgs /\ BagOf(inbox, MsgSet)
  <2>1. BagOf(EmptyBag, WellFormedCmds) /\ BagOf(EmptyBag, MsgSet)
    BY DEF EmptyBag, SetToBag, BagOf, IsABag, BagToSet
  <2>. QED
    BY <2>1 DEF Init, CmdArgs
<1>2. Scalars
  <2>1. quitCalled \in BOOLEAN /\ exited \in BOOLEAN
    BY Zenon DEF Init
  <2>2. requests \in 0..MaxRequests
    BY DEF Init, PamClientAssumption
  <2>3. current \in Sessions \cup {NoSession} /\ daemon \subseteq used
        /\ used \subseteq Sessions /\ langSent \in {Unset} \cup Locales
    BY DEF Init
  <2>. QED
    BY <2>1, <2>2, <2>3 DEF Init, Scalars
<1>. QED
  BY <1>1, <1>2 DEF IInv

\* m.quit() only starts well-formed commands: tea.Quit, or the EndSession of
\* the current session.
LEMMA QuitCmdsOf ==
    ASSUME NEW s \in Sessions \cup {NoSession}
    PROVE  BagOf(QuitCmds(s), WellFormedCmds)
<1>1. CASE s = NoSession
  <2>1. {Cmd("quit", NoSession)} \subseteq WellFormedCmds
    BY DEF Cmd, WellFormedCmds, CmdSet, Cmds
  <2>. QED
    BY <1>1, <2>1, SetToBagOf, BagOfMono DEF QuitCmds
<1>2. CASE s # NoSession
  <2>1. {Cmd("endSession", s)} \subseteq WellFormedCmds
    BY <1>2 DEF Cmd, WellFormedCmds, CmdSet, Cmds
  <2>. QED
    BY <1>2, <2>1, SetToBagOf, BagOfMono DEF QuitCmds
<1>. QED
  BY <1>1, <1>2

\* Every step of the PAM client keeps the invariant.
LEMMA IInvStep ==
    ASSUME PamClientAssumption
    PROVE  IInv /\ [Next]_vars => IInv'
<1> SUFFICES ASSUME IInv, [Next]_vars PROVE IInv'
  OBVIOUS
<1>0. /\ CmdArgs /\ BagOf(inbox, MsgSet) /\ Scalars
      /\ quitCalled \in BOOLEAN /\ exited \in BOOLEAN
      /\ current \in Sessions \cup {NoSession}
      /\ requests \in 0..MaxRequests
  BY DEF IInv, Scalars
<1>20. ASSUME BagOf(cmds', WellFormedCmds), BagOf(inbox', MsgSet),
             env' = env, current' \in Sessions \cup {NoSession},
             daemon' \subseteq used', used' \subseteq Sessions,
             langSent' \in {Unset} \cup Locales,
             quitCalled' \in BOOLEAN, exited' \in BOOLEAN,
             requests' \in 0..MaxRequests
      PROVE  IInv'
  <2>1. CmdArgs'
    BY <1>20 DEF CmdArgs
  <2>2. Scalars'
    BY <1>0, <1>20, Zenon DEF Scalars
  <2>. QED
    BY <1>20, <2>1, <2>2 DEF IInv
<1>21. ASSUME NEW c \in BagToSet(cmds)
      PROVE  /\ c \in WellFormedCmds
             /\ BagOf(BagRemove(cmds, c), WellFormedCmds)
  BY <1>0, BagRemoveOf DEF CmdArgs, BagOf
<1>1. ASSUME NEW c \in BagToSet(cmds), StartLocal(c) PROVE IInv'
  <2>1. Msg("pamIgnore", NoSession) \in MsgSet
    BY DEF Msg, MsgSet, Msgs, PamReturns
  <2>2. BagOf(inbox', MsgSet)
    BY <1>0, <1>1, <2>1, BagAddOf DEF StartLocal, Reply
  <2>3. quitCalled' \in BOOLEAN /\ exited' \in BOOLEAN
    BY <1>0, <1>1, Zenon DEF StartLocal
  <2>. QED
    BY <1>0, <1>1, <1>20, <1>21, <2>2, <2>3 DEF StartLocal, Reply, Scalars
<1>2. ASSUME NEW c \in BagToSet(cmds), StartRemote(c) PROVE IInv'
  <2>1. langSent' \in {Unset} \cup Locales
    BY <1>0, <1>2, SessionLangType DEF StartRemote, Scalars
  <2>2. \E x \in MsgSet : inbox' = BagAdd(inbox, x)
    <3>1. Msg("pamSystemError", NoSession) \in MsgSet
      BY DEF Msg, MsgSet, Msgs, PamReturns
    <3>2. \A s \in Sessions : Msg("sessionStarted", s) \in MsgSet
      BY DEF Msg, MsgSet, Msgs
    <3>. QED
      BY <1>2, <3>1, <3>2 DEF StartRemote, Reply
  <2>3. BagOf(inbox', MsgSet)
    BY <1>0, <2>2, BagAddOf
  <2>4. daemon' \subseteq used' /\ used' \subseteq Sessions
    BY <1>0, <1>2 DEF StartRemote, Scalars
  <2>5. quitCalled' \in BOOLEAN /\ exited' \in BOOLEAN
    BY <1>0, <1>2, Zenon DEF StartRemote
  <2>6. cmds' = BagRemove(cmds, c)
    BY <1>2 DEF StartRemote, Reply
  <2>. QED
    BY <1>0, <1>2, <1>20, <1>21, <2>1, <2>3, <2>4, <2>5, <2>6 DEF StartRemote
<1>3. ASSUME NEW c \in BagToSet(cmds), GetLayout(c) PROVE IInv'
  <2>1. c.arg \in Sessions
    BY <1>3, <1>21 DEF GetLayout, WellFormedCmds
  <2>2. Msg("pamSystemError", NoSession) \in MsgSet
        /\ Msg("layout", c.arg) \in MsgSet
    BY <2>1 DEF Msg, MsgSet, Msgs, PamReturns
  <2>3. BagOf(inbox', MsgSet)
    BY <1>0, <1>3, <2>2, BagAddOf DEF GetLayout, Reply
  <2>4. quitCalled' \in BOOLEAN /\ exited' \in BOOLEAN
    BY <1>0, <1>3, Zenon DEF GetLayout
  <2>. QED
    BY <1>0, <1>3, <1>20, <1>21, <2>3, <2>4 DEF GetLayout, Reply, Scalars
<1>4. ASSUME NEW c \in BagToSet(cmds), EndSession(c) PROVE IInv'
  <2>1. c.arg \in Sessions
    BY <1>4, <1>21 DEF EndSession, WellFormedCmds
  <2>2. Cmd("quit", NoSession) \in WellFormedCmds
    BY DEF Cmd, WellFormedCmds, CmdSet, Cmds
  <2>3. BagOf(cmds', WellFormedCmds)
    BY <1>4, <1>21, <2>2, BagAddOf DEF EndSession
  <2>4. Msg("sessionEnded", c.arg) \in MsgSet
    BY <2>1 DEF Msg, MsgSet, Msgs
  <2>5. BagOf(inbox', MsgSet) /\ daemon' \subseteq used'
    BY <1>0, <1>4, <2>4, BagAddOf DEF EndSession, Scalars
  <2>6. quitCalled' \in BOOLEAN /\ exited' \in BOOLEAN
    BY <1>0, <1>4, Zenon DEF EndSession
  <2>. QED
    BY <1>0, <1>4, <1>20, <2>3, <2>5, <2>6 DEF EndSession, Scalars
<1>5. ASSUME NEW c \in BagToSet(cmds), RunQuit(c) PROVE IInv'
  <2>1. quitCalled' \in BOOLEAN /\ exited' \in BOOLEAN
    BY <1>0, <1>5, Zenon DEF RunQuit
  <2>. QED
    BY <1>0, <1>5, <1>20, <1>21, <2>1 DEF RunQuit, Scalars
<1>6. ASSUME NEW m \in BagToSet(inbox), Handle(m) PROVE IInv'
  <2>1. m \in MsgSet /\ BagOf(inbox', MsgSet)
    BY <1>0, <1>6, BagRemoveOf DEF Handle, BagOf
  <2>2. CASE m.kind \in PamReturns /\ Quit /\ UNCHANGED current
    <3>1. BagOf(cmds', WellFormedCmds)
      BY <1>0, <2>2, QuitCmdsOf, BagUnionOf DEF Quit, CmdArgs
    <3>2. quitCalled' \in BOOLEAN /\ exited' \in BOOLEAN
      BY <1>0, <1>6, <2>2, Zenon DEF Handle, Quit
    <3>. QED
      BY <1>0, <1>6, <1>20, <2>1, <2>2, <3>1, <3>2 DEF Handle, Scalars
  <2>3. CASE m.kind = "sessionStarted" /\ current' = m.arg
             /\ UNCHANGED <<cmds, quitCalled>>
    <3>1. current' \in Sessions \cup {NoSession}
      BY <2>1, <2>3 DEF MsgSet
    <3>2. quitCalled' \in BOOLEAN /\ exited' \in BOOLEAN
      BY <1>0, <1>6, <2>3, Zenon DEF Handle
    <3>. QED
      BY <1>0, <1>6, <1>20, <2>1, <2>3, <3>1, <3>2 DEF Handle, Scalars, CmdArgs
  <2>4. CASE m.kind \in {"layout", "sessionEnded"}
             /\ UNCHANGED <<cmds, current, quitCalled>>
    <3>1. quitCalled' \in BOOLEAN /\ exited' \in BOOLEAN
      BY <1>0, <1>6, <2>4, Zenon DEF Handle
    <3>. QED
      BY <1>0, <1>6, <1>20, <2>1, <2>4, <3>1 DEF Handle, Scalars, CmdArgs
  <2>. QED
    BY <1>6, <2>2, <2>3, <2>4 DEF Handle
<1>7. ASSUME UserAction PROVE IInv'
  <2>1. requests' \in 0..MaxRequests
    BY <1>0, <1>7 DEF UserAction
  <2>2. quitCalled' \in BOOLEAN /\ exited' \in BOOLEAN
    BY <1>0, <1>7, Zenon DEF UserAction, Quit
  <2>3. BagOf(cmds', WellFormedCmds) /\ BagOf(inbox', MsgSet)
    <3>1. CASE current = NoSession
               /\ \E b \in Brokers : cmds' = BagAdd(cmds, Cmd("startBroker", b))
               /\ UNCHANGED <<inbox, quitCalled>>
      <4>1. \A b \in Brokers : Cmd("startBroker", b) \in WellFormedCmds
        BY DEF Cmd, WellFormedCmds, CmdSet, Cmds
      <4>. QED
        BY <1>0, <3>1, <4>1, BagAddOf DEF CmdArgs
    <3>2. CASE current # NoSession
               /\ cmds' = BagAdd(cmds, Cmd("getLayout", current))
               /\ UNCHANGED <<inbox, quitCalled>>
      <4>1. Cmd("getLayout", current) \in WellFormedCmds
        BY <1>0, <3>2 DEF Cmd, WellFormedCmds, CmdSet, Cmds
      <4>. QED
        BY <1>0, <3>2, <4>1, BagAddOf DEF CmdArgs
    <3>3. CASE Quit /\ UNCHANGED inbox
      BY <1>0, <3>3, QuitCmdsOf, BagUnionOf DEF Quit, CmdArgs
    <3>4. CASE current # NoSession
               /\ inbox' = BagAdd(inbox, Msg("pamSuccess", NoSession))
               /\ UNCHANGED <<cmds, quitCalled>>
      <4>1. Msg("pamSuccess", NoSession) \in MsgSet
        BY DEF Msg, MsgSet, Msgs, PamReturns
      <4>. QED
        BY <1>0, <3>4, <4>1, BagAddOf DEF CmdArgs
    <3>. QED
      BY <1>7, <3>1, <3>2, <3>3, <3>4 DEF UserAction
  <2>. QED
    BY <1>0, <1>7, <1>20, <2>1, <2>2, <2>3 DEF UserAction, Scalars
<1>8. ASSUME UNCHANGED vars PROVE IInv'
  <2>1. quitCalled' \in BOOLEAN /\ exited' \in BOOLEAN
    BY <1>0, <1>8, Zenon DEF vars
  <2>. QED
    BY <1>0, <1>8, <1>20, <2>1 DEF vars, Scalars, CmdArgs
<1>. QED
  BY <1>1, <1>2, <1>3, <1>4, <1>5, <1>6, <1>7, <1>8 DEF Next, RunCmd

-----------------------------------------------------------------------------
(* The theorems.                                                           *)

\* For every set of session IDs, locale names and bound on the user, every
\* reachable state of the PAM client satisfies the inductive invariant:
\* getLayout and endSession commands carry a session ID handed out by the
\* daemon, and every message and variable is well typed.
THEOREM PamInvariant == Spec => []IInv
<1>1. Init => IInv
  BY PamClientAssumption, IInvInit
<1>2. IInv /\ [Next]_vars => IInv'
  BY PamClientAssumption, IInvStep
<1>. QED
  BY <1>1, <1>2, PTL DEF Spec

\* Every reachable state of the PAM client is well typed: the commands and
\* messages in flight, m.currentSession, the sessions the daemon holds
\* (all of them handed out) and the lang sent to the broker.
THEOREM PamTypeCorrect == Spec => []TypeOK
BY PamInvariant, IInvTypeOK, PTL

=============================================================================
