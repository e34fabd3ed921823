------------------------------ MODULE PamClient ------------------------------
(***************************************************************************)
(* The commands of the PAM module's bubbletea model that talk to the       *)
(* daemon (src/unnamed/part_001): startBrokerSession, getLayout, quit and  *)
(* endSession, and the PAM return signals of pam/return.go.  Update        *)
(* handles one message at a time; every command it returns runs in a      *)
(* goroutine of its own and feeds one message back, and tea.Sequence runs  *)
(* its commands one after the other.  The user, the daemon's answers and   *)
(* the rest of Update (in model.go) are the environment.                   *)
(***************************************************************************)
EXTENDS Integers, Sequences, SequencesExt, BagsExt

CONSTANTS
    Sessions,     \* session IDs the daemon may hand out
    Names,        \* locale names, "C" among them
    MaxRequests   \* bound on the user's actions

ASSUME PamClientAssumption ==
    /\ Sessions # {}
    /\ "C" \in Names
    /\ MaxRequests \in Nat

NoSession == "none"

\* pam/return.go: the signals that make the PAM module return and quit.
PamReturns == {"pamSuccess", "pamIgnore", "pamAbort", "pamSystemError",
               "pamAuthError"}

Msgs == PamReturns \cup {"sessionStarted", "layout", "sessionEnded"}
Cmds == {"startBroker", "getLayout", "endSession", "quit"}
Brokers == {"local", "remote"}

\* A locale value of the environment: a name and a codeset suffix, or unset
\* (os.Getenv returns "" for an unset or empty variable).
Codesets == {"none", "UTF-8", "utf8"}
Unset == [name |-> "", codeset |-> "none"]
Locales == [name : Names, codeset : Codesets]

\* The variables startBrokerSession reads, in the order it reads them.
LangVars == <<"LANG", "LC_MESSAGES", "LC_ALL">>

VARIABLES
    env,          \* the process environment
    cmds,         \* commands running: a bag of [kind, arg]
    inbox,        \* messages waiting for Update: a bag of [kind, arg]
    current,      \* m.currentSession
    daemon,       \* sessions open on the daemon for this client
    used,         \* session IDs handed out so far
    langSent,     \* the lang of the last SBRequest
    quitCalled,   \* m.quit() has been called
    exited,       \* the bubbletea program has quit
    requests      \* the user's actions so far

vars == <<env, cmds, inbox, current, daemon, used, langSent, quitCalled,
          exited, requests>>

Cmd(kind, arg) == [kind |-> kind, arg |-> arg]
Msg(kind, arg) == [kind |-> kind, arg |-> arg]

-----------------------------------------------------------------------------
\* Mutant: the suffix trimmed without its dot leaves a trailing ".".
TrimUTF8Dot(l) == IF l.codeset = "UTF-8" THEN [l EXCEPT !.codeset = "."] ELSE l

\* strings.TrimSuffix(lang, ".UTF-8"): only that exact suffix goes.
TrimUTF8(l) == IF l.codeset = "UTF-8" THEN [l EXCEPT !.codeset = "none"] ELSE l

\* One iteration of startBrokerSession's loop: a variable that is set
\* overwrites lang.
LangStep(e, lang, v) == IF e[v] # Unset THEN e[v] ELSE lang

\* The loop itself, over its three-element array: "C", overwritten by every
\* variable that is set, in the order of LangVars; then the trim.
SessionLang(e) ==
    TrimUTF8(LangStep(e, LangStep(e, LangStep(e, [name |-> "C", codeset |-> "none"],
                                               LangVars[1]),
                                   LangVars[2]),
                      LangVars[3]))

\* m.quit(): tea.Quit, or tea.Sequence(endSession(...), tea.Quit).  The
\* sequence is one command whose second half is queued when the first ends.
QuitCmds(s) ==
    IF s = NoSession THEN SetToBag({Cmd("quit", NoSession)})
    ELSE SetToBag({Cmd("endSession", s)})

-----------------------------------------------------------------------------
Init ==
    /\ env \in [Range(LangVars) -> {Unset} \cup Locales]
    /\ cmds = EmptyBag
    /\ inbox = EmptyBag
    /\ current = NoSession
    /\ daemon = {}
    /\ used = {}
    /\ langSent = Unset
    /\ quitCalled = FALSE
    /\ exited = FALSE
    /\ requests = 0

\* A command ends: it leaves the running ones and its message is queued.
Reply(c, m) ==
    /\ cmds' = BagRemove(cmds, c)
    /\ inbox' = BagAdd(inbox, m)

\* startBrokerSession for the local broker: pamIgnore, nothing asked.
StartLocal(c) ==
    /\ c.arg = "local"
    /\ Reply(c, Msg("pamIgnore", NoSession))
    /\ UNCHANGED <<env, current, daemon, used, langSent, quitCalled, exited,
                   requests>>

\* startBrokerSession: the SelectBroker RPC with the lang of the environment.
\* The daemon opens a session and answers with its ID and key (spec 4.6),
\* or the call fails, or the answer lacks the ID or the key.
StartRemote(c) ==
    /\ c.arg = "remote"
    /\ langSent' = SessionLang(env)
    /\ \/ /\ Reply(c, Msg("pamSystemError", NoSession))  \* RPC error, no ID
          /\ UNCHANGED <<daemon, used>>
       \/ \E s \in Sessions \ used :
            /\ used' = used \cup {s}
            /\ daemon' = daemon \cup {s}
            /\ \/ Reply(c, Msg("sessionStarted", s))
               \/ Reply(c, Msg("pamSystemError", NoSession))  \* no key
    /\ UNCHANGED <<env, current, quitCalled, exited, requests>>

\* getLayout: the SelectAuthenticationMode RPC.  A failed call and an empty
\* layout are both a pamSystemError.
GetLayout(c) ==
    /\ c.kind = "getLayout"
    /\ \/ Reply(c, Msg("pamSystemError", NoSession))
       \/ Reply(c, Msg("layout", c.arg))
    /\ UNCHANGED <<env, current, daemon, used, langSent, quitCalled, exited,
                   requests>>

\* Mutant: the sequence stops when EndSession fails.
EndSessionStopsOnError(c) ==
    /\ c.kind = "endSession"
    /\ \/ /\ cmds' = BagAdd(BagRemove(cmds, c), Cmd("quit", NoSession))
          /\ daemon' = daemon \ {c.arg}
          /\ inbox' = BagAdd(inbox, Msg("sessionEnded", c.arg))
       \/ /\ cmds' = BagRemove(cmds, c)
          /\ UNCHANGED <<daemon, inbox>>
    /\ UNCHANGED <<env, current, used, langSent, quitCalled, exited, requests>>

\* The endSession half of quit's tea.Sequence: the EndSession RPC, whose
\* failure is only logged ("Considering already done"), then tea.Quit.
EndSession(c) ==
    /\ c.kind = "endSession"
    /\ cmds' = BagAdd(BagRemove(cmds, c), Cmd("quit", NoSession))
    /\ \/ /\ daemon' = daemon \ {c.arg}
          /\ inbox' = BagAdd(inbox, Msg("sessionEnded", c.arg))
       \/ UNCHANGED <<daemon, inbox>>
    /\ UNCHANGED <<env, current, used, langSent, quitCalled, exited, requests>>

\* tea.Quit: the program stops; running commands and queued messages are
\* dropped.
RunQuit(c) ==
    /\ c.kind = "quit"
    /\ exited' = TRUE
    /\ cmds' = BagRemove(cmds, c)
    /\ UNCHANGED <<env, inbox, current, daemon, used, langSent, quitCalled,
                   requests>>

RunCmd(c) ==
    \/ c.kind = "startBroker" /\ (StartLocal(c) \/ StartRemote(c))
    \/ GetLayout(c) \/ EndSession(c) \/ RunQuit(c)

-----------------------------------------------------------------------------
(* Update (model.go): a PAM return signal quits, SessionStarted records    *)
(* the session; the rest only changes the UI.                             *)

Quit ==
    /\ quitCalled' = TRUE
    /\ cmds' = cmds (+) QuitCmds(current)

Handle(m) ==
    /\ inbox' = BagRemove(inbox, m)
    /\ \/ /\ m.kind \in PamReturns
          /\ Quit
          /\ UNCHANGED current
       \/ /\ m.kind = "sessionStarted"
          /\ current' = m.arg
          /\ UNCHANGED <<cmds, quitCalled>>
       \/ /\ m.kind \in {"layout", "sessionEnded"}
          /\ UNCHANGED <<cmds, current, quitCalled>>
    /\ UNCHANGED <<env, daemon, used, langSent, exited, requests>>

\* The user picks a broker, picks an authentication mode, or gives up; the
\* broker grants access.
UserAction ==
    /\ requests < MaxRequests
    /\ requests' = requests + 1
    /\ \/ /\ current = NoSession
          /\ \E b \in Brokers : cmds' = BagAdd(cmds, Cmd("startBroker", b))
          /\ UNCHANGED <<inbox, quitCalled>>
       \/ /\ current # NoSession
          /\ cmds' = BagAdd(cmds, Cmd("getLayout", current))
          /\ UNCHANGED <<inbox, quitCalled>>
       \/ /\ Quit
          /\ UNCHANGED inbox
       \/ /\ current # NoSession
          /\ inbox' = BagAdd(inbox, Msg("pamSuccess", NoSession))
          /\ UNCHANGED <<cmds, quitCalled>>
    /\ UNCHANGED <<env, current, daemon, used, langSent, exited>>

Next ==
    /\ ~exited
    /\ \/ \E c \in BagToSet(cmds) : RunCmd(c)
       \/ \E m \in BagToSet(inbox) : Handle(m)
       \/ UserAction

\* The bubbletea runtime runs every command it was given and hands every
\* message to Update; the user and the broker need not act.
Fairness ==
    /\ WF_vars(~exited /\ \E c \in BagToSet(cmds) : RunCmd(c))
    /\ WF_vars(~exited /\ \E m \in BagToSet(inbox) : Handle(m))

Spec == Init /\ [][Next]_vars

FairSpec == Spec /\ Fairness

-----------------------------------------------------------------------------
(* Properties.                                                            *)

\* Every variable ranges over the values the code can give it.
TypeOK ==
    /\ env \in [Range(LangVars) -> {Unset} \cup Locales]
    /\ IsABag(cmds) /\ BagToSet(cmds) \subseteq [kind : Cmds, arg : Brokers \cup Sessions \cup {NoSession}]
    /\ IsABag(inbox) /\ BagToSet(inbox) \subseteq [kind : Msgs, arg : Sessions \cup {NoSession}]
    /\ current \in Sessions \cup {NoSession}
    /\ daemon \subseteq used /\ used \subseteq Sessions
    /\ langSent \in {Unset} \cup Locales
    /\ quitCalled \in BOOLEAN /\ exited \in BOOLEAN
    /\ requests \in 0..MaxRequests

\* Once m.quit() has been called the program exits, whether the EndSession
\* call it makes first succeeds or fails.
QuitExits == quitCalled ~> exited

\* The lang sent to the broker is the first of LANG, LC_MESSAGES, LC_ALL
\* that is set, with a trailing .UTF-8 stripped (spec §6, environment inputs).
LangAsSpecified ==
    LET set == SelectSeq(LangVars, LAMBDA v : env[v] # Unset)
    IN  langSent # Unset =>
          langSent = TrimUTF8(IF set = <<>> THEN [name |-> "C", codeset |-> "none"]
                              ELSE env[Head(set)])

=============================================================================
