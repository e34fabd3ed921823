------------------------- MODULE UserManagerProofs -------------------------
(***************************************************************************)
(* Proofs about the user manager, for every value of the constants that   *)
(* satisfies ManagerAssumption.                                           *)
(***************************************************************************)
EXTENDS UserManager, TLAPS

\* The cutoff NewManager computes (now - Expiration at the time it ran) is
\* never ahead of the clock by less than Expiration: the clock only moves
\* forward and every restart recomputes the cutoff from the current clock.
CutoffBehind == cutoff + Expiration <= now

\* The inductive invariant: the types, and the cutoff behind the clock.
IInv == TypeOK /\ CutoffBehind

-----------------------------------------------------------------------------
\* The steps every action makes to the variables it leaves alone.
USE DEF vars, mainVars, cleanupVars, handlerVars, diskVars, envVars, envNoFault

\* The initial states are well typed.
LEMMA TypeInit == Init => TypeOK
<1> SUFFICES ASSUME Init PROVE TypeOK
  OBVIOUS
<1>1. harg \in [Handlers -> Users]
  BY ManagerAssumption DEF Init
<1>2. lastLogin \in [Users -> 0..MaxTime]
  BY ManagerAssumption DEF Init
<1>3. /\ now \in 0..MaxTime
      /\ cutoff \in Int
      /\ corruptions \in 0..MaxCorruptions
      /\ restarts \in 0..MaxRestarts
      /\ faults \in 0..MaxFaults
  BY ManagerAssumption DEF Init
<1>4. /\ pc \in MainStates
      /\ gpc \in CleanupStates
      /\ hpc \in [Handlers -> HandlerStates]
  BY DEF Init, MainStates, CleanupStates, HandlerStates
<1>5. /\ cacheOpen \in BOOLEAN /\ quitClosed \in BOOLEAN
      /\ stoppedClosed \in BOOLEAN /\ corrupt \in BOOLEAN
      /\ dirtyFlag \in BOOLEAN
  BY DEF Init
<1>6. /\ attempt \in 0..2
      /\ snapshot \in SUBSET Users /\ swept \in SUBSET Users
      /\ cached \in SUBSET Users /\ localMembers \in SUBSET Users
      /\ active \in SUBSET Users
  BY DEF Init
<1> QED
  BY <1>1, <1>2, <1>3, <1>4, <1>5, <1>6 DEF TypeOK

\* The startup m.clear either removes the marker or counts a failed removal.
LEMMA StartupClearFaults ==
    StartupClear => faults' = faults \/ (faults' = faults + 1 /\ faults < MaxFaults)
BY DEF StartupClear, Fault

\* Every step of Next, or a stutter, keeps TypeOK.
LEMMA TypeStep == TypeOK /\ [Next]_vars => TypeOK'
  <1> SUFFICES ASSUME TypeOK, [Next]_vars PROVE TypeOK'
    OBVIOUS
  <1> USE DEF TypeOK, MainStates, CleanupStates, HandlerStates
  <1>1. CASE OpenCache
    BY <1>1 DEF OpenCache
  <1>2. CASE OpenNeedsClearing
    <2>1. faults' \in 0..MaxFaults
      BY <1>2, ManagerAssumption DEF OpenNeedsClearing, Fault
    <2>2. attempt' \in 0..2
      BY <1>2 DEF OpenNeedsClearing
    <2> QED
      BY <1>2, <2>1, <2>2 DEF OpenNeedsClearing, CleanLocalGroups
  <1>3. CASE OpenFails
    BY <1>3 DEF OpenFails
  <1>4. CASE OpenLoopExhausted
    BY <1>4 DEF OpenLoopExhausted
  <1>5. CASE StartupClear
    <2>1. faults' = faults \/ (faults' = faults + 1 /\ faults < MaxFaults)
      BY <1>5, StartupClearFaults
    <2>2. faults' \in 0..MaxFaults
      BY <2>1, ManagerAssumption
    <2> QED
      BY <1>5, <2>2 DEF StartupClear, CleanLocalGroups
  <1>6. CASE StartupClearFails
    <2>1. faults' \in 0..MaxFaults
      BY <1>6, ManagerAssumption DEF StartupClearFails, Fault
    <2> QED
      BY <1>6, <2>1 DEF StartupClearFails
  <1>7. CASE StartupNoFlag
    BY <1>7 DEF StartupNoFlag
  <1>8. CASE NilCachePanic
    BY <1>8 DEF NilCachePanic
  <1>9. CASE StartupSweep
    BY <1>9 DEF StartupSweep, NeedsClearing, ExpiredUsers, RunningProcessUIDs
  <1>10. CASE StartupProcScanFails
    <2>1. faults' \in 0..MaxFaults
      BY <1>10, ManagerAssumption DEF StartupProcScanFails, Fault
    <2> QED
      BY <1>10, <2>1 DEF StartupProcScanFails
  <1>11. CASE StopEnd
    BY <1>11 DEF StopEnd
  <1>12. CASE StopBegin
    BY <1>12 DEF StopBegin
  <1>13. CASE GSweepStart
    BY <1>13 DEF GSweepStart, RunningProcessUIDs
  <1>14. CASE GSweep
    BY <1>14 DEF GSweep, NeedsClearing, ExpiredUsers
  <1>15. CASE GSweepGroups
    BY <1>15 DEF GSweepGroups
  <1>16. CASE GClearCache
    BY <1>16 DEF GClearCache
  <1>17. CASE GClearCacheFails
    <2>1. faults' \in 0..MaxFaults
      BY <1>17, ManagerAssumption DEF GClearCacheFails, Fault
    <2> QED
      BY <1>17, <2>1 DEF GClearCacheFails
  <1>18. CASE GClearFlag
    <2>1. faults' \in 0..MaxFaults
      BY <1>18, ManagerAssumption DEF GClearFlag, Fault
    <2> QED
      BY <1>18, <2>1 DEF GClearFlag
  <1>19. CASE GClearGroups
    <2>1. faults' \in 0..MaxFaults
      BY <1>19, ManagerAssumption DEF GClearGroups, Fault
    <2> QED
      BY <1>19, <2>1 DEF GClearGroups, CleanLocalGroups
  <1>20. CASE GQuit
    BY <1>20 DEF GQuit
  <1>21. ASSUME NEW h \in Handlers
         PROVE  /\ RequestRead(h) => TypeOK'
                /\ \A u \in Users : RequestUpdateUser(h, u) => TypeOK'
                /\ HandlerStep(h) => TypeOK'
    <2>1. RequestRead(h) => TypeOK'
      BY DEF RequestRead
    <2>2. ASSUME NEW u \in Users, RequestUpdateUser(h, u) PROVE TypeOK'
      BY <2>2 DEF RequestUpdateUser
    <2>3. LocalGroupsUpdate(h) => TypeOK'
      BY DEF LocalGroupsUpdate
    <2>4. ASSUME LocalGroupsUpdateFails(h) PROVE TypeOK'
      <3>1. faults' \in 0..MaxFaults
        BY <2>4, ManagerAssumption DEF LocalGroupsUpdateFails, Fault
      <3> QED
        BY <2>4, <3>1 DEF LocalGroupsUpdateFails
    <2>5. RollbackDelete(h) => TypeOK'
      BY DEF RollbackDelete
    <2>6. ASSUME MarkCorrupted(h) PROVE TypeOK'
      <3>1. faults' \in 0..MaxFaults
        BY <2>6, ManagerAssumption DEF MarkCorrupted, Fault
      <3> QED
        BY <2>6, <3>1 DEF MarkCorrupted
    <2>7. SendClear(h) => TypeOK'
      BY DEF SendClear
    <2>8. SendTimeout(h) => TypeOK'
      BY DEF SendTimeout
    <2> QED
      BY <2>1, <2>2, <2>3, <2>4, <2>5, <2>6, <2>7, <2>8 DEF HandlerStep
  <1>22. CASE ClockTick
    BY <1>22, ManagerAssumption DEF ClockTick
  <1>23. CASE CorruptEntry
    BY <1>23, ManagerAssumption DEF CorruptEntry
  <1>24. CASE ProcessesChange
    BY <1>24 DEF ProcessesChange
  <1>25. CASE Restart
    <2>1. hpc' \in [Handlers -> HandlerStates]
      BY <1>25 DEF Restart
    <2>2. restarts' \in 0..MaxRestarts /\ cutoff' \in Int
          /\ faults' \in 0..MaxFaults
      BY <1>25, ManagerAssumption DEF Restart
    <2>3. /\ pc' \in MainStates /\ attempt' \in 0..2
          /\ gpc' \in CleanupStates
          /\ snapshot' \in SUBSET Users /\ swept' \in SUBSET Users
      BY <1>25 DEF Restart
    <2>4. /\ cacheOpen' \in BOOLEAN /\ quitClosed' \in BOOLEAN
          /\ stoppedClosed' \in BOOLEAN
      BY <1>25, Zenon DEF Restart
    <2> QED
      BY <1>25, <2>1, <2>2, <2>3, <2>4 DEF Restart
  <1>26. CASE UNCHANGED vars
    BY <1>26
  <1> QED
    BY <1>1, <1>2, <1>3, <1>4, <1>5, <1>6, <1>7, <1>8, <1>9, <1>10, <1>11,
       <1>12, <1>13, <1>14, <1>15, <1>16, <1>17, <1>18, <1>19, <1>20,
       <1>21, <1>22, <1>23, <1>24, <1>25, <1>26
       DEF Next, MainStep, CleanupStep

\* NewManager, the cleanup goroutine, the request handlers, the clock, the
\* disk and restarts keep every variable within its type (TypeOK).
THEOREM TypeCorrect == Spec => []TypeOK
BY TypeInit, TypeStep, PTL DEF Spec

-----------------------------------------------------------------------------
\* Only the clock and Restart touch now and cutoff: the clock moves forward,
\* and Restart sets the cutoff to now - Expiration.
LEMMA CutoffInvariant == Spec => []IInv
<1>1. Init => IInv
  BY ManagerAssumption, TypeInit DEF Init, IInv, CutoffBehind
<1>2. IInv /\ [Next]_vars => CutoffBehind'
  <2> SUFFICES ASSUME IInv, [Next]_vars PROVE CutoffBehind'
    OBVIOUS
  <2>1. CASE ClockTick
    BY <2>1, ManagerAssumption DEF ClockTick, IInv, CutoffBehind, TypeOK
  <2>2. CASE Restart
    BY <2>2, ManagerAssumption DEF Restart, IInv, CutoffBehind, TypeOK
  <2>3. CASE MainStep \/ StopBegin
    BY <2>3 DEF IInv, CutoffBehind, MainStep, OpenCache, OpenNeedsClearing,
       OpenFails, OpenLoopExhausted, StartupClear, StartupClearFails,
       StartupNoFlag, NilCachePanic, StartupSweep, StartupProcScanFails,
       StopEnd, StopBegin
  <2>4. CASE CleanupStep \/ GSweepStart
    BY <2>4 DEF IInv, CutoffBehind, CleanupStep, GSweep, GSweepGroups,
       GClearCache, GClearCacheFails, GClearFlag, GClearGroups, GQuit,
       GSweepStart
  <2>5. ASSUME NEW h \in Handlers,
               \/ RequestRead(h)
               \/ \E u \in Users : RequestUpdateUser(h, u)
               \/ HandlerStep(h)
        PROVE  CutoffBehind'
    BY <2>5 DEF IInv, CutoffBehind, HandlerStep, RequestRead,
       RequestUpdateUser, LocalGroupsUpdate, LocalGroupsUpdateFails,
       RollbackDelete, MarkCorrupted, SendClear, SendTimeout
  <2>6. CASE CorruptEntry \/ ProcessesChange \/ UNCHANGED vars
    BY <2>6 DEF IInv, CutoffBehind, CorruptEntry, ProcessesChange
  <2> QED
    BY <2>1, <2>2, <2>3, <2>4, <2>5, <2>6 DEF Next
<1>3. IInv /\ [Next]_vars => IInv'
  BY <1>2, TypeStep DEF IInv
<1> QED
  BY <1>1, <1>3, PTL DEF Spec

-----------------------------------------------------------------------------
\* The users an expiry sweep removes all logged in before the cutoff, and the
\* cutoff is at least Expiration behind the clock.
LEMMA SweepStepSafe ==
    IInv /\ [Next]_vars
        => [SweepStep => \A u \in cached \ cached' : lastLogin[u] + Expiration < now]_vars
<1> SUFFICES ASSUME IInv, [Next]_vars, SweepStep,
                    NEW u \in cached \ cached'
             PROVE  lastLogin[u] + Expiration < now
  OBVIOUS
<1>1. lastLogin[u] < cutoff
  <2>1. CASE GSweep
    BY <2>1 DEF GSweep, SweepStep, ExpiredUsers
  <2>2. CASE StartupSweep
    BY <2>2 DEF StartupSweep, SweepStep, ExpiredUsers, NeedsClearing
  <2>3. CASE ~GSweep /\ ~StartupSweep
    \* No other step moves gpc from sweep to sweepGroups or pc from
    \* cleanOnNew to running.
    BY <2>3 DEF SweepStep, Next, MainStep, CleanupStep, HandlerStep,
       OpenCache, OpenNeedsClearing, OpenFails, OpenLoopExhausted,
       StartupClear, StartupClearFails, StartupNoFlag, NilCachePanic,
       StartupProcScanFails, StopEnd,
       StopBegin, GSweepGroups, GClearCache, GClearFlag,
       GClearCacheFails, GClearGroups, GQuit, GSweepStart, RequestRead, RequestUpdateUser,
       LocalGroupsUpdate, LocalGroupsUpdateFails, RollbackDelete,
       MarkCorrupted, SendClear, SendTimeout, ClockTick, CorruptEntry,
       ProcessesChange, Restart
  <2> QED
    BY <2>1, <2>2, <2>3
<1> QED
  BY <1>1, ManagerAssumption DEF IInv, CutoffBehind, TypeOK

\* The expiry sweep of cleanExpiredUserData, at startup or in the cleanup
\* goroutine, never removes a user who logged in less than Expiration ago
\* (SweepRespectsWindow), for any clock, expiration and number of restarts.
THEOREM WindowRespected == Spec => SweepRespectsWindow
BY CutoffInvariant, SweepStepSafe, PTL DEF SweepRespectsWindow, Spec

=============================================================================
