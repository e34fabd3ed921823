---------------------------- MODULE UserManager ----------------------------
(***************************************************************************)
(* The user manager of authd (internal/users/manager.go) and the parts of *)
(* the user cache it drives.  Three kinds of goroutine share it:          *)
(*   - the main goroutine, running NewManager and, later, Stop;           *)
(*   - the cleanup goroutine of startUserCleanupRoutine, which serves the *)
(*     doClear channel, the expiry timer and the quit channel;            *)
(*   - request handlers (the gRPC services), whose cache calls go through *)
(*     shouldClearDb and may ask the cleanup goroutine to clear the       *)
(*     database with requestClearDatabase.                                *)
(* What is persisted (the database, the .corrupted marker and the host's  *)
(* local groups) survives a restart of the daemon; everything else is     *)
(* reset.  The database is abstracted to the set of cached users, their   *)
(* last login time and whether one of its entries is corrupt.             *)
(***************************************************************************)
EXTENDS Integers, FiniteSets

CONSTANTS
    Handlers,        \* request handler goroutines
    Users,           \* user names
    Expiration,      \* defaultEntryExpiration, in clock ticks
    StartTime,       \* the clock when the daemon is first started
    MaxTime,         \* bound on the clock
    MaxCorruptions,  \* bound on the database corruptions the disk suffers
    MaxRestarts,     \* bound on daemon restarts
    MaxFaults        \* bound on failing file-system and /proc operations

ASSUME ManagerAssumption ==
    /\ Handlers # {}
    /\ Users # {}
    /\ Expiration \in Nat \ {0}
    /\ StartTime \in Nat
    /\ MaxTime \in Nat
    /\ StartTime <= MaxTime
    /\ MaxCorruptions \in Nat
    /\ MaxRestarts \in Nat
    /\ MaxFaults \in Nat

VARIABLES
    \* main goroutine: NewManager, then Stop
    pc,            \* where NewManager / Stop is
    attempt,       \* iteration of the cache.New loop of NewManager
    cacheOpen,     \* m.cache is set (not nil) and not closed
    cutoff,        \* opts.expirationDate, computed once by NewManager
    \* cleanup goroutine
    gpc,           \* where the cleanup goroutine is
    snapshot,      \* activeUIDs read from /proc by cleanExpiredUserData
    swept,         \* users removed by CleanExpiredUsers, not yet CleanUser'd
    quitClosed,    \* m.quit has been closed
    stoppedClosed, \* m.cleanupStopped has been closed
    \* request handlers
    hpc,           \* where each handler is
    harg,          \* the user a handler's UpdateUser is about
    \* persisted state and the environment
    now,           \* wall clock
    cached,        \* users in the database
    lastLogin,     \* last login time stored with each user
    corrupt,       \* the database holds an entry that fails to decode
    dirtyFlag,     \* the .corrupted marker file exists
    localMembers,  \* users that are members of local groups (/etc/group)
    active,        \* users owning a running process
    corruptions,   \* corruptions suffered so far
    restarts,      \* restarts so far
    faults         \* failed I/O operations so far

mainVars == <<pc, attempt, cacheOpen, cutoff>>
cleanupVars == <<gpc, snapshot, swept, quitClosed, stoppedClosed>>
handlerVars == <<hpc, harg>>
diskVars == <<cached, lastLogin, corrupt, dirtyFlag, localMembers>>
envVars == <<now, active, corruptions, restarts, faults>>
vars == <<mainVars, cleanupVars, handlerVars, diskVars, envVars>>

MainStates == {"open", "checkFlag", "cleanOnNew", "running", "stopping",
               "stopped", "failed", "panicked"}
CleanupStates == {"none", "select", "sweep", "sweepGroups", "clearCache",
                  "clearFlag", "clearGroups", "exited"}
HandlerStates == {"idle", "localGroups", "rollback", "mark", "send"}

-----------------------------------------------------------------------------
(* Helpers of the cache and local-groups packages.                        *)

\* The manager serves requests between NewManager and the end of Stop.
CacheUsable == pc \in {"running", "stopping"}

\* getUser / AllUsers: an entry that fails to decode is joined with
\* ErrNeedsClearing; a missing one is NoDataFoundError, a plain error.
NeedsClearing == corrupt

\* getUIDsOfRunningProcesses: the owners of the numeric entries of /proc.
RunningProcessUIDs == active

\* cache.CleanExpiredUsers(activeUIDs, expirationDate): the users whose last
\* login is older than the cutoff and who own no running process.
ExpiredUsers(activeUIDs) ==
    {u \in cached : lastLogin[u] < cutoff /\ u \notin activeUIDs}

\* localgroups.Clean: drops from the local groups the users no longer cached.
CleanLocalGroups(store) == localMembers \cap store

\* An I/O operation (a file removal or write, /etc/group, /proc, the database
\* files) fails; the bound keeps the failures few.
Fault ==
    /\ faults < MaxFaults
    /\ faults' = faults + 1

\* The variables of the environment other than the fault counter.
envNoFault == <<now, active, corruptions, restarts>>

-----------------------------------------------------------------------------
\* Mutant: expirationDate set to time.Now(), the expiration not subtracted.
InitCutoffNow ==
    /\ pc = "open"
    /\ attempt = 0
    /\ cacheOpen = FALSE
    /\ cutoff = StartTime
    /\ gpc = "none"
    /\ snapshot = {}
    /\ swept = {}
    /\ quitClosed = FALSE
    /\ stoppedClosed = FALSE
    /\ hpc = [h \in Handlers |-> "idle"]
    /\ harg = [h \in Handlers |-> CHOOSE u \in Users : TRUE]
    /\ now = StartTime
    /\ cached \in SUBSET Users
    /\ lastLogin \in [Users -> 0..StartTime]
    /\ corrupt \in BOOLEAN
    /\ dirtyFlag \in BOOLEAN
    /\ localMembers \in SUBSET Users
    /\ active \in SUBSET Users
    /\ corruptions = 0
    /\ restarts = 0
    /\ faults = 0

Init ==
    /\ pc = "open"
    /\ attempt = 0
    /\ cacheOpen = FALSE
    /\ cutoff = StartTime - Expiration
    /\ gpc = "none"
    /\ snapshot = {}
    /\ swept = {}
    /\ quitClosed = FALSE
    /\ stoppedClosed = FALSE
    /\ hpc = [h \in Handlers |-> "idle"]
    /\ harg = [h \in Handlers |-> CHOOSE u \in Users : TRUE]
    /\ now = StartTime
    /\ cached \in SUBSET Users
    /\ lastLogin \in [Users -> 0..StartTime]
    /\ corrupt \in BOOLEAN
    /\ dirtyFlag \in BOOLEAN
    /\ localMembers \in SUBSET Users
    /\ active \in SUBSET Users
    /\ corruptions = 0
    /\ restarts = 0
    /\ faults = 0

-----------------------------------------------------------------------------
(* NewManager.  The cache.New loop runs at most twice; a database that    *)
(* needs clearing is removed, the local groups are cleaned, and the loop  *)
(* tries again.                                                           *)

OpenCache ==
    /\ pc = "open"
    /\ attempt < 2
    /\ cacheOpen' = TRUE
    /\ pc' = "checkFlag"
    /\ UNCHANGED <<attempt, cutoff, cleanupVars, handlerVars, diskVars, envVars>>

\* Mutant: the retry loop of NewManager without its bound.
OpenNeedsClearingUnbounded ==
    /\ pc = "open"
    /\ attempt' = attempt + 1
    /\ cached' = {}
    /\ corrupt' = FALSE
    /\ \/ localMembers' = CleanLocalGroups({}) /\ UNCHANGED faults
       \/ Fault /\ UNCHANGED localMembers  \* Clean fails: only logged
    /\ UNCHANGED <<pc, cacheOpen, cutoff, cleanupVars, handlerVars,
                   lastLogin, dirtyFlag, envNoFault>>

OpenNeedsClearing ==
    /\ pc = "open"
    /\ attempt < 2
    /\ attempt' = attempt + 1
    /\ cached' = {}
    /\ corrupt' = FALSE
    /\ \/ localMembers' = CleanLocalGroups({}) /\ UNCHANGED faults
       \/ Fault /\ UNCHANGED localMembers  \* Clean fails: only logged
    /\ UNCHANGED <<pc, cacheOpen, cutoff, cleanupVars, handlerVars,
                   lastLogin, dirtyFlag, envNoFault>>

\* cache.New fails with another error, or RemoveDb fails after
\* ErrNeedsClearing: NewManager returns the error.
OpenFails ==
    /\ pc = "open"
    /\ attempt < 2
    /\ pc' = "failed"
    /\ UNCHANGED <<attempt, cacheOpen, cutoff, cleanupVars, handlerVars,
                   diskVars, envVars>>

\* Both iterations asked for clearing: the loop ends with m.cache unset.
OpenLoopExhausted ==
    /\ pc = "open"
    /\ attempt = 2
    /\ pc' = "checkFlag"
    /\ UNCHANGED <<attempt, cacheOpen, cutoff, cleanupVars, handlerVars,
                   diskVars, envVars>>

\* isMarkedCorrupted: m.clear on a marked database.  A failing os.Remove of
\* the marker is only logged; a failing localgroups.Clean fails NewManager.
StartupClear ==
    /\ pc = "checkFlag"
    /\ dirtyFlag
    /\ cacheOpen
    /\ cached' = {}
    /\ corrupt' = FALSE
    /\ \/ dirtyFlag' = FALSE /\ UNCHANGED faults
       \/ Fault /\ UNCHANGED dirtyFlag
    /\ localMembers' = CleanLocalGroups({})
    /\ pc' = "cleanOnNew"
    /\ UNCHANGED <<attempt, cacheOpen, cutoff, cleanupVars, handlerVars,
                   lastLogin, envNoFault>>

\* m.clear fails at cache.Clear, or at localgroups.Clean once the database and
\* the marker are gone: NewManager returns "could not clear corrupted data".
StartupClearFails ==
    /\ pc = "checkFlag"
    /\ dirtyFlag
    /\ cacheOpen
    /\ Fault
    /\ \/ UNCHANGED <<cached, corrupt, dirtyFlag>>
       \/ cached' = {} /\ corrupt' = FALSE /\ dirtyFlag' = FALSE
    /\ pc' = "failed"
    /\ UNCHANGED <<attempt, cacheOpen, cutoff, cleanupVars, handlerVars,
                   lastLogin, localMembers, envNoFault>>

StartupNoFlag ==
    /\ pc = "checkFlag"
    /\ ~dirtyFlag
    /\ pc' = "cleanOnNew"
    /\ UNCHANGED <<attempt, cacheOpen, cutoff, cleanupVars, handlerVars,
                   diskVars, envVars>>

\* m.clear or cleanExpiredUserData dereferences a nil m.cache.
NilCachePanic ==
    /\ \/ pc = "checkFlag" /\ dirtyFlag
       \/ pc = "cleanOnNew"
    /\ ~cacheOpen
    /\ pc' = "panicked"
    /\ UNCHANGED <<attempt, cacheOpen, cutoff, cleanupVars, handlerVars,
                   diskVars, envVars>>

\* cleanOnNew: cleanExpiredUserData, then startUserCleanupRoutine.  A
\* CleanExpiredUsers error (corrupt database) is only logged, and so is a
\* failing localgroups.CleanUser.
StartupSweep ==
    /\ pc = "cleanOnNew"
    /\ cacheOpen
    /\ IF NeedsClearing
         THEN UNCHANGED <<cached, localMembers>>
         ELSE LET removed == ExpiredUsers(RunningProcessUIDs) IN
              /\ cached' = cached \ removed
              /\ \E failed \in SUBSET removed :
                   localMembers' = localMembers \ (removed \ failed)
    /\ gpc' = "select"
    /\ pc' = "running"
    /\ UNCHANGED <<attempt, cacheOpen, cutoff, snapshot, swept, quitClosed,
                   stoppedClosed, handlerVars, lastLogin, corrupt, dirtyFlag,
                   envVars>>

\* getUIDsOfRunningProcesses fails: cleanExpiredUserData returns before
\* touching the database, and NewManager only logs it.
StartupProcScanFails ==
    /\ pc = "cleanOnNew"
    /\ cacheOpen
    /\ Fault
    /\ gpc' = "select"
    /\ pc' = "running"
    /\ UNCHANGED <<attempt, cacheOpen, cutoff, snapshot, swept, quitClosed,
                   stoppedClosed, handlerVars, diskVars, envNoFault>>

(* Stop: close(m.quit), wait for m.cleanupStopped, close the cache.       *)
StopBegin ==
    /\ pc = "running"
    /\ quitClosed' = TRUE
    /\ pc' = "stopping"
    /\ UNCHANGED <<attempt, cacheOpen, cutoff, gpc, snapshot, swept,
                   stoppedClosed, handlerVars, diskVars, envVars>>

StopEnd ==
    /\ pc = "stopping"
    /\ stoppedClosed
    /\ cacheOpen' = FALSE
    /\ pc' = "stopped"
    /\ UNCHANGED <<attempt, cutoff, cleanupVars, handlerVars, diskVars, envVars>>

-----------------------------------------------------------------------------
(* The cleanup goroutine.  Its select takes the expiry timer, a doClear   *)
(* request or the closed quit channel.  The timer is created afresh at    *)
(* every iteration, so it is never ready when quit already is.            *)

\* The timer fires and cleanExpiredUserData reads /proc.  When that read
\* fails the goroutine logs it and is back in its select with nothing
\* changed, a stutter.
GSweepStart ==
    /\ gpc = "select"
    /\ ~quitClosed
    /\ snapshot' = RunningProcessUIDs
    /\ gpc' = "sweep"
    /\ UNCHANGED <<mainVars, swept, quitClosed, stoppedClosed, handlerVars,
                   diskVars, envVars>>

GSweep ==
    /\ gpc = "sweep"
    /\ IF NeedsClearing
         THEN /\ gpc' = "select"
              /\ UNCHANGED <<cached, swept>>
         ELSE /\ swept' = ExpiredUsers(snapshot)
              /\ cached' = cached \ ExpiredUsers(snapshot)
              /\ gpc' = "sweepGroups"
    /\ UNCHANGED <<mainVars, snapshot, quitClosed, stoppedClosed, handlerVars,
                   lastLogin, corrupt, dirtyFlag, localMembers, envVars>>

\* localgroups.CleanUser for every removed user; a failure is only logged.
GSweepGroups ==
    /\ gpc = "sweepGroups"
    /\ \E failed \in SUBSET swept :
         localMembers' = localMembers \ (swept \ failed)
    /\ swept' = {}
    /\ gpc' = "select"
    /\ UNCHANGED <<mainVars, snapshot, quitClosed, stoppedClosed, handlerVars,
                   cached, lastLogin, corrupt, dirtyFlag, envVars>>

\* m.clear: cache.Clear, remove the marker, localgroups.Clean.
GClearCache ==
    /\ gpc = "clearCache"
    /\ cached' = {}
    /\ corrupt' = FALSE
    /\ gpc' = "clearFlag"
    /\ UNCHANGED <<mainVars, snapshot, swept, quitClosed, stoppedClosed,
                   handlerVars, lastLogin, dirtyFlag, localMembers, envVars>>

\* cache.Clear fails: m.clear returns at once and the goroutine logs it.
GClearCacheFails ==
    /\ gpc = "clearCache"
    /\ Fault
    /\ gpc' = "select"
    /\ UNCHANGED <<mainVars, snapshot, swept, quitClosed, stoppedClosed,
                   handlerVars, diskVars, envNoFault>>

\* os.Remove of the marker; its failure is only logged.
GClearFlag ==
    /\ gpc = "clearFlag"
    /\ \/ dirtyFlag' = FALSE /\ UNCHANGED faults
       \/ Fault /\ UNCHANGED dirtyFlag
    /\ gpc' = "clearGroups"
    /\ UNCHANGED <<mainVars, snapshot, swept, quitClosed, stoppedClosed,
                   handlerVars, cached, lastLogin, corrupt, localMembers,
                   envNoFault>>

\* localgroups.Clean; its error is returned by m.clear and only logged.
GClearGroups ==
    /\ gpc = "clearGroups"
    /\ \/ localMembers' = CleanLocalGroups(cached) /\ UNCHANGED faults
       \/ Fault /\ UNCHANGED localMembers
    /\ gpc' = "select"
    /\ UNCHANGED <<mainVars, snapshot, swept, quitClosed, stoppedClosed,
                   handlerVars, cached, lastLogin, corrupt, dirtyFlag,
                   envNoFault>>

\* Mutant: the goroutine returns without closing m.cleanupStopped.
GQuitNoClose ==
    /\ gpc = "select"
    /\ quitClosed
    /\ gpc' = "exited"
    /\ UNCHANGED <<mainVars, snapshot, swept, quitClosed, stoppedClosed,
                   handlerVars, diskVars, envVars>>

\* case <-m.quit: return, closing m.cleanupStopped on the way out.
GQuit ==
    /\ gpc = "select"
    /\ quitClosed
    /\ gpc' = "exited"
    /\ stoppedClosed' = TRUE
    /\ UNCHANGED <<mainVars, snapshot, swept, quitClosed, handlerVars,
                   diskVars, envVars>>

-----------------------------------------------------------------------------
(* Request handlers.  A read that decodes fine changes nothing and is a   *)
(* stutter; a cache call that meets the corrupt entry returns             *)
(* ErrNeedsClearing and goes through shouldClearDb.                       *)

\* UserByName, UserByID, AllUsers, GroupBy*, BrokerForUser ... on a corrupt
\* database: getUser / AllUsers join ErrNeedsClearing to the decode error.
RequestRead(h) ==
    /\ hpc[h] = "idle"
    /\ CacheUsable
    /\ NeedsClearing
    /\ hpc' = [hpc EXCEPT ![h] = "mark"]
    /\ UNCHANGED <<mainVars, cleanupVars, harg, diskVars, envVars>>

\* UpdateUser(u): cache.UpdateUserEntry, then localgroups.Update.
RequestUpdateUser(h, u) ==
    /\ hpc[h] = "idle"
    /\ CacheUsable
    /\ \/ /\ NeedsClearing
          /\ hpc' = [hpc EXCEPT ![h] = "mark"]
          /\ UNCHANGED <<harg, cached, lastLogin>>
       \/ /\ ~NeedsClearing
          /\ cached' = cached \cup {u}
          /\ lastLogin' = [lastLogin EXCEPT ![u] = now]
          /\ hpc' = [hpc EXCEPT ![h] = "localGroups"]
          /\ harg' = [harg EXCEPT ![h] = u]
    /\ UNCHANGED <<mainVars, cleanupVars, corrupt, dirtyFlag, localMembers,
                   envVars>>

\* localgroups.Update succeeds: the user is in the local groups it declares.
LocalGroupsUpdate(h) ==
    /\ hpc[h] = "localGroups"
    /\ \E member \in BOOLEAN :
         localMembers' = IF member THEN localMembers \cup {harg[h]}
                                   ELSE localMembers \ {harg[h]}
    /\ hpc' = [hpc EXCEPT ![h] = "idle"]
    /\ UNCHANGED <<mainVars, cleanupVars, harg, cached, lastLogin, corrupt,
                   dirtyFlag, envVars>>

\* localgroups.Update fails to rewrite /etc/group.
LocalGroupsUpdateFails(h) ==
    /\ hpc[h] = "localGroups"
    /\ Fault
    /\ hpc' = [hpc EXCEPT ![h] = "rollback"]
    /\ UNCHANGED <<mainVars, cleanupVars, harg, diskVars, envNoFault>>

\* m.shouldClearDb(m.cache.DeleteUser(u.UID)).
RollbackDelete(h) ==
    /\ hpc[h] = "rollback"
    /\ \/ /\ ~CacheUsable
          /\ hpc' = [hpc EXCEPT ![h] = "idle"]
          /\ UNCHANGED cached
       \/ /\ CacheUsable
          /\ NeedsClearing
          /\ hpc' = [hpc EXCEPT ![h] = "mark"]
          /\ UNCHANGED cached
       \/ /\ CacheUsable
          /\ ~NeedsClearing
          /\ cached' = cached \ {harg[h]}
          /\ hpc' = [hpc EXCEPT ![h] = "idle"]
    /\ UNCHANGED <<mainVars, cleanupVars, harg, lastLogin, corrupt, dirtyFlag,
                   localMembers, envVars>>

\* requestClearDatabase: markCorrupted writes the marker unless it exists;
\* a failing write is only logged.
MarkCorrupted(h) ==
    /\ hpc[h] = "mark"
    /\ \/ dirtyFlag' = TRUE /\ UNCHANGED faults
       \/ ~dirtyFlag /\ Fault /\ UNCHANGED dirtyFlag
    /\ hpc' = [hpc EXCEPT ![h] = "send"]
    /\ UNCHANGED <<mainVars, cleanupVars, harg, cached, lastLogin, corrupt,
                   localMembers, envNoFault>>

\* The send on the unbuffered doClear meets the cleanup goroutine's select.
SendClear(h) ==
    /\ hpc[h] = "send"
    /\ gpc = "select"
    /\ gpc' = "clearCache"
    /\ hpc' = [hpc EXCEPT ![h] = "idle"]
    /\ UNCHANGED <<mainVars, snapshot, swept, quitClosed, stoppedClosed, harg,
                   diskVars, envVars>>

\* Mutant: a send on doClear without the time.After case.
SendTimeoutMissing(h) == hpc[h] = "send" /\ FALSE

\* time.After(10ms) fires while the cleanup goroutine is elsewhere: the
\* request is dropped.
SendTimeout(h) ==
    /\ hpc[h] = "send"
    /\ gpc # "select"
    /\ hpc' = [hpc EXCEPT ![h] = "idle"]
    /\ UNCHANGED <<mainVars, cleanupVars, harg, diskVars, envVars>>

-----------------------------------------------------------------------------
(* The environment: the clock, the disk, the processes of the host, and   *)
(* the daemon being killed or stopped and started again.                  *)

\* NewManager and cleanExpiredUserData take far less than a tick of the clock.
ClockTick ==
    /\ pc \notin {"open", "checkFlag", "cleanOnNew"}
    /\ gpc # "sweep"
    /\ now < MaxTime
    /\ now' = now + 1
    /\ UNCHANGED <<mainVars, cleanupVars, handlerVars, diskVars, active,
                   corruptions, restarts, faults>>

CorruptEntry ==
    /\ corruptions < MaxCorruptions
    /\ ~corrupt
    /\ corrupt' = TRUE
    /\ corruptions' = corruptions + 1
    /\ UNCHANGED <<mainVars, cleanupVars, handlerVars, cached, lastLogin,
                   dirtyFlag, localMembers, now, active, restarts, faults>>

ProcessesChange ==
    /\ \E s \in SUBSET Users : s # active /\ active' = s
    /\ UNCHANGED <<mainVars, cleanupVars, handlerVars, diskVars, now,
                   corruptions, restarts, faults>>

\* The daemon dies (or was stopped) and NewManager runs again; only the
\* disk survives.
Restart ==
    /\ restarts < MaxRestarts
    /\ restarts' = restarts + 1
    /\ pc' = "open"
    /\ attempt' = 0
    /\ cacheOpen' = FALSE
    /\ cutoff' = now - Expiration
    /\ gpc' = "none"
    /\ snapshot' = {}
    /\ swept' = {}
    /\ quitClosed' = FALSE
    /\ stoppedClosed' = FALSE
    /\ hpc' = [h \in Handlers |-> "idle"]
    /\ UNCHANGED <<harg, diskVars, now, active, corruptions, faults>>

-----------------------------------------------------------------------------
MainStep ==
    \/ OpenCache \/ OpenNeedsClearing \/ OpenFails \/ OpenLoopExhausted
    \/ StartupClear \/ StartupClearFails \/ StartupNoFlag \/ NilCachePanic
    \/ StartupSweep \/ StartupProcScanFails \/ StopEnd

CleanupStep ==
    \/ GSweep \/ GSweepGroups \/ GClearCache \/ GClearCacheFails
    \/ GClearFlag \/ GClearGroups \/ GQuit

HandlerStep(h) ==
    \/ LocalGroupsUpdate(h) \/ LocalGroupsUpdateFails(h) \/ RollbackDelete(h)
    \/ MarkCorrupted(h) \/ SendClear(h) \/ SendTimeout(h)

Next ==
    \/ MainStep
    \/ StopBegin
    \/ CleanupStep
    \/ GSweepStart
    \/ \E h \in Handlers :
         \/ RequestRead(h)
         \/ \E u \in Users : RequestUpdateUser(h, u)
         \/ HandlerStep(h)
    \/ ClockTick \/ CorruptEntry \/ ProcessesChange \/ Restart

\* Every goroutine that can run eventually does; requests, the timer, Stop,
\* the clock, the disk and restarts are the environment's choice.
Fairness ==
    /\ WF_vars(MainStep)
    /\ WF_vars(CleanupStep)
    /\ \A h \in Handlers : WF_vars(HandlerStep(h))

Spec == Init /\ [][Next]_vars

FairSpec == Spec /\ Fairness

-----------------------------------------------------------------------------
(* Properties.                                                            *)

\* Every variable ranges over the values the code can give it.
TypeOK ==
    /\ pc \in MainStates
    /\ attempt \in 0..2
    /\ cacheOpen \in BOOLEAN
    /\ cutoff \in Int
    /\ gpc \in CleanupStates
    /\ snapshot \in SUBSET Users
    /\ swept \in SUBSET Users
    /\ quitClosed \in BOOLEAN
    /\ stoppedClosed \in BOOLEAN
    /\ hpc \in [Handlers -> HandlerStates]
    /\ harg \in [Handlers -> Users]
    /\ now \in 0..MaxTime
    /\ cached \in SUBSET Users
    /\ lastLogin \in [Users -> 0..MaxTime]
    /\ corrupt \in BOOLEAN
    /\ dirtyFlag \in BOOLEAN
    /\ localMembers \in SUBSET Users
    /\ active \in SUBSET Users
    /\ corruptions \in 0..MaxCorruptions
    /\ restarts \in 0..MaxRestarts
    /\ faults \in 0..MaxFaults

\* A step of cleanExpiredUserData that ran CleanExpiredUsers on a healthy
\* database, at startup or from the cleanup goroutine, and the /proc snapshot
\* it used.
SweepStep ==
    \/ gpc = "sweep" /\ gpc' = "sweepGroups"
    \/ pc = "cleanOnNew" /\ pc' = "running" /\ ~corrupt /\ faults' = faults
SweptSnapshot == IF pc = "cleanOnNew" THEN active ELSE snapshot

\* The expiry sweep (cleanExpiredUserData / CleanExpiredUsers) never removes
\* a user who logged in less than Expiration ago, whenever the daemon was
\* started and however long it has been running.
SweepRespectsWindow ==
    [][SweepStep => \A u \in cached \ cached' : lastLogin[u] + Expiration < now]_vars

\* After an expiry sweep, no cached user that owns no process (in the /proc
\* snapshot the sweep used) has been idle for longer than Expiration: the
\* cutoff is "now - 6 months" at every sweep (spec 4.8).
ExpiredUsersSwept ==
    [][SweepStep =>
         \A u \in cached' : u \in SweptSnapshot \/ lastLogin[u] + Expiration >= now]_vars

\* While the daemon serves requests, the .corrupted marker on disk means that
\* the database really is corrupt (or that m.clear is about to remove the
\* marker it has just cleared): requestClearDatabase never leaves a marker
\* that makes the next start wipe a healthy cache.
MarkerMeansCorruption ==
    (dirtyFlag /\ pc \in {"running", "stopping", "stopped"})
        => corrupt \/ gpc = "clearFlag"

\* The localgroups.CleanUser calls of an expiry sweep never strip a user who
\* is in the database again when they run: a user who logged in while the
\* sweep was running keeps the local groups UpdateUser gave them (spec 4.4,
\* S5: only the users removed from the store leave the local groups).
SweepSparesCachedUsers ==
    [][gpc = "sweepGroups" /\ gpc' = "select"
         => \A u \in localMembers \ localMembers' : u \notin cached]_vars

\* The cleanup goroutine's m.clear wipes the database only while it is
\* corrupt or marked corrupt: a doClear request that reaches the goroutine
\* after an earlier clear has healed the database finds the system "already
\* in the desired end state" (spec 4.8) and wipes nothing.
ClearOnlyWhenNeeded ==
    [][gpc = "clearCache" /\ gpc' = "clearFlag" => corrupt \/ dirtyFlag]_vars

\* NewManager never dereferences a nil m.cache, whatever cache.New returns.
ManagerNeverPanics == pc # "panicked"

\* A request handler that calls requestClearDatabase (or any other step of
\* UpdateUser) always returns: the send on doClear cannot block forever,
\* even when the cleanup goroutine has exited.
HandlerRequestReturns ==
    \A h \in Handlers : hpc[h] # "idle" ~> hpc[h] = "idle"

\* Stop returns: the cleanup goroutine finishes what it is doing, takes the
\* closed quit channel and closes cleanupStopped, and the cache is closed.
StopTerminates == pc = "stopping" ~> pc # "stopping"

=============================================================================
