# TLA+ models of authd's user manager, identity store and PAM module

This directory holds TLA+ specifications of the concurrent parts of authd,
the TLC configurations that model-check them, and TLAPS proofs about the user
manager, the GDM adapter and the PAM client. Every definition is translated
from the Go sources under `src/`.
`PROJECT.json` maps each definition to the lines it models. Parts whose code is
not under `src/` are modelled from `spec.md` and marked `spec_modelled` there.

## The system and its parts

authd is a daemon that resolves and authenticates users on behalf of remote
identity brokers. PAM and NSS clients reach it over an RPC socket. The parts
named by `spec.md`, and where their code is:

| Part | Code under src/ | Modelled by |
|---|---|---|
| Identity store (C1): the bbolt user cache | `pam/return.go` 76-145 (the read path: `getUser`, `AllUsers`) | `UserManager`, abstracted |
| ID generator (C2) | `internal/users/manager.go` 417-436 (`GenerateID`) | not modelled: a pure hash chain, see below |
| Temporary entries (C3), broker registry (C5), RPC surface (C7) | none | not modelled |
| Local-groups shim (C4) | none; called from manager.go | `UserManager`, from spec 4.4 |
| Session manager (C6) | none | its contract constrains the parent in `GdmModel` |
| Cleanup loop (C8) and user manager | `internal/users/manager.go` | `UserManager` |
| GDM adapter of the PAM module | `pam/internal/adapter/gdmmodel.go` | `GdmModel` |
| PAM client commands and return signals | `unnamed/part_001`, `pam/return.go` 5-47 | `PamClient` |
| authctl, CI, changelog, test helpers | `cmd/authctl`, `.github`, `unnamed/part_000` | not modelled: no state (authctl is one RPC per command) |

### How the parts interact

**The user manager.** It owns the cache and is used concurrently by three
kinds of goroutine:

* **The main goroutine.** It runs `NewManager`, and later `Stop`.
  * `NewManager` opens the cache. `cache.New` is tried at most twice. When it
    reports `ErrNeedsClearing`, the database file is removed and the local
    groups are cleaned before the retry.
  * It then clears the database if the `.corrupted` marker exists, runs one
    expiry sweep, and starts the cleanup goroutine.
* **The cleanup goroutine.** Its `select` waits on three things:
  * the expiry timer, which triggers `cleanExpiredUserData`;
  * the unbuffered `doClear` channel, which triggers `clear`;
  * the `quit` channel, which makes it close `cleanupStopped` and return.
* **Request handlers.** These are the gRPC services calling `UpdateUser`,
  `UserByName`, `AllUsers` and the rest.
  * A cache error wrapping `ErrNeedsClearing` goes through `shouldClearDb`.
  * `shouldClearDb` calls `requestClearDatabase`: it writes the marker, then
    tries to send on `doClear` for at most 10 ms.

**The GDM adapter.** It is a bubbletea model inside the PAM module:

* `Update` handles one message at a time.
* The commands it returns run concurrently and feed their messages back in any
  order.
* It polls GDM for the login screen's events, and forwards the user's answer
  to the parent model. The parent calls `IsAuthenticated` on the session
  manager.
* The broker's verdict comes back as a message and is emitted to GDM.
* When the PAM module is about to return, `stopConversations` sets the point
  after which nothing may talk to GDM.

**The PAM client commands.** The same bubbletea model starts a broker session
(`startBrokerSession`), fetches the layout of an authentication mode
(`getLayout`) and, on every PAM return signal, calls `m.quit()`. That returns
`tea.Quit`, or, when a session is current, `tea.Sequence(endSession, tea.Quit)`.

## Modules

| Module | What it is |
|---|---|
| `UserManager.tla` | The user manager, the cleanup goroutine, the handlers, the disk and the environment. |
| `MCUserManager.tla` | Model values and small sets of handlers and users for TLC, plus a symmetry set. |
| `UserManagerProofs.tla` | TLAPS proofs about `UserManager`. |
| `GdmModel.tla` | The GDM adapter, with the parent model, GDM's user and the broker as environment. |
| `MCGdmModel.tla` | TLC entry point for `GdmModel`. |
| `GdmModelProofs.tla` | TLAPS proofs about `GdmModel`. |
| `PamClientProofs.tla` | TLAPS proofs about `PamClient`. |
| `PamClient.tla` | The PAM client commands, the return signals and the part of `Update` that reacts to them. |
| `MCPamClient.tla` | TLC entry point for `PamClient`: two session IDs, locale names `C` and `fr_FR`. |

### UserManager: state and actions

**State.** The code's state maps to variables as follows:

* The main goroutine:
  * `pc` is where `NewManager` or `Stop` is.
  * `attempt` is the iteration of the `cache.New` loop.
  * `cacheOpen` says whether `m.cache` is set.
  * `cutoff` is `opts.expirationDate`.
* The cleanup goroutine:
  * `gpc` is where it is.
  * `snapshot` is the /proc scan of the current sweep.
  * `swept` holds the users removed but not yet `CleanUser`'d.
  * `quitClosed` and `stoppedClosed` stand for the two channels.
* The handlers: `hpc` is each handler's step and `harg` is its `UpdateUser`
  argument.
* The persisted state, which survives `Restart`:
  * `cached` is the set of users in the database.
  * `lastLogin` is each user's last login time.
  * `corrupt` says whether some entry fails to decode.
  * `dirtyFlag` is the `.corrupted` file.
  * `localMembers` holds the users in local groups.
* The environment: the clock `now`, the owners of running processes `active`,
  and counters bounding corruptions, restarts and I/O faults.

The database's contents are abstracted. A read that decodes is a stutter,
because it changes nothing. A read on a corrupt database is `RequestRead`,
which is where `ErrNeedsClearing` comes from (`getUser` and `AllUsers` in
`pam/return.go`).

**Actions.** Each action is a whole step of the code, with its guards and error
paths:

* **NewManager:**
  * `OpenCache`, `OpenNeedsClearing` (the `continue` branch), `OpenFails`
    (another `cache.New` error, or a failing `RemoveDb`), and
    `OpenLoopExhausted` (both iterations asked for clearing).
  * `StartupClear` and `StartupClearFails` (`clear` on a marked database; a
    failing `cache.Clear` or `localgroups.Clean` fails `NewManager`), and
    `StartupNoFlag`.
  * `NilCachePanic` (`clear` or `cleanExpiredUserData` with `m.cache` nil).
  * `StartupSweep` and `StartupProcScanFails`.
* **Stop:** `StopBegin` (close `quit`) and `StopEnd` (`cleanupStopped`
  received, cache closed).
* **Cleanup goroutine:**
  * `GSweepStart` (timer fired, /proc read), then `GSweep`
    (`CleanExpiredUsers`), then `GSweepGroups` (`CleanUser` for each removed
    user; a failure is only logged).
  * `GClearCache` or `GClearCacheFails`, then `GClearFlag`, then
    `GClearGroups`.
  * `GQuit`.
* **Handlers:**
  * `RequestRead`, `RequestUpdateUser`, then `LocalGroupsUpdate` or
    `LocalGroupsUpdateFails`, then `RollbackDelete`.
  * `MarkCorrupted`, then `SendClear` (the send meets the goroutine's
    `select`) or `SendTimeout` (the 10 ms `time.After`).
* **Environment:** `ClockTick`, `CorruptEntry`, `ProcessesChange`, and
  `Restart` (the daemon is restarted; only the disk survives, and `cutoff` is
  recomputed).

**Abstractions.**

* A step of the code that blocks on no other goroutine is one action.
* A file-system or /proc failure is a `Fault`. `MaxFaults` bounds the total
  number of faults.
* The cleanup goroutine's /proc read failing is a stutter, because nothing
  changes.
* `CleanExpiredUsers`, `localgroups.Clean` and `localgroups.Update` are not
  under `src/`. They are modelled from spec 4.1 and 4.4:
  `ExpiredUsers` is "last login before the cutoff and owns no running
  process", and `CleanLocalGroups` intersects the local members with the
  cached users.
* `ClockTick` does not fire while `NewManager` runs or while a sweep is
  between its /proc read and `CleanExpiredUsers`. Those take far less than the
  model's clock tick (a fraction of the expiration).

### GdmModel: state and actions

**State.**

* `waitingAuth` is `m.waitingAuth`, and `stopped` is `m.conversationsStopped`.
* `gdmQueue` holds the events GDM will return on the next poll.
* `inbox` counts the messages waiting for `Update`, by kind. It is a
  multiset, because the commands of a `tea.Batch` deliver in any order.
* `verdicts` counts the pending `isAuthenticatedResultReceived` messages.
* `asyncEmits` counts the `emitEvent` or `requestUICapabilities` commands
  created but not yet run.
* `inFlight` counts the parent's pending `IsAuthenticated` calls.
* Three history variables serve the properties: `forwarded`, `cancelsSent`
  and `lateTalk`.

**The poll.** `pollGdm`'s loop over the poll results runs one event per step,
inside one call of `Update`:

* `PollGdm` is a successful `gdm.SendPoll`: `polling` becomes true,
  `pollRest` takes the events and `pollSt` records the loop's `waitingAuth`
  and the messages it has batched. `PollFails` is a failed `SendPoll`.
* `PollStep` is one iteration; `PollEvent` is its `switch`.
* `PollReturn` is the `return`: at the end of the results, or on a malformed
  event, which makes `pollGdm` return a lone `pamError` and ends polling.
  `PollOutput` is the batch it delivers.
* While `polling` holds, `Update` is busy: every other handler, and the parent
  model that shares the bubbletea program, is guarded by `~polling`.

The loop is stepwise rather than a fold so that every step is an action the
provers can reason about.

**Actions.**

* `Start` is `Init`.
* `HandlePollDone`, `HandleStartAuth`, `HandleUserSelected`,
  `HandleCancelled`, `HandleVerdict` and `HandleVerdictBadMsg` are the cases of
  `Update`.
* `DropMsg` is `Update` after the quit point.
* `RunAsyncEmit` is a command closure running.
* `StopConversations` models `stopConversations`.
* The environment: GDM's user (`GdmUserEvent`), the parent model
  (`ParentStartAuth`, `ParentAuthenticate`, `ParentPamError`) and the broker
  (`BrokerReply`).

**Assumptions about the parent and about Go.**

* `ParentStartAuth` starts a new challenge only when the previous one is over.
  This is spec 4.6's single pending authentication, which the session manager
  enforces. The parent model is not under `src/`.
* The model delivers `Init`'s poll results without waiting for
  `requestUICapabilities`. This over-approximates `tea.Sequence`.
* Go leaves unspecified whether `return m, tea.Sequence(..., m.pollGdm())`
  reads `m` before or after `pollGdm` mutates it. The model follows gc, which
  evaluates the call first.

### PamClient: state and actions

**State.**

* `env`: the values of `LANG`, `LC_MESSAGES` and `LC_ALL`, each unset or a
  locale name with a codeset suffix (none, `.UTF-8`, `.utf8`).
* `cmds` and `inbox`: bags of running commands and of messages waiting for
  `Update`. Bags, since the runtime gives no order between goroutines.
* `current`: `m.currentSession`. `daemon`: the sessions the daemon holds open
  for this client. `used`: the IDs handed out.
* `langSent`, `quitCalled`, `exited`, and `requests`, the bound on the user.

**Actions.**

* `StartLocal`, `StartRemote`: `startBrokerSession`. The remote case computes
  the lang with `SessionLang`: the loop's three iterations over `LangVars`
  (`LangStep`, each written out, so the provers can unfold them), then
  `TrimUTF8`. Its outcomes: an RPC error, an opened session, or an
  opened session whose answer lacks the key.
* `GetLayout`: an error, an empty layout (both `pamSystemError`) or a layout.
* `EndSession`: the first half of the sequence. The RPC may fail; either way
  `tea.Quit` is queued after it.
* `RunQuit`: `tea.Quit` ends the program.
* `Handle`: a return signal calls `Quit` (`m.quit()`), and `SessionStarted`
  sets the current session.
* `UserAction`: the environment. It starts a broker, asks for a layout,
  quits, or grants access.

## Runs

Every run is `tlc -workers 2 -config <cfg> <MC module>`.

| Run | cfg | Expect | Properties | What it shows |
|---|---|---|---|---|
| um_safety | UserManagerSafety.cfg | pass | TypeOK, SweepRespectsWindow | No sweep ever removes a user who logged in within the expiration window. This holds for every interleaving of startup, the goroutine, two handlers, corruption, I/O faults and a restart. |
| um_liveness | UserManagerLiveness.cfg | pass | HandlerRequestReturns, StopTerminates | A handler asking for a clear always returns, and Stop always returns. |
| expiry_cutoff | ExpiryCutoff.cfg | violation | ExpiredUsersSwept | A periodic sweep keeps a user idle for longer than the expiration. |
| dangling_marker | DanglingMarker.cfg | violation | MarkerMeansCorruption | A late handler re-marks a database that a concurrent clear has just healed. |
| nil_cache | NilCache.cfg | violation | ManagerNeverPanics | Two `ErrNeedsClearing` results from `cache.New` leave `m.cache` nil. |
| gdm_safety | GdmSafety.cfg | pass | TypeOK, SingleForwardPerStart | The answer is forwarded at most once per challenge, and one poll loop runs. |
| gdm_duplicate_cancel | DuplicateCancel.cfg | violation | CancelReportedOnce | Two cancel events in one poll give two Cancelled AuthEvents. |
| gdm_late_conversation | LateConversation.cfg | violation | NoConversationAfterStop | A command created before the quit point talks to GDM after it. |
| sweep_relogin | SweepRelogin.cfg | violation | SweepSparesCachedUsers | A user who logs in again between the cache sweep and the local-groups cleanup loses their local groups while cached. |
| redundant_clear | RedundantClear.cfg | violation | ClearOnlyWhenNeeded | A second queued clear request wipes a database the first clear already healed. |
| pam_client | PamClient.cfg | pass | TypeOK, QuitExits | Once `m.quit()` is called the PAM model exits, whatever EndSession returns and in whatever order the commands finish. |
| pam_lang_order | PamLangOrder.cfg | violation | LangAsSpecified | With two locale variables set, the last one wins, not the first. |

**Bounds.**

* **um_safety** uses 2 handlers, 1 user, clock 2..4 with expiration 1,
  1 corruption, 1 restart and 1 I/O fault.
  * The clock covers a user whose last login is before, at and after each
    cutoff.
  * The restart moves the cutoff.
  * Two handlers give the concurrent mark and clear interleavings.
  * Handler symmetry is sound: no property names a handler.
  * It has 1.1 million distinct states.
* **um_liveness** uses 1 handler and no symmetry.
* **The violation runs** set `MaxFaults = 0`. This shows that each finding
  needs no I/O fault.
* **pam_client** uses 2 session IDs, every environment over 2 locale names and
  3 codesets (343 initial states), and 3 user actions: enough for a second
  broker start after a failed first, a layout request, and a quit racing a
  running command. It has 283,000 distinct states.
* **GDM** uses a poll queue of 2, 3 user events and 2 challenges. That is
  enough for two events of the same poll and a second challenge.

**Findings.** The violation runs are real disagreements between the code and
what the spec or a comment says. `PROJECT.json` gives the source line of each
and what it shows:

* **expiry_cutoff.** The cutoff is computed once in `NewManager`
  (manager.go:67). Spec 4.8 asks for "now − 6 months" at each sweep.
* **dangling_marker.** The TODO at manager.go:285-286 names this. A marker
  left on a healthy database makes the next start wipe it.
* **nil_cache.** This is a nil dereference if `cache.New` fails twice.
* **gdm_duplicate_cancel.** It contradicts spec 4.6: consecutive cancellations
  must not cascade.
* **gdm_late_conversation.** It contradicts the comment at gdmmodel.go:27-35.
* **sweep_relogin.** `cleanExpiredUserData` strips the swept users from the
  local groups (manager.go:369) after the cache transaction, with no lock
  against `UpdateUser`. Spec 4.4/S5 takes local groups only from expired users.
* **redundant_clear.** Every handler that meets corruption queues a clear, and
  the goroutine serves each one without re-checking the marker
  (manager.go:292, 303). Spec 4.8 says a clear is skipped when the database is
  already in the desired end state.
* **pam_lang_order.** The loop at part_001:30-35 lets the last non-empty of
  `LANG`, `LC_MESSAGES`, `LC_ALL` win. Spec §6 says the first non-empty wins.

**Deadlock checking.** It is off in every cfg. `Stop`, a failed `NewManager`
and a returned PAM module really end the system.

## Fairness

`FairSpec` has weak fairness on three kinds of step:

* the main goroutine's steps (`MainStep`);
* the cleanup goroutine's steps (`CleanupStep`);
* each handler's continuation steps (`HandlerStep(h)`).

Each of these steps is a goroutine that is runnable and blocks on nothing else
(a disk operation, the 10 ms timer), so the Go scheduler eventually runs it.
Four things get no fairness, because they are the environment's choice:
starting a request, `StopBegin`, the expiry timer (`GSweepStart`), and the
clock, the disk and restarts.

In `PamClient`, `Fairness` is weak fairness on running a command and on
handling a queued message. The bubbletea runtime runs every returned command
in a goroutine and delivers every message to `Update`. The user and the broker
get none.

## Proofs (UserManagerProofs.tla)

TLAPS checks these for every value of the constants satisfying
`ManagerAssumption`: at least one handler and one user, a positive expiration,
naturals for the bounds.

* **`TypeCorrect`** proves `Spec => []TypeOK`.
  * `TypeInit` and `TypeStep` carry it. `TypeStep` has one step per action.
  * The actions that can fault first establish the bound on `faults'`.
* **`WindowRespected`** proves `Spec => SweepRespectsWindow`. It rests on
  three lemmas:
  * **`CutoffInvariant`** proves `Spec => []IInv`, where
    `IInv == TypeOK /\ cutoff + Expiration <= now`.
    * `SweepRespectsWindow` is an action property and cannot be inductive by
      itself. What it needs is the relation between the stored cutoff and the
      clock.
    * The clock only grows. `NewManager` and `Restart` set
      `cutoff = now - Expiration`, and no other step touches either variable.
    * TLC checked `IInv` as an invariant of the um_safety instance first.
  * **`SweepStepSafe`** says that a step satisfying `SweepStep` removes only
    users with `lastLogin < cutoff`, and hence `lastLogin + Expiration < now`.
  * The last step is temporal: `PTL` over `[]IInv` and `[][Next]_vars`.

## Proofs (GdmModelProofs.tla)

TLAPS checks these for every value of `MaxQueue`, `MaxEvents` and
`MaxRounds` (`GdmAssumption`: a positive queue bound, naturals for the others).

* **`GdmInvariant`** proves `Spec => []IInv`. `IInv` is `TypeOK` and five
  strengthenings, each needed because a step would otherwise break a later
  one:
  * `NoLoopBeforeInit`: before `Init` runs there is no `gdmPollDone` and no
    loop. Without it `Start` could add a second loop.
  * `OnePollLoop`: the pending `gdmPollDone` messages plus the running loop
    number at most one. `HandlePollDone` starts a loop only by consuming the
    one `gdmPollDone`, and `PollReturn` puts it back.
  * `LoopOutputs`: a running loop has batched no `gdmPollDone` and no
    `startAuthentication` yet (`PollEvent` adds neither; the `gdmPollDone` is
    added by `PollOutput` at the return).
  * `OneAuthToken`: a challenge's authentication is held in exactly one place:
    a `startAuthentication` in the inbox, `waitingAuth` (or the loop's copy of
    it), an `isAuthenticatedRequested` batched by the loop or in the inbox, or
    the parent's call in flight. Their sum is at most one.
  * `ForwardBudget`: `forwarded`, plus the token still waiting or batched, is at
    most one, so forwarding consumes the token.
  * `Waiting` and `Pending` name where the token is while the loop runs;
    `IInvStep` has one case per action and, under it, one step per conjunct.
  * TLC checked `IInv` as an invariant of the gdm_safety instance first
    (116,222 distinct states).
* **`GdmTypeCorrect`** proves `Spec => []TypeOK`, from `GdmInvariant`.
* **`ForwardOnce`** proves `Spec => []SingleForwardPerStart`: from
  `OneAuthToken` and `ForwardBudget`, both counts of `SingleForwardPerStart`
  are at most one.

## Proofs (PamClientProofs.tla)

TLAPS checks these for every value of the constants satisfying
`PamClientAssumption` (some session ID, `"C"` a locale name, a natural bound).

* Lemmas about the bag operators (`BagAddOf`, `BagRemoveOf`, `BagUnionOf`,
  `SetToBagOf`, `BagOfMono`): each keeps a bag of elements of a set `S` a
  bag of `S`. The runtime's command and message queues are such bags.
* `SessionLangType`: whatever the environment, the lang `startBrokerSession`
  sends is a locale. It unfolds the three `LangStep`s and `TrimUTF8`.
* **`PamInvariant`** proves `Spec => []IInv`. `TypeOK` alone is not
  inductive: `getLayout` answers with its argument as the layout's session
  and `endSession` with its argument as the ended session, so `IInv` adds
  `CmdArgs`: those two commands carry a session ID, never a broker name or
  `NoSession`. `QuitCmdsOf` shows `m.quit()` starts only such commands.
  `IInvStep` has one step per action and, under `Handle` and `UserAction`,
  one per disjunct. TLC checked `IInv` on the pam_client instance first
  (282,975 distinct states).
* **`PamTypeCorrect`** proves `Spec => []TypeOK` from it.

**Left to TLC:**

* the liveness properties (`HandlerRequestReturns`, `StopTerminates`,
  `QuitExits`), since TLAPS's provers do not reach `ENABLED` and fairness;
* the violation runs, which are counterexamples and need no proof;
* anything about a recursive definition or a library fold for every input,
  which needs induction over data that the installed provers cannot do. The
  proved modules therefore use none: the GDM poll loop is an action per
  event, and the lang loop is written out over its three variables.

## Not modelled, and why

* The ID generator. `GenerateID` (manager.go 417-436) has no caller under
  `src/`, and its only state is a SHA-256 chain. Its range follows from the
  loop guard and the modulo. Its termination is a property of SHA-256, which
  a model over an abstract hash could only assume. The collision retry of
  spec 4.2 lives in callers outside `src/`.
* The rest of the PAM model's `Update` (model.go is not in this repository).
  `PamClient` stands in for it with an environment that starts brokers, asks
  for layouts, quits and grants access.
* One PAM client hazard has no property: the `quit()` racing a running
  `startBrokerSession`.
  Its `quit()` leaves a session open on the daemon. Spec 4.6 has the daemon destroy it
  when the client disconnects, so no property about the client alone would be
  true to the spec.
* Local groups after a restart or a failed rollback. The spec says nothing of
  them there, and the next login rewrites them; only the sweep race has a property
  (`SweepSparesCachedUsers`). The mirror race, where a login's
  `localgroups.Update` (manager.go:159) lands after a clear wiped the store
  and ran `localgroups.Clean`, is reachable in the model through the same
  missing lock; sweep_relogin already shows that lock missing.
* More invariants proved: the cleanup goroutine's control state against the
  channels.
