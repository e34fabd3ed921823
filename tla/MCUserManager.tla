--------------------------- MODULE MCUserManager ---------------------------
(* Instances of UserManager for TLC.                                       *)
EXTENDS UserManager, TLC

CONSTANTS h1, h2, u1, u2

\* Two handlers are enough for two requests to race on one corruption.
TwoHandlers == {h1, h2}
OneHandler == {h1}
\* One user carries the expiry questions; two also let sweeps and logins
\* of different users interleave.
OneUser == {u1}
TwoUsers == {u1, u2}

\* Handlers are interchangeable goroutines, users only differ by their data.
HandlerSymmetry == Permutations(TwoHandlers)
FullSymmetry == Permutations(TwoHandlers) \cup Permutations(TwoUsers)

=============================================================================
