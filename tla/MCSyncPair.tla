----------------------------- MODULE MCSyncPair -----------------------------
(* Two invocations of the CLI, of every kind, over every leftover lock.    *)
EXTENDS SyncSession

CONSTANTS p1, p2
TwoProcs == {p1, p2}

\* Nobody breaks the lock, or one invocation does ({p1} is {p2} with the names
\* exchanged).
SomeBreak == {{}, {p2}}
=============================================================================
