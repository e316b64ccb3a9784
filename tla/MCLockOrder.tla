---------------------------- MODULE MCLockOrder ----------------------------
\* The sessions are alike, and so are the logic threads: every operation may be
\* for each of them, and the properties single none of them out.
EXTENDS LockOrder, TLC

Alike == Permutations(Session) \cup Permutations(LogicThread)
=============================================================================
