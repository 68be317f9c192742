--------------------------- MODULE MCDeadLetters ---------------------------
EXTENDS DeadLetters, TLC

CONSTANTS m1, m2, r1, r2, i1, i2

\* What listeners may do.
OkErr == [m \in Messages |-> {"ok", "err"}]
Anything == [m \in Messages |-> {"ok", "err", "panic"}]
Panics == [m \in Messages |-> {"panic"}]
Errs == [m \in Messages |-> {"err"}]

\* Who listens: everyone, or one of two instances, as while a new version is rolled out.
Everyone == Instances \X Messages
OnlyFirst == {i1} \X Messages

\* No row is told apart by its id, nor an instance where everyone listens and none closes.
Alike == Permutations(Rows) \cup Permutations(Instances)
=============================================================================
