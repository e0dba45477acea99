------------------------ MODULE MCExecutionLifecycle ------------------------
EXTENDS ExecutionLifecycle, TLC

\* Two settings of the limits, so that a rebuild may keep or change them.
Narrow == [total |-> 1, perClient |-> 1]
Wide == [total |-> 2, perClient |-> 1]
MCLimits == {Narrow, Wide}
=============================================================================
