--------------------------- MODULE MCAuthSessions ---------------------------
(* Instances of AuthSessions for TLC.                                       *)
EXTENDS AuthSessions, TLC

CONSTANTS t1, t2, c1, c2, u, v

TwoTabs == {t1, t2}
TwoCalls == {c1, c2}
TwoUsers == {u, v}

Budget(acts, calls, expiries, faults) ==
    [acts |-> acts, calls |-> calls, expiries |-> expiries, faults |-> faults]

\* Signing in, out and up; calls that meet an expiry; a network that fails.
FourBudgets ==
    {Budget(2, 0, 0, 0), Budget(1, 1, 1, 0), Budget(0, 2, 1, 0), Budget(0, 1, 1, 1)}

=============================================================================
