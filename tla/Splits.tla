------------------------------- MODULE Splits -------------------------------
(***************************************************************************)
(* The harness `splits' of standalone/tests/session_test.cpp: a text is    *)
(* run once fed whole and once fed in pieces, and must have the same       *)
(* effects both times.  The two runs are two sessions of one runtime.      *)
(***************************************************************************)
EXTENDS Session

VARIABLE whole  \* the effects of the session fed whole

SplitsInit == Init /\ whole = <<>>

\* The first session is fed everything at once.
FeedWhole == Open(Len(text), TRUE) /\ sessions = 0 /\ UNCHANGED whole
FeedPrefix == \E n \in 0..Len(text), final \in BOOLEAN :
                Open(n, final) /\ sessions > 0 /\ UNCHANGED whole
FeedMore == \E n \in 0..Len(unfed), final \in BOOLEAN : Feed(n, final) /\ UNCHANGED whole
Work == VM /\ whole' = IF live /\ ~live' /\ sessions = 1 THEN out ELSE whole

SplitsNext == FeedWhole \/ FeedPrefix \/ FeedMore \/ Work

SplitsSpec == SplitsInit /\ [][SplitsNext]_<<vars, whole>>

\* Wherever the text is cut, the same operands are evaluated and the same
\* tokens read, in the same order (feed, lex_available, NeedInput).
SplitIndependence == ~live /\ sessions = 2 => out = whole
=============================================================================
