------------------------ MODULE MC_DiscoverySessions ------------------------
(* Instantiation of DiscoverySessions for TLC.  Each .cfg picks one of the *)
(* environments below.                                                     *)
EXTENDS DiscoverySessions, TLC

CONSTANTS d1, s1, s2, s3

MCDaemons     == {d1}
MCSessions3   == {s1, s2, s3}
MCSessions2   == {s1, s2}
MCSessions1   == {s1}

\* Cancels of sessions start_session has returned (the UI learns the id from
\* the response or the broadcast after the push) ...
CancelAfterStart == {"done"}
\* ... also of sessions still inside start_session, listed by get_active_sessions.
CancelAnytime    == {"inserted", "checked", "done"}
NoCancels        == {}

\* Discovery types of the started sessions: network scans only, or also
\* the daemon's self-report (both are started through start_session).
NetworkOnly      == {"Network"}
AllTypes         == {"Network", "SelfReport"}

SessionSymmetry == Permutations(MCSessions3)
=============================================================================
