--------------------------- MODULE MC_AuthService ---------------------------
(* Instantiation of AuthService for TLC.                                   *)
EXTENDS AuthService, TLC

CONSTANTS c1, c2, e1, e2, p1, p2

MCClients1 == {c1}
MCClients2 == {c1, c2}
MCEmails   == {e1, e2}
MCEmails1  == {e1}
MCPasswords == {p1, p2}

\* Clients are interchangeable, and so are the passwords they choose from.
ClientSymmetry == Permutations(MCClients2) \cup Permutations(MCPasswords)
=============================================================================
