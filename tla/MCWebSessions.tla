--------------------------- MODULE MCWebSessions ---------------------------
(***************************************************************************)
(* Small instances of WebSessions.                                         *)
(***************************************************************************)
EXTENDS WebSessions, TLC

\* all of them are interchangeable
SessionSymmetry == Permutations(Links) \cup Permutations(Logins)
                   \cup Permutations(Browsers) \cup Permutations(Endpoints)

\* at most two requests are under way, which is enough for one to overtake
\* another
FewPosts == Cardinality(posts') <= 2

=============================================================================
