--------------------------- MODULE MCPlaylistQueue ---------------------------
\* The instance of PlaylistQueue that TLC checks: two jobs of one festival.
EXTENDS PlaylistQueue, TLC

CONSTANTS f1, j1, j2, s1, s2, o1

MCFestivalOf == j1 :> f1 @@ j2 :> f1
=============================================================================
