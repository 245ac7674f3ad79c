------------------------------ MODULE Playlists ------------------------------
(***************************************************************************)
(* What the two kinds of publications have in common: neither writes late. *)
(***************************************************************************)
EXTENDS PlaylistPublication, YoutubePlaylist

\* No write by a publication that a newer one has overtaken, and none to a playlist that was
\* archived since (the guards before every request to the providers).
NoLateWrite == NoStaleWrite /\ ArchiveKept
=============================================================================
