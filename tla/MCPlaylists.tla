---------------------------- MODULE MCPlaylists ----------------------------
(***************************************************************************)
(* The instance of the playlist modules that TLC checks: the Spotify       *)
(* publications (PlaylistPublication), the YouTube ones (YoutubePlaylist)  *)
(* and the legacy dispatch with its cutover (PlaylistCutover).  They share *)
(* no variable and what they have in common is the queue, which is         *)
(* PlaylistQueue's: a behaviour here is a behaviour of one of them, "part" *)
(* says of which, and the others stay as they began.                       *)
(***************************************************************************)
EXTENDS Playlists, PlaylistCutover, TLC

CONSTANTS e1, e2, p0, p1,                       \* Spotify: two editions, two playlists
    f1, f2                                          \* cutover: two festivals

\* Two publications of one edition without a playlist; or the second is about another
\* edition, which has its playlist.
MCPasts ==
    { [edition |-> 1 :> e1 @@ 2 :> e1, bound |-> e1 :> None @@ e2 :> None],
      [edition |-> 1 :> e1 @@ 2 :> e2, bound |-> e1 :> None @@ e2 :> p0] }

VARIABLE part

\* Two festivals, the first with two publications, the second without an eligible act.
MCFestivalOf == 1 :> f1 @@ 2 :> f1 @@ 3 :> f2

ASSUME YoutubeAssumption /\ CutoverAssumption

PartsInit ==
    /\ part \in {"spotify", "youtube", "cutover"}
    /\ Init /\ YoutubeInit /\ CutoverInit
    /\ part # "spotify" => past = CHOOSE p \in Pasts : TRUE
    /\ part # "youtube" => provider[Legacy] = Nothing

PartsNext ==
    \/ part = "spotify" /\ Next /\ UNCHANGED <<part, youtubeVars, cutoverVars>>
    \/ part = "youtube" /\ YoutubeNext /\ UNCHANGED <<part, vars, cutoverVars>>
    \/ part = "cutover" /\ CutoverNext /\ UNCHANGED <<part, vars, youtubeVars>>

PartsSpec == PartsInit /\ [][PartsNext]_<<part, vars, youtubeVars, cutoverVars>>

=============================================================================
