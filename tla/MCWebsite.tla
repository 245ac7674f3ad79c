----------------------------- MODULE MCWebsite -----------------------------
(***************************************************************************)
(* The instance that TLC checks of what a visitor's browsers share with    *)
(* the server: the catalogue for use without a connection (OfflineCatalog), *)
(* the synchronised planner (PlannerSync) and the accounts (Accounts).     *)
(* They share no variable: a behaviour here is a behaviour of one of them, *)
(* "part" says of which, and the others stay as they began.                *)
(***************************************************************************)
EXTENDS PlannerSync, OfflineCatalog, Accounts, TLC

CONSTANTS c1, c2, d1, d2, ada, bob, t1, t2, t3, b1, b2

VARIABLE part

MCOrder == <<"collections", "saved-filters", "plans">>

\* Two tabs of one browser and one of another.
MCBrowserOf == t1 :> b1 @@ t2 :> b1 @@ t3 :> b2

PartsInit ==
    /\ part \in {"catalog", "planner", "account"}
    /\ Init /\ CatalogInit /\ AccountsInit
    /\ part # "catalog" => catalog = None

PartsNext ==
    \/ part = "catalog" /\ CatalogNext /\ UNCHANGED <<part, vars, accountsVars>>
    \/ part = "planner" /\ Next /\ UNCHANGED <<part, catalogVars, accountsVars>>
    \/ part = "account" /\ AccountsNext /\ UNCHANGED <<part, vars, catalogVars>>

PartsSpec == PartsInit /\ [][PartsNext]_<<part, vars, catalogVars, accountsVars>>

\* The two calls, devices, addresses and tabs of a browser change places together: each
\* part has one of these pairs or two, and the other parts stay as they began.
Pairs == {{c1, c2}, {d1, d2}, {ada, bob}, {t1, t2}}
Symmetry ==
    {p \in Permutations(UNION Pairs) :
        \/ \A v \in UNION Pairs : p[v] = v
        \/ \A pair \in Pairs, v \in UNION Pairs : v \in pair => p[v] \in pair \ {v}}
=============================================================================
