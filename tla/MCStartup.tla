----------------------------- MODULE MCStartup -----------------------------
(* Starts of servers with three services, of which NeighbourhoodService    *)
(* has a field for EntityService.                                          *)
EXTENDS Startup, TLC

CONSTANTS s1, s2, s3, hood, store, view

Needs(s, v) == (hood :> {store}) @@ (store :> s) @@ (view :> v)

\* In a row; as a tree; two that need each other; and all three in a circle.
SomeGraphs == {Needs({}, {hood, store}), Needs({}, {store}), Needs({view}, {store}), Needs({view}, {hood})}
=============================================================================
