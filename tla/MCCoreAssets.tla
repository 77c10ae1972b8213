---------------------------- MODULE MCCoreAssets -----------------------------
EXTENDS CoreAssets, TLC
CONSTANTS a1, a2, a3, a4, f, g, h, x, y, bad, empty, big
MCSizeOf == (x :> 1) @@ (y :> 1) @@ (bad :> 1) @@ (empty :> 0) @@ (big :> 2)
MCFileOf == (a1 :> f) @@ (a2 :> g) @@ (a3 :> f) @@ (a4 :> h)
MCBodyOf == (a1 :> x) @@ (a2 :> empty) @@ (a3 :> y) @@ (a4 :> empty)
MCLists == {<<>>, <<a1, a2, a3, a4>>}
=============================================================================
