-------------------- MODULE MCOverlayNeighborhoodDiscovery --------------------
EXTENDS OverlayNeighborhoodDiscovery, TLC

CONSTANTS x,     \* a contact
          u, v,  \* neighbours
          xu, xv, \* paths to x over u and over v
          lossy  \* a link of xu

MCDest      == xu :> x @@ xv :> x
MCFirstHop  == xu :> u @@ xv :> v
MCLinksOf   == xu :> {lossy} @@ xv :> {}
MCRank      == xu :> 1 @@ xv :> 2
MCDistance  == x :> 1 @@ u :> 2 @@ v :> 3
===============================================================================
