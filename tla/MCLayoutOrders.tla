---------------------------- MODULE MCLayoutOrders -----------------------------
(* LayoutPrime and LayoutOrders on small lattices, with the table of       *)
(* primes of the code.                                                     *)
EXTENDS LayoutOrders

MCPrime == <<2, 3, 5, 7, 11, 13, 17, 19, 23, 29, 31, 37, 41, 43, 47, 53>>

(* Equal and unequal dimensions, some of them odd, so that boxes with an   *)
(* odd number of sites come up (6 x 6 x 6 x 2 on sixteen nodes, 3 x 3 x 6  *)
(* x 2 on four), and boxes with a multiple of 32 sites, as the layout by   *)
(* colors wants them.                                                      *)
MCLattices ==
  {Vector(4, 4, 2, 2), Vector(2, 2, 4, 6), Vector(6, 6, 6, 2),
   Vector(3, 3, 6, 2), Vector(10, 2, 3, 2), Vector(8, 8, 2, 2),
   Vector(6, 2, 2, 4), Vector(6, 4, 4, 2)}
MCMachineSizes == {1, 2, 3, 4, 6, 8, 9, 10, 12, 16, 24, 27, 30}
MCGeometries == {Vector(2, 1, 1, 2), Vector(1, 3, 2, 1), Vector(3, 1, 2, 2),
                 Vector(1, 2, 1, 1)}
MCIoGeometries == {Vector(1, 1, 1, 2), Vector(1, 1, 2, 1), Vector(1, 3, 1, 1)}
=============================================================================
