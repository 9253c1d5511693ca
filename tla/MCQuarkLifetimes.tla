-------------------------- MODULE MCQuarkLifetimes --------------------------
(* QuarkLifetimes for TLC with two propagators: inputs of a few quarks with *)
(* any parents, with and without CLOV_LEAN, and chains of quarks longer     *)
(* than the walk of get_eve.                                                *)
EXTENDS QuarkLifetimes

Clovers == [i \in Props |-> "clover"]
CloverAndKS == [i \in Props |-> IF i = 0 THEN "clover" ELSE "ks"]
IflaAndKS4  == [i \in Props |-> IF i = 0 THEN "ifla" ELSE "ks4"]

AllParents(n) ==
  {f \in [0 .. n - 1 -> UNION {Parents(j) : j \in 0 .. n - 1}] :
     \A j \in 0 .. n - 1 : f[j] \in Parents(j)}

\* a combination names two quarks: one of one quark does the same to memory
PairCombos(n) ==
  {f \in AllParents(n) : \A j \in DOMAIN f : f[j].type = "combo" => Len(f[j].of) = 2}

\* each quark from the one before it, the first from propagator i
Chain(n, i) ==
  [j \in 0 .. n - 1 |-> IF j = 0 THEN [type |-> "prop", of |-> <<i>>]
                        ELSE [type |-> "quark", of |-> <<j - 1>>]]

\* the order of a pair does not matter to memory
PairsOf(n) == {p \in (0 .. n - 1) \X (0 .. n - 1) : p[1] <= p[2]}

Plain(n) ==
  [lean |-> FALSE, prop_type |-> Clovers, num_qk |-> n, parents |-> AllParents(n),
   pairs |-> {<<>>} \cup {<<p>> : p \in PairsOf(n)}, saves |-> {"forget"}]
LeanOnes(n, types) ==
  [lean |-> TRUE, prop_type |-> types, num_qk |-> n, parents |-> PairCombos(n),
   pairs |-> UNION {[1 .. l -> PairsOf(n)] : l \in 0 .. 2},
   saves |-> {"forget", "propagator", "source"}]
Chains(n) ==
  [lean |-> FALSE, prop_type |-> Clovers, num_qk |-> n,
   parents |-> {Chain(n, i) : i \in Props}, pairs |-> {<<>>}, saves |-> {"forget"}]

MCBuilds == {Plain(4), LeanOnes(3, CloverAndKS), LeanOnes(2, IflaAndKS4),
             Chains(MAX_HISTORY + 2)}
=============================================================================
