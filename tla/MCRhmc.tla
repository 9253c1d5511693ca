------------------------------- MODULE MCRhmc -------------------------------
(***************************************************************************)
(* Instances of the RHMC program for TLC: files of rational functions with *)
(* two or three pseudofermion fields and small input sets.                *)
(***************************************************************************)
EXTENDS Rhmc

P(eps, md, fa, gr) == [eps |-> eps, MD |-> md, FA |-> fa, GR |-> gr]

\* two light fields, alone or with a charm field that has its own epsilon, last
\* or between them, and a first field with an epsilon, which HISQ refuses
Fields2And3 ==
  {<<P(0, 2, 3, 3), P(0, 4, 5, 4)>>,
   <<P(0, 2, 3, 3), P(0, 4, 5, 4), P(1, 3, 3, 3)>>,
   <<P(0, 2, 3, 3), P(1, 4, 5, 4), P(0, 1, 1, 1)>>,
   <<P(1, 2, 2, 2)>>}

Sets(S, W, T, I, B) ==
  [steps : S, warms : W, trajecs : T, propinterval : I, pbp : B,
   save : BOOLEAN]
\* a measured trajectory after a warm-up, with Naik epsilons of measurements or
\* none; a measured trajectory after one that is not
Short == Sets({2}, {1}, {1}, {1}, {0, 1}) \cup Sets({2}, {0}, {2}, {2}, {0})
\* one trajectory, long enough for every scheme
Long == {p \in Sets({0, 3, 4, 6, 12}, {0}, {1}, {1}, {0}) : p.save}
AllParams == Short \cup Long
AllSchemes ==
  {"LEAPFROG", "OMELYAN", "2G1F", "3G1F", "5G1F", "6G1F", "2EPS_3TO1"}
=============================================================================
