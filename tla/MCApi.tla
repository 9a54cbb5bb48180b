-------------------------------- MODULE MCApi --------------------------------
(***************************************************************************)
(* Api with two pools, three machines and the pairs of commands whose      *)
(* handlers touch the same things.                                         *)
(***************************************************************************)
EXTENDS Api

MCPoolOf == [m \in Machine |-> IF m = 13 THEN 2 ELSE 1]

\* 3 names no pool, 14 no machine; 9 does not fit an int of three bits.
MCPlans ==
    {<<List, k>> : k \in {Scale(1, 9), Pause(2)}}
    \cup {<<[rpc |-> "GetPool", Name |-> 1], k>> : k \in {Scale(1, -3), Pause(1)}}
    \cup {<<k, l>> : k \in {Pause(1), Resume(1)}, l \in {Pause(1), Resume(1), Pause(2)}}
    \cup {<<Scale(1, 2), Scale(1, 3)>>, <<Scale(2, 1), Login(11)>>, <<Scale(3, 1), Ps>>,
          <<Login(14), [rpc |-> "ListMachines", Pool |-> 1]>>}

=============================================================================
