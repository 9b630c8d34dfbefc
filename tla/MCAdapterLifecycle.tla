-------------------------- MODULE MCAdapterLifecycle --------------------------
(***************************************************************************)
(* Instances of AdapterLifecycle: a planned run, one without registration,  *)
(* and full runs, one after the other or at once; a campaign of two seeds.  *)
(***************************************************************************)
EXTENDS AdapterLifecycle, TLC

Full == [execute |-> TRUE, register |-> TRUE, acknowledge |-> TRUE, promote |-> TRUE,
         noTaskRegression |-> TRUE]
MCInputs == { Full, [Full EXCEPT !.execute = FALSE], [Full EXCEPT !.register = FALSE] }
MCNames == {"n1", "n2"}
MCCampaigns == {<<"n1", "n2">>}
MCTasks == {"t1", "t2"}
MCBase == {"t1"}
MCTrained == {{"t1", "t2"}, {"t2"}}
Symmetry == Permutations(Processes)
=============================================================================
