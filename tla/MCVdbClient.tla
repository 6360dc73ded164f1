---------------------------- MODULE MCVdbClient ----------------------------
(* VdbClient for model checking: one filter besides none, and two cases, of *)
(* which the command line can give the second.                              *)
EXTENDS VdbClient
CONSTANT ge
MCFilters == {ge}
MCCaseConfigs ==
    {[metric_type |-> "L2", m |-> 16, ef_construction |-> 200, ef_search |-> 64, quant |-> "sq8"],
     [metric_type |-> "None", m |-> 16, ef_construction |-> 200, ef_search |-> 128, quant |-> "empty"]}
=============================================================================
