---------------------------- MODULE MCFeedHistory ----------------------------
(* The instances of MCFeedExecution, for the properties stated over the      *)
(* history of the runs.                                                      *)
EXTENDS MCFeedExecution, FeedExecutionHistory
==============================================================================
