--------------------------- MODULE MCRepeatedRuns ---------------------------
(***************************************************************************)
(* The two programs that are run until their plan is done: in the part     *)
(* "batch" the batch replay, with a case blocked by the one before it in   *)
(* one group and a case of its own in another; in the part "transport" a   *)
(* plan of queries.                                                        *)
(***************************************************************************)
EXTENDS BatchReplay, BinanceTransport, TLC

VARIABLE part

transportVars == vars

TwoGroups == (1 :> 1) @@ (2 :> 1) @@ (3 :> 2)
FirstBlocksSecond == {<<1, 2>>}

MCInit ==
  /\ part \in {"batch", "transport"}
  /\ BatchInit /\ Init
  /\ part = "transport" => version = 1

MCNext ==
  /\ UNCHANGED part
  /\ \/ part = "batch" /\ BatchNext /\ UNCHANGED transportVars
     \/ part = "transport" /\ Next /\ UNCHANGED batchVars

\* The fairness of BatchFairSpec and of FairSpec.
MCSpec ==
  /\ MCInit /\ [][MCNext]_<<batchVars, transportVars, part>>
  /\ WF_batchVars(part = "batch" /\ BatchStep)
  /\ WF_transportVars(part = "transport" /\ RunStep)
=============================================================================
