------------------------------ MODULE MCSweep ------------------------------
(***************************************************************************)
(* MutationSweep for TLC: two lanes where the tool may raise; two lanes    *)
(* and a Ctrl-C, or a build that takes too long, on a tree that is good;   *)
(* and one mutant in one lane with every fault, compilers that outlive     *)
(* their ninja among them.  A behaviour stays in one of these scenarios.   *)
(***************************************************************************)
EXTENDS MutationSweep

VARIABLE scenario

Stopped == INSTANCE MutationSweep WITH Interrupts <- 1, Failures <- 0
Late == INSTANCE MutationSweep WITH Timeouts <- 1, Failures <- 0
Alone == INSTANCE MutationSweep WITH
            N <- 1, L <- 1, BaselineRuns <- 2,
            Timeouts <- 1, Interrupts <- 1

Good == given.suite = "green" /\ given.reaches

MCInit == \/ scenario = "raises" /\ Init /\ ~given.outlives /\ (given.quick => given.mode # "named")
          \/ scenario = "stopped" /\ Stopped!Init /\ ~given.outlives /\ Good /\ given.mode # "named"
          \/ scenario = "late" /\ Late!Init /\ ~given.outlives /\ Good /\ given.mode = "ours"
          \/ scenario = "alone" /\ Alone!Init /\ given.outlives

MCNext == /\ UNCHANGED scenario
          /\ \/ scenario = "raises" /\ Next
             \/ scenario = "stopped" /\ Stopped!Next
             \/ scenario = "late" /\ Late!Next
             \/ scenario = "alone" /\ Alone!Next

\* The fairness of each scenario's specification.
MCSpec == /\ MCInit /\ [][MCNext]_<<vars, scenario>>
          /\ WF_vars(scenario = "raises" /\ Main)
          /\ WF_vars(scenario = "stopped" /\ Stopped!Main)
          /\ WF_vars(scenario = "late" /\ Late!Main)
          /\ WF_vars(scenario = "alone" /\ Alone!Main)
          /\ \A l \in Lanes : /\ WF_vars(scenario = "raises" /\ Worker(l))
                              /\ WF_vars(scenario = "stopped" /\ Stopped!Worker(l))
                              /\ WF_vars(scenario = "late" /\ Late!Worker(l))
          /\ WF_vars(scenario = "alone" /\ Alone!Worker(0))

\* The type of the state.  (MutationSweep, all its variables.)
TypesOK == CASE scenario = "raises" -> TypeOK
             [] scenario = "stopped" -> Stopped!TypeOK
             [] scenario = "late" -> Late!TypeOK
             [] scenario = "alone" -> Alone!TypeOK

\* The run ends, with every fault, and is as typed up to then.  (run_mutants'
\* join, the timeouts.)
Ends == []TypesOK /\ <>(IF scenario = "alone" THEN Alone!Done ELSE Done)
=============================================================================
