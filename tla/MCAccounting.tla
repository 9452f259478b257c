---------------------------- MODULE MCAccounting ----------------------------
(* Instances of Accounting for TLC.                                        *)
EXTENDS Accounting

(* The limits of ContextBudget in units of 2000 output tokens; a response   *)
(* is short or runs into its limit.                                        *)
MCOutputLimit == [agent_1 |-> 4, agent_2 |-> 6, agent_3 |-> 5]
MCOutput == [a \in Agents |-> {1, MCOutputLimit[a]}]
MCInput == [a \in Agents |-> {1}]
MCEstimatedInput == [a \in Agents |-> 1]

=============================================================================
