------------------------------ MODULE MCStakeHub ------------------------------
(***************************************************************************)
(* Instances for TLC of the StakeHub binding and of the create-validator   *)
(* tool: events with none, two and three indexed arguments, and a log that *)
(* the ABI of the binding cannot decode.                                   *)
(***************************************************************************)
EXTENDS CreateValidator

CONSTANTS i1, w1, r1, r2, self, bob, none

Log(e, topics, decodable) ==
    [name |-> e.name, topics |-> topics, decodable |-> decodable]

MCCreatedLog == Log(ValidatorCreated, <<self, self, bob>>, TRUE)
MCLogs ==
    { Log(Delegated, <<self, bob>>, TRUE), Log(Delegated, <<self, self>>, TRUE),
      Log(Delegated, <<self, bob>>, FALSE), Log(Paused, <<>>, TRUE),
      MCCreatedLog }

\* Every delegation to one validator, or only one delegator's; an event
\* without arguments; any creation of a validator by its own operator.
DelegationQueries ==
    { [event |-> Delegated, rules |-> <<{self}, {}>>],
      [event |-> Delegated, rules |-> <<{}, {bob}>>],
      [event |-> Paused, rules |-> <<>>] }

CreationLogs == { MCCreatedLog }
CreationQueries == { [event |-> ValidatorCreated, rules |-> <<{}, {self}, {}>>] }
=============================================================================
