-------------------------------- MODULE MCTui --------------------------------
(* Small instances of Tui for TLC. *)
EXTENDS TuiProperties

TwoRuns == 1..2
FiveRuns == 1..5
AllFive == {1..5}
NoneOrOne == {{}, {1}}
Filters == <<"all", "failed">>
SomeCreated == [r \in Runs |-> IF r <= 2 THEN 1 ELSE 2]
OneCalc == [r \in Runs |-> 1]
SomeCommands ==
    {[op |-> "search", matches |-> {1}], [op |-> "filter", status |-> ""],
     [op |-> "filter", status |-> "failed"], [op |-> "quit"], [op |-> "refresh"], [op |-> "import"]}
=============================================================================
