---------------------------- MODULE MCStrategies ----------------------------
EXTENDS Strategies

MCStrikes == 1..6
MCSpots == {3, 4}
Without(i) == ({"CE", "PE"} \X MCStrikes) \ {i}
Calm == [vix |-> "normal", pcr |-> FALSE, pain |-> FALSE, trend |-> FALSE]
MCMoods == {[Calm EXCEPT !.vix = v] :
                v \in {"low", "normal", "high", "severe", "extreme"}}
           \cup {[Calm EXCEPT ![f] = TRUE] : f \in {"pcr", "pain", "trend"}}
MCQuoteSets == {Without(<<"CE", 4>>), Without(<<"PE", 3>>)}
=============================================================================
