------------------------------ MODULE MCQmtSync ------------------------------
\* Two codes over three days, of which b is not traded on the first; the factor of day 3 is
\* announced on that day.  Calls of one table, of all of them, and forced ones.
EXTENDS QmtSync

TwoCodes == {"a", "b"}
Bars == {<<"a", 1>>, <<"a", 2>>, <<"b", 2>>, <<"a", 3>>}
Announcements == {[code |-> "a", ex |-> 2, announced |-> 1, dr |-> 2],
                  [code |-> "a", ex |-> 3, announced |-> 3, dr |-> 3]}
Reports == {2}
All == [datasets |-> <<"daily", "1m", "financial", "dividend_factors">>, codes |-> {"a"},
        start |-> 2, end |-> 3, force |-> FALSE]
Daily == [datasets |-> <<"daily">>, codes |-> {"a", "b"}, start |-> 1, end |-> 3, force |-> FALSE]
Again == [datasets |-> <<"daily">>, codes |-> {"a"}, start |-> 2, end |-> 2, force |-> TRUE]
FactorsOf(end) == [datasets |-> <<"dividend_factors">>, codes |-> {"a"}, start |-> 1, end |-> end, force |-> FALSE]
SomeCalls == {All, Daily, Again, FactorsOf(2)}
FactorCalls == {FactorsOf(2), FactorsOf(3), Daily}
=============================================================================
