--------------------------- MODULE MCTushareSync ---------------------------
\* Three days of which two are open, two exchanges, and the kinds of datasets
\* two at a time.  The calendar of the last day is not there at first, and that
\* of its second exchange never.
EXTENDS TushareSync

Kind == [trade_cal |-> "calendar", daily |-> "traded", moneyflow |-> "traded",
         dividend |-> "announced_daily", income |-> "announced",
         stock_basic |-> "snapshot", fina_audit |-> "audited"]
Sets == DOMAIN Kind
Listed == {{"trade_cal", "daily", "moneyflow"}, {"trade_cal", "fina_audit"},
           {"trade_cal", "dividend", "stock_basic"}, {"trade_cal", "income"}}
Parts == [d \in Sets |-> IF d \in {"trade_cal", "fina_audit"} THEN {1, 2} ELSE {1}]
Batches == <<{1}, {2}>>
Chunk == [d \in Sets |-> IF d \in {"trade_cal", "moneyflow"} THEN 3 ELSE 2]
Open == {1, 3}
Before == {<<"trade_cal", <<d, e>>>> : d \in {1, 2}, e \in {1, 2}}
            \cup {<<d, <<1, 1>>>> : d \in Sets}
After == {<<d, <<3, 1>>>> : d \in {"trade_cal", "daily", "income"}}
Asked == {<<1, 3>>}
Selected == {[range |-> <<2, 2>>, datasets |-> <<"daily">>],
             [range |-> <<1, 1>>, datasets |-> <<"income", "trade_cal">>],
             [range |-> <<3, 3>>, datasets |-> <<"stock_basic">>]}
Incs == {[today |-> 3, monthly |-> FALSE, weekly |-> TRUE], [today |-> 2, monthly |-> TRUE, weekly |-> FALSE]}
Back == [d \in Sets |-> [daily |-> 1, monthly |-> 2]]
Week == {"fina_audit"}
=============================================================================
