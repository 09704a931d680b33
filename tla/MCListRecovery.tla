---------------------------- MODULE MCListRecovery ----------------------------
(* Small instances of ListRecovery for TLC. *)
EXTENDS ListRecoveryInv

\* Neighbours leave, up to the last one, one of them returns, and another value
\* comes behind them.
MCRequests == {[op |-> "remove", val |-> 1], [op |-> "remove", val |-> 2],
               [op |-> "add", val |-> 2], [op |-> "add", val |-> 3],
               [op |-> "contains", val |-> 2]}
MCInitial == <<1, 2>>
MCMaxCalls == [t \in Threads |-> IF t = 0 THEN 2 ELSE 1]

\* Without eADR one call at a time.
MCMaxActive == [b \in Builds |-> IF b = "eadr" THEN 2 ELSE 1]
MCMaxCrashes == [b \in Builds |-> 2]
\* And one crash of the program at work: what SegFault leaves unflushed may take
\* back, in a second one, what recover() has done.
MCMaxStops == [b \in Builds |-> IF b = "eadr" THEN 2 ELSE 1]

\* Two calls at one time, in both builds, and two logs.
TwoRequests == {[op |-> "remove", val |-> 2], [op |-> "remove", val |-> 3],
                [op |-> "add", val |-> 1]}
TwoInitial == <<2, 3>>
TwoMaxCalls == [t \in Threads |-> 1]
TwoMaxActive == [b \in Builds |-> 2]
==============================================================================
