----------------------------- MODULE MCChannel -----------------------------
(* Small instances of Channel for TLC.                                     *)
EXTENDS Channel, TLC

CONSTANTS m1, m2, m3

FirstTwice == [m \in Msgs |-> IF m = m1 THEN 2 ELSE 1]
Once == [m \in Msgs |-> 1]

\* Marks that fail, statements that fail, crashes, stopped replies, changes of
\* the plan, turns of other chats.
Events6(d, x, k, s, l, o) ==
    [e \in Events |-> CASE e = "dedup" -> d [] e = "error" -> x [] e = "crash" -> k
                        [] e = "stop" -> s [] e = "plan" -> l [] e = "other" -> o]
EachKind == Events6(1, 1, 1, 1, 1, 2)
NoFault == Events6(0, 0, 0, 0, 0, 0)
OneError == Events6(0, 1, 0, 0, 0, 0)
=============================================================================
