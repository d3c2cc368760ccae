---------------------------- MODULE MCPromptRun ----------------------------
(* Small instances of PromptRun for TLC: fault budgets of the runs.        *)
EXTENDS PromptRun, TLC

\* Crashes and drains, missed ack waits, lost writes, reconnects, worker stops.
Faulty(crash, stall, write, reconnect, stop) ==
    [f \in Faults |-> CASE f = "crash" -> crash [] f = "stall" -> stall
                        [] f = "write" -> write [] f = "reconnect" -> reconnect
                        [] f = "stop" -> stop]

OneCrash == Faulty(1, 0, 0, 0, 0)
TwoCrashes == Faulty(2, 0, 0, 0, 0)
CrashAndStall == Faulty(1, 1, 0, 0, 0)
OneReconnect == Faulty(0, 0, 0, 1, 0)
AnyFault == Faulty(0, 1, 1, 1, 1)

PodSymmetry == Permutations(Pods)
=============================================================================
