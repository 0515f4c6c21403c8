--------------------------------- MODULE Rpc ----------------------------------
(***************************************************************************)
(* What a debugging session promises: commands are carried out one at a    *)
(* time, in the order they are issued, each exactly once, and the answer   *)
(* the debugger takes for a command is the answer to that command.  Every  *)
(* stray byte on the line may cost one repetition, and from the first on   *)
(* the debugger may take another command's answer; nothing else may.       *)
(***************************************************************************)
EXTENDS Naturals

CONSTANT MaxCommands

VARIABLES
    issued,     \* commands the debugger has issued
    executed,   \* commands the simulator has carried out
    answered,   \* commands for which the debugger has taken their own answer
    strays      \* bytes outside packets so far

vars == <<issued, executed, answered, strays>>

Init == issued = 0 /\ executed = 0 /\ answered = 0 /\ strays = 0

Issue ==
    /\ issued = answered \/ strays > 0
    /\ issued < MaxCommands
    /\ issued' = issued + 1
    /\ strays' \in {strays, strays + 1}
    /\ UNCHANGED <<executed, answered>>

Stray ==
    /\ strays' = strays + 1
    /\ UNCHANGED <<issued, executed, answered>>

Execute ==
    /\ executed < issued + strays
    /\ executed' = executed + 1
    /\ UNCHANGED <<issued, answered, strays>>

Answer ==
    /\ answered < executed
    /\ answered' = answered + 1
    /\ UNCHANGED <<issued, executed, strays>>

Next == Issue \/ Stray \/ Execute \/ Answer

Spec == Init /\ [][Next]_vars
=============================================================================
