-------------------------- MODULE MCMessageIntake --------------------------
(* Instances of MessageIntake for TLC: a message of each kind and a second *)
(* command; ann wrote them all but the command of eve, a monarch.          *)
EXTENDS MessageIntake, TLC

CONSTANTS start, run, run2, ask, save, hello, ann, eve

Kind == [m \in Messages |->
           CASE m = start -> "safe"  [] m \in {run, run2} -> "command"
             [] m = ask -> "unclear" [] m = save -> "remember" [] OTHER -> "chat"]

Sender == [m \in Messages |-> IF m = run2 THEN eve ELSE ann]

Pairs == {{start, run}, {run, run2}, {hello, save}, {hello, ask}}

ProcSymmetry == Permutations(Procs)
=============================================================================
