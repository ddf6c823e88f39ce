----------------------------- MODULE MCConsole -----------------------------
(* Console on the instances of MCScheduler: process 1 is the shell *)
EXTENDS MCScheduler, Console

OneChar == {"a"}
\* The shell may also wait for a message, which the worker sends, or exit.
ConsoleCalls == (1 :> {"read", "recv", "exit"}) @@ (2 :> {"send", "sleep"})
=============================================================================
