------------------------------- MODULE MCIpc -------------------------------
(* Ipc on the instances of MCScheduler: process 1 receives, the others send *)
EXTENDS MCScheduler, Ipc

OneBody == {"b"}
ToShell == {<<p, 1>> : p \in Proc \ {1}}
IpcCalls == [p \in Proc |-> IF p = 1 THEN {"recv", "exit"} ELSE {"send", "sleep"}]
=============================================================================
