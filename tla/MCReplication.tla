--------------------------- MODULE MCReplication ----------------------------
(***************************************************************************)
(* Instances of Replication for TLC.                                       *)
(***************************************************************************)
EXTENDS Replication, TLC

CONSTANTS p1, p2, t1, t2, t3, f1, f2

\* Two processes, the first with two threads.
TwoProcesses == t1 :> p1 @@ t2 :> p1 @@ t3 :> p2
\* One thread a process.
Separate == t1 :> p1 @@ t2 :> p2
Together == t1 :> p1 @@ t2 :> p1
OneFile == [t \in Threads |-> {f1}]
AllFiles == [t \in Threads |-> Files]
\* Names whose blocks start on different servers.
Crc == [f \in Files |-> IF f = f1 THEN 5 ELSE 4]
Hash == [k \in Files \X Blocks |-> Crc[k[1]] + 3 * k[2]]
NoMatch == [p \in Processes |-> -1]
\* p1 runs on the node of server 1, p2 on that of server 0.
OnNodes == [p \in Processes |-> IF p = p1 THEN 1 ELSE 0]
=============================================================================
