------------------------------ MODULE MCJobQueue ------------------------------
(* Instances of JobQueue for TLC; the .cfg files choose jobs, processes,     *)
(* commands and faults.                                                      *)
EXTENDS JobQueue, TLC

\* Processes of one kind are interchangeable: no definition orders them.
Processes == Permutations(Worker) \cup Permutations(Dispatcher) \cup Permutations(Client)

\* So are jobs, where all have the same settings.
ProcessesAndJobs == Processes \cup Permutations(Job)

=============================================================================
