------------------------------- MODULE MCReactor -------------------------------
(* The programs and bounds of Reactor for TLC.                              *)
EXTENDS Reactor, TLC

MCPrograms == {
  \* Three tasks for two workers, one of them longer than a chain.
  <<<<Points(3)>>, <<Points(1)>>, <<Points(1)>>>>,
  \* A job, and a time-out that gives it up.
  <<<<Points(2), Points(1)>>, <<Sleep(1), CancelOf(1)>>>>,
  \* The earlier of two timers, withdrawn by the end of a job.
  <<<<Sleep(2), Sleep(1)>>, <<Points(1), CancelOf(3)>>, <<Sleep(1)>>>>}
================================================================================
