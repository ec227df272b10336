------------------------------- MODULE MCFcfs -------------------------------
(***************************************************************************)
(* A finite instance of FcfsScheduler: the lines that may be typed.        *)
(***************************************************************************)
EXTENDS FcfsScheduler

Line(pid, burst, io_start, io_duration) ==
  [pid |-> pid, burst |-> burst, io_start |-> io_start, io_duration |-> io_duration]

\* No I/O ('-' reads as -1 and as 0), I/O before and inside the burst, I/O of
\* two processes that ends on one tick, a burst of zero, and a pid that wrapped;
\* pids repeat where a hash entry could not be allocated.
SomeLines ==
  { Line(1, 0, 0, 1), Line(1, 2, 1, 2), Line(3, 2, 1, 1),
    Line(3, 3, -1, 2), Line(-7, 1, 0, 1) }

\* A kill that is never due, two for one process, two on one tick, and one
\* that meets its process during its I/O.
SomeKills ==
  { [kill_pid |-> 1, kill_time |-> -1], [kill_pid |-> 1, kill_time |-> 0],
    [kill_pid |-> 1, kill_time |-> 2], [kill_pid |-> 3, kill_time |-> 2] }
=============================================================================
