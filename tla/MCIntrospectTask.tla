-------------------------- MODULE MCIntrospectTask --------------------------
(* Two calls of cancel(), so that the second can meet a task that was      *)
(* cancelled before it ran and runs again, and up to four events: both of  *)
(* a report and its absence fit before and after each.                     *)
EXTENDS IntrospectTask

CONSTANTS first, second

MCCaller == {first, second}

=============================================================================
