--------------------------- MODULE MCOplogReplay ---------------------------
(***************************************************************************)
(* OplogReplay on a small workflow.                                        *)
(***************************************************************************)
EXTENDS OplogReplay

\* The same API before and after the time; the response of the last call may
\* exceed the guest's buffer.
Workflow == << <<"charge", "host_get_time">>, <<"charge">> >>
LastCall == {<<2, 1>>}

=============================================================================
