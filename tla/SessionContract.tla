--------------------------- MODULE SessionContract ---------------------------
(***************************************************************************)
(* What an application is promised about the two events of a publish       *)
(* session (src/README.md, "Using the library"): the session ends with     *)
(* SessionClosed; a failure is announced by PublishFailed first and        *)
(* SessionClosed then follows; nothing is raised after SessionClosed.      *)
(***************************************************************************)
VARIABLE phase

Phases == {"open", "failed", "closed"}

Init == phase = "open"

\* PublishFailed is raised.
Fail == phase = "open" /\ phase' = "failed"

\* SessionClosed is raised, after a normal stop or after a failure.
Close == phase # "closed" /\ phase' = "closed"

Next == Fail \/ Close

\* A failed session is always closed; a healthy one may publish forever.
Spec == Init /\ [][Next]_phase /\ WF_phase(phase = "failed" /\ Close)
=============================================================================
