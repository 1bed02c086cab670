---------------------------- MODULE DetachedCommand ----------------------------
(***************************************************************************)
(* What an SSH-safe command promises (README.md, "SSH-Safe Maintenance"):  *)
(* the command is started at most once and runs on by itself, and what is  *)
(* reported as its exit code is the exit code it ended with.  A report may *)
(* also be that nothing is known, or that the command was cancelled.       *)
(***************************************************************************)

VARIABLES command, report

Codes == {"ok", "failed"}

Init == command = "none" /\ report = "none"

Start == command = "none" /\ report = "none" /\ command' = "running" /\ UNCHANGED report

End == command = "running" /\ command' \in Codes \union {"killed"} /\ UNCHANGED report

Report ==
  /\ report = "none"
  /\ report' \in (Codes \intersect {command}) \union {"unknown", "cancelled"}
  /\ UNCHANGED command

Next == Start \/ End \/ Report

Spec == Init /\ [][Next]_<<command, report>> /\ WF_<<command, report>>(Report)
=============================================================================
