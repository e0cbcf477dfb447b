------------------------------ MODULE ExportJob ------------------------------
(***************************************************************************)
(* What an export is to its user, without threads, widgets and files: one  *)
(* job at a time, for the request that was on the window when Export was   *)
(* clicked; it copies the entries of the pack one after the other, each    *)
(* once, and reports success only when there is none left.                 *)
(***************************************************************************)
EXTENDS Naturals

CONSTANTS Requests, NoRequest, Size

VARIABLES phase, request, done
vars == <<phase, request, done>>

Phases == {"idle", "running", "delivered", "failed", "overlapped", "down"}

Goes(from, to) == phase \in from /\ phase' = to
Cleared == request' = NoRequest /\ done' = 0

Init == phase \in {"idle", "down"} /\ request = NoRequest /\ done = 0

Begin(r) ==
  /\ Goes({"idle"}, "running")
  /\ request' = r /\ done' = 0

(* The patch does not fit: an error box instead of a job.                  *)
Refuse == Goes({"idle"}, "failed") /\ Cleared

Copy ==
  /\ phase = "running" /\ done < Size[request]
  /\ done' = done + 1
  /\ UNCHANGED <<phase, request>>

Deliver ==
  /\ phase = "running" /\ done = Size[request]
  /\ phase' = "delivered" /\ Cleared
Fail    == Goes({"running"}, "failed") /\ Cleared
Return  == Goes({"delivered", "failed"}, "idle") /\ Cleared

(* Export clicked in the last steps of a reset: two jobs share the window, *)
(* and nothing is promised until the program is started again.             *)
Overlap == Goes({"delivered", "failed"}, "overlapped") /\ Cleared

Stop  == Goes(Phases, "down") /\ Cleared
Start == Goes({"down"}, "idle") /\ Cleared

Next == \/ \E r \in Requests : Begin(r)
        \/ Refuse \/ Copy \/ Deliver \/ Fail \/ Return \/ Overlap \/ Stop \/ Start

Spec == Init /\ [][Next]_vars

(* A job goes on, ends, and gives the window back: weak fairness, written  *)
(* out with the condition under which the actions are enabled.             *)
FairSpec ==
  /\ Spec
  /\ []<><<Copy \/ Deliver \/ Fail>>_vars \/ []<>(phase # "running")
  /\ []<><<Return>>_vars \/ []<>(phase \notin {"delivered", "failed"})
===============================================================================
