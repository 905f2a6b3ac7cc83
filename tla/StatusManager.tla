--------------------------- MODULE StatusManager ---------------------------
(***************************************************************************)
(* The status manager of one update task, as a value and the operations on *)
(* it (frameworks/status_manager/src/status_manager.cpp).  A value is      *)
(*   updateCallback  a client callback is registered                       *)
(*   updateStatus    the status last reported                              *)
(*   percent         the progress last reported                            *)
(* Each operation runs under updateCbMutex_ and is one step of the caller. *)
(* The text of the result message is left out: nothing reads it back.      *)
(***************************************************************************)
EXTENDS Naturals

\* UpdateStatus without BUSY and MAX, which no shipped code reports.
UpdateStatus == {"INIT", "ONGOING", "FAILED", "SUCCESSFUL", "CANCEL", "RETRY_SUCCESSFUL"}

\* The statuses that end a run of the action processer.
Terminal == UpdateStatus \ {"INIT", "ONGOING"}

StatusValue == [updateCallback : BOOLEAN, updateStatus : UpdateStatus, percent : 0..100]

\* StatusManager::Init on a fresh object.
StatusInit == [updateCallback |-> FALSE, updateStatus |-> "INIT", percent |-> 0]

\* StatusManager::SetUpdateCallback with a callback; status and percent stay.
SetCallback(s) == [s EXCEPT !.updateCallback = TRUE]

\* A wrong NewPercent: not compared with the percent before.
NewPercentFalls(s, status, pct) ==
    IF status \in {"SUCCESSFUL", "FAILED"} THEN 100 ELSE pct

\* The percent UpdateCallback stores: never lower than before.
NewPercent(s, status, pct) ==
    IF status \in {"SUCCESSFUL", "FAILED"}
    THEN 100
    ELSE IF pct \in 0..100 /\ pct > s.percent THEN pct ELSE s.percent

(***************************************************************************)
(* StatusManager::UpdateCallback.  Without a callback the report is        *)
(* dropped: not even updateStatus_ changes.                                *)
(***************************************************************************)
UpdateCallback(s, status, pct) ==
    IF ~s.updateCallback \/ (s.updateStatus = status /\ s.percent = pct)
    THEN s
    ELSE [s EXCEPT !.percent = NewPercent(s, status, pct), !.updateStatus = status]
=============================================================================
