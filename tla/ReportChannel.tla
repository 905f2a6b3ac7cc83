--------------------------- MODULE ReportChannel ---------------------------
(***************************************************************************)
(* What the monitor's queue promises its two threads, without ring, locks  *)
(* or condition variables: a bounded first-in first-out channel of         *)
(* reports, each looked at once, and a decision to revert that only the    *)
(* reports looked at bring about and nothing takes back.                   *)
(***************************************************************************)
EXTENDS Naturals, Sequences

CONSTANTS Report,     \* what the producer may report
          Harmless,   \* reports that ask for no revert
          Places      \* how many reports the channel holds

VARIABLES chan,     \* the reports put and not yet looked at
          closed,   \* one of the threads has stopped the channel
          revert    \* a report that was looked at asked for a revert

chanVars == <<chan, closed, revert>>

Init == chan = <<>> /\ closed = FALSE /\ revert = FALSE

\* One report enters, if there is room; a channel that is closed still takes it.
Put ==
    /\ Len(chan) < Places
    /\ \E x \in Report : chan' = Append(chan, x)
    /\ UNCHANGED <<closed, revert>>

\* The oldest report is looked at.
Look ==
    /\ chan # <<>>
    /\ chan' = Tail(chan)
    /\ revert' = (revert \/ Head(chan) \notin Harmless)
    /\ UNCHANGED closed

Close ==
    /\ closed' = TRUE
    /\ UNCHANGED <<chan, revert>>

Next == Put \/ Look \/ Close

Spec == Init /\ [][Next]_chanVars
=============================================================================
