---------------------------- MODULE UpdateResult ----------------------------
(***************************************************************************)
(* The result file of module updates (MODULE_RESULT_PATH).  The service    *)
(* appends a result per StartUpdateHmpPackage, the monitor's DoRevert and  *)
(* the mount failures of the check at boot turn earlier successes into     *)
(* failures by rewriting the file, and GetHmpUpdateResult reads the file   *)
(* and removes it.                                                         *)
(*                                                                         *)
(* The file is a sequence of results and line ends.  A result names its    *)
(* module by the path of the package (form "path") or by the hmp name      *)
(* alone (form "name"), which is part of the path.  Names are taken not to *)
(* be parts of one another, and no path to contain "revert".  The lengths  *)
(* of lines are left out: where one text is written over another, any      *)
(* piece of the longer one may be left.                                    *)
(***************************************************************************)
EXTENDS Naturals, SequencesExt, FiniteSetsExt

CONSTANTS Hmps,        \* hmp names
          CurrentHmp,  \* the one GetCurrentHmpName finds: the monitor reverts no other
          NL,          \* a line end
          Scrap,       \* what a piece of a line names if it is no hmp
          MaxResults   \* bound: results in the file and in the lines to be written to it

ASSUME ResultAssumption ==
    /\ CurrentHmp \in Hmps /\ Scrap \notin Hmps
    /\ MaxResults \in Nat

VARIABLES file,      \* [there, text] of the result file
          fd,        \* whether the writer's descriptor still names the file
          out,       \* whether the stream that rewrites it is open and still does
          disk,      \* the text that a power loss may bring back
          wr,        \* the rewriting writer: [pc, h, text, found]
          get,       \* GetHmpUpdateResult: [pc, told]
          boot,      \* the check at boot runs, not the service
          saved,     \* history: <<module, code>> saved since the file was made
          failed,    \* history: modules whose last saved result is a revert or mount failure
          overlap,   \* history: a revert was saved during GetHmpUpdateResult
          raced,     \* history: an update's result was saved while a revert's was
          torn       \* history: a rewrite's lines were written over an update's result

fileVars == <<file, fd, out, disk>>
histVars == <<saved, failed>>
raceVars == <<raced, torn>>
vars == <<fileVars, wr, get, boot, histVars, overlap, raceVars>>

Record(h, form, code) == [h |-> h, form |-> form, code |-> code]
Results(s) == {i \in DOMAIN s : s[i] # NL}
Idle == [pc |-> "idle", h |-> CurrentHmp, text |-> <<>>, found |-> FALSE]

\* The bound leaves room for another result.
Room == Cardinality(Results(file.text)) + Cardinality(Results(IF out THEN wr.text ELSE <<>>)) < MaxResults

\* A result of module h with this code has been written.
Saved(h, code) == saved' = saved \cup {<<h, code>>}
-----------------------------------------------------------------------------
(***************************************************************************)
(* Lines.  Without its line end a result runs into the next one, and the   *)
(* line has the path and the code of the first.                            *)
(***************************************************************************)
Heads(s) == {i \in DOMAIN s : s[i] # NL /\ (i = 1 \/ s[i - 1] = NL)}
LineEnd(s, i) == Max({j \in i..Len(s) : \A k \in i..j : s[k] # NL})

\* The lines to be replaced: a success at the head, and the module anywhere.
Hit(s, r) == {i \in Heads(s) : s[i].code = 0 /\ \E j \in i..LineEnd(s, i) : s[j].h = r.h}

\* A wrong Rewrite: only the first of them is replaced.
RewriteFirst(s, r) ==
    FlattenSeq([i \in DOMAIN s |->
        CASE Hit(s, r) # {} /\ i = Min(Hit(s, r)) -> <<r, NL>>
          [] i \in Heads(s) -> SubSeq(s, i, LineEnd(s, i))
          [] OTHER -> <<>>])

\* What becomes of the line that begins at position i.
Kept(s, r, i) ==
    CASE i \in Hit(s, r) -> <<r, NL>>
      [] i \in Heads(s) \ Hit(s, r) -> SubSeq(s, i, LineEnd(s, i))
      [] OTHER -> <<>>

(***************************************************************************)
(* CheckAndUpdateRevertResult: a line that mentions the module and begins  *)
(* with a success becomes the new result; the other lines are kept without *)
(* their line ends.                                                        *)
(***************************************************************************)
Rewrite(s, r) == FlattenSeq([i \in DOMAIN s |-> Kept(s, r, i)])

\* What may be left of a line: it names any module or none, in either form, with any code.
Piece == [h : Hmps \cup {Scrap}, form : {"path", "name"}, code : {0, 1}]

\* What may remain of t if it is overwritten up to its n-th item or up to a part of that.
Remains(t, n) ==
    LET rest == SubSeq(t, n + 1, Len(t))
    IN  {rest} \cup {<<p>> \o rest : p \in IF t[n] = NL THEN {} ELSE Piece}

(***************************************************************************)
(* What writing s at the beginning of t may leave: the lengths decide how  *)
(* much of t remains.  If there is nothing to write t stays.               *)
(***************************************************************************)
Overwritten(s, t) ==
    IF s = <<>> THEN {t}
    ELSE {s} \cup {s \o r : r \in UNION {Remains(t, n) : n \in DOMAIN t}}

\* The path of entry e contains the path of r.
PathContains(e, r) == e.h = r.h /\ (r.form = "name" \/ e.form = "path")

\* A wrong Enter: the paths are not compared.
EnterAny(es, r) == IF es = <<>> THEN <<r>> ELSE [es EXCEPT ![1].code = r.code]

\* A line's result goes to the first entry whose path contains its path.
Enter(es, r) ==
    LET hits == {i \in DOMAIN es : PathContains(es[i], r)}
    IN  IF hits = {} THEN Append(es, r) ELSE [es EXCEPT ![Min(hits)].code = r.code]

\* The entries after the lines that begin at the positions up to k.
Told(s) ==
    LET told[k \in 0..Len(s)] ==
            IF k = 0 THEN <<>>
            ELSE IF k \in Heads(s) THEN Enter(told[k - 1], s[k]) ELSE told[k - 1]
    IN  told[Len(s)]
-----------------------------------------------------------------------------
(***************************************************************************)
(* The service.  taskLock_ keeps StartUpdateHmpPackage and                 *)
(* GetHmpUpdateResult apart; the monitor does not take it.                 *)
(***************************************************************************)
\* A wrong SaveInstallerResult: taskLock_ is not held.
SaveUnlocked(h, code) ==
    /\ ~boot
    /\ Room
    /\ file' = [there |-> TRUE, text |-> file.text \o <<Record(h, "path", code), NL>>]
    /\ disk' = file'.text
    /\ Saved(h, code)
    /\ failed' = failed \ {h}
    /\ raced' = (raced \/ wr.pc # "idle")
    /\ UNCHANGED <<fd, out, wr, get, boot, overlap, torn>>

\* The end of StartUpdateHmpPackage: appended and synced.
SaveInstallerResult(h, code) ==
    /\ ~boot /\ get.pc = "idle"
    /\ Room
    /\ file' = [there |-> TRUE, text |-> file.text \o <<Record(h, "path", code), NL>>]
    /\ disk' = file'.text
    /\ Saved(h, code)
    /\ failed' = failed \ {h}
    /\ raced' = (raced \/ wr.pc # "idle")
    /\ UNCHANGED <<fd, out, wr, get, boot, overlap, torn>>

GetHmpUpdateResult ==
    /\ ~boot /\ get.pc = "idle"
    /\ file.there
    /\ get' = [pc |-> "unlink", told |-> Told(file.text)]
    /\ overlap' = (wr.pc # "idle")
    /\ UNCHANGED <<fileVars, wr, boot, histVars, raceVars>>

\* The file is removed; a writer that has it open goes on with a file nobody sees.
GetUnlink ==
    /\ get.pc = "unlink"
    /\ file' = [there |-> FALSE, text |-> <<>>]
    /\ fd' = FALSE /\ out' = FALSE /\ disk' = <<>>
    /\ get' = [pc |-> "idle", told |-> <<>>]
    /\ saved' = IF wr.pc = "idle" THEN {} ELSE saved
    /\ raced' = (raced /\ wr.pc # "idle") /\ torn' = (torn /\ wr.pc # "idle")
    /\ overlap' = FALSE
    /\ UNCHANGED <<wr, boot, failed>>
-----------------------------------------------------------------------------
(***************************************************************************)
(* A revert's or mount failure's result.                                   *)
(***************************************************************************)
\* DoRevert of the monitor makes the file if need be; the boot check's result needs it.
OpenResult(h) ==
    /\ wr.pc = "idle"
    /\ Room
    /\ IF boot THEN file.there ELSE h = CurrentHmp
    /\ file' = [file EXCEPT !.there = TRUE]
    /\ fd' = TRUE
    /\ wr' = [Idle EXCEPT !.pc = "read", !.h = h]
    /\ overlap' = (get.pc # "idle")
    /\ UNCHANGED <<out, disk, get, boot, histVars, raceVars>>

NewResult == Record(wr.h, "name", 1)

\* CheckAndUpdateRevertResult reads the file; without one the result goes to the descriptor.
ReadResult ==
    /\ wr.pc = "read"
    /\ wr' = IF file.there
             THEN [wr EXCEPT !.pc = "trunc", !.text = Rewrite(file.text, NewResult),
                             !.found = Hit(file.text, NewResult) # {}]
             ELSE [wr EXCEPT !.pc = "append"]
    /\ UNCHANGED <<fileVars, get, boot, histVars, overlap, raceVars>>

\* The ofstream truncates the file, or makes a new one, and sync comes before its data.
TruncResult ==
    /\ wr.pc = "trunc"
    /\ file' = [there |-> TRUE, text |-> <<>>]
    /\ fd' = (fd /\ file.there) /\ out' = TRUE
    /\ disk' = <<>>
    /\ wr' = [wr EXCEPT !.pc = "flush"]
    /\ UNCHANGED <<get, boot, histVars, overlap, raceVars>>

(***************************************************************************)
(* The lines are written when the ofstream is destroyed, from the          *)
(* beginning of the file and over what the service has appended meanwhile; *)
(* nobody sees them if the file was removed.                               *)
(***************************************************************************)
FlushResult ==
    /\ wr.pc = "flush"
    /\ wr' = [wr EXCEPT !.pc = IF wr.found THEN "done" ELSE "append", !.text = <<>>]
    /\ out' = FALSE
    /\ IF out
       THEN /\ \E t \in Overwritten(wr.text, file.text) : file' = [file EXCEPT !.text = t]
            /\ disk' = file.text
            /\ torn' = (torn \/ (wr.text # <<>> /\ file.text # <<>>))
       ELSE UNCHANGED <<file, disk, torn>>
    /\ IF wr.found /\ out
       THEN Saved(wr.h, 1) /\ failed' = failed \cup {wr.h}
       ELSE UNCHANGED histVars
    /\ UNCHANGED <<fd, get, boot, overlap, raced>>

AppendResult ==
    /\ wr.pc = "append"
    /\ IF fd
       THEN /\ file' = [file EXCEPT !.text = @ \o <<NewResult, NL>>]
            /\ disk' = file'.text
            /\ Saved(wr.h, 1) /\ failed' = failed \cup {wr.h}
       ELSE UNCHANGED <<file, disk, histVars>>
    /\ wr' = [wr EXCEPT !.pc = "done"]
    /\ UNCHANGED <<fd, out, get, boot, overlap, raceVars>>

\* Revert ends in sync and a reboot.
RevertAndReboot ==
    /\ wr.pc = "done"
    /\ wr' = Idle /\ disk' = file.text /\ fd' = FALSE
    /\ boot' = TRUE
    /\ get' = [pc |-> "idle", told |-> <<>>] /\ overlap' = FALSE
    /\ UNCHANGED <<file, out, histVars, raceVars>>

\* Revert returns early: nothing is synced.
RevertReturns ==
    /\ wr.pc = "done"
    /\ wr' = Idle /\ fd' = FALSE
    /\ UNCHANGED <<file, out, disk, get, boot, histVars, overlap, raceVars>>
-----------------------------------------------------------------------------
\* The check at boot is over.
BootDone ==
    /\ boot /\ wr.pc = "idle"
    /\ boot' = FALSE
    /\ UNCHANGED <<fileVars, wr, get, histVars, overlap, raceVars>>

\* Power is lost, and with it lines that were rewritten and not synced, or not.
Crash ==
    /\ file' \in {file, [file EXCEPT !.text = disk]}
    /\ disk' = file'.text
    /\ fd' = FALSE /\ out' = FALSE
    /\ wr' = Idle /\ get' = [pc |-> "idle", told |-> <<>>] /\ overlap' = FALSE
    /\ boot' = TRUE
    /\ UNCHANGED <<histVars, raceVars>>

Init ==
    /\ file = [there |-> FALSE, text |-> <<>>]
    /\ fd = FALSE /\ out = FALSE /\ disk = <<>> /\ boot = TRUE
    /\ wr = Idle
    /\ get = [pc |-> "idle", told |-> <<>>]
    /\ saved = {} /\ failed = {}
    /\ overlap = FALSE /\ raced = FALSE /\ torn = FALSE

Next ==
    \/ \E h \in Hmps : OpenResult(h) \/ \E code \in {0, 1} : SaveInstallerResult(h, code)
    \/ GetHmpUpdateResult \/ GetUnlink
    \/ ReadResult \/ TruncResult \/ FlushResult \/ AppendResult
    \/ RevertAndReboot \/ RevertReturns
    \/ BootDone \/ Crash

Spec == Init /\ [][Next]_vars
-----------------------------------------------------------------------------
(***************************************************************************)
(* Properties.                                                             *)
(***************************************************************************)
Entries == {Told(file.text)[i] : i \in DOMAIN Told(file.text)}

\* The types of the result file and its users.
ResultTypeOK ==
    /\ file.there \in BOOLEAN
    /\ \A i \in Results(file.text) : file.text[i] \in Piece
    /\ ~file.there => file.text = <<>>
    /\ {fd, out, boot, overlap, raced, torn} \subseteq BOOLEAN
    /\ wr.pc \in {"idle", "read", "trunc", "flush", "append", "done"}
    /\ get.pc \in {"idle", "unlink"}
    /\ failed \subseteq Hmps

(***************************************************************************)
(* A module that was reverted after its update, or could not be mounted,   *)
(* is never reported as updated: whatever lines have run together and      *)
(* wherever power was lost, once its failure is saved no entry of          *)
(* GetHmpUpdateResult says success until it is updated again.  The         *)
(* exception: the service saved the result of an update while the monitor, *)
(* which does not take taskLock_, was saving a revert.                     *)
(***************************************************************************)
RevertedNotSuccessful ==
    ~raced => \A e \in Entries : e.h \in failed => e.code # 0

(***************************************************************************)
(* Every entry is true, also when it is read from lines that have run      *)
(* together: its module has had this result since the file was made, or    *)
(* since the file before it, if a revert was being saved when that one was *)
(* removed.  The exception: the service appended a result between the      *)
(* truncation and the writing of a rewrite; then a piece of that line may  *)
(* be left, and is read with a path that is no package's or another's.     *)
(***************************************************************************)
EntriesAreTrue ==
    ~torn => \A e \in Entries : <<e.h, e.code>> \in saved

\* The types, and no entry that was never saved, unless a line was torn.
ResultInv == ResultTypeOK /\ EntriesAreTrue

(***************************************************************************)
(* What GetHmpUpdateResult removes is what it has told, unless the monitor *)
(* was saving a revert at the same time.                                   *)
(***************************************************************************)
NothingRemovedUntold ==
    [][GetUnlink => get.told = Told(file.text) \/ overlap]_vars
=============================================================================
