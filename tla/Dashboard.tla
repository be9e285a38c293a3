----------------------------- MODULE Dashboard -----------------------------
(***************************************************************************)
(* operations/dashboard.py: export_dashboard, called by several processes  *)
(* for one destination, from the validation of its path to its return.     *)
(* The parent of the destination is a path: other programs may move it and *)
(* put another directory in its place, and remove, replace or create the   *)
(* destination.  On POSIX an exporter works through a descriptor of the    *)
(* directory and an anonymous file; on Windows (nt) it holds handles that  *)
(* pin the directories of the path, and a file with a name of its own.     *)
(***************************************************************************)
EXTENDS Naturals

CONSTANTS Exporters, \* calls of export_dashboard for one destination
          Dirs,      \* directories (identities) the parent path may denote
          NoDir,     \* the parent path denotes none, or none is known
          Absent,    \* the destination does not exist
          MaxChanges \* bound: changes other programs make

\* What other programs put at the destination: a regular file, or something else.
Foreign == {"file", "link"}

ASSUME NamesAssumption == /\ NoDir \notin Dirs
                          /\ Exporters \cap (Foreign \cup {Absent}) = {}
                          /\ Absent \notin Foreign
ASSUME ChangesAssumption == MaxChanges \in Nat

VARIABLES platform, \* os.name
          path,     \* the directory the parent path denotes
          entry,    \* entry[d]: what the destination's name denotes in d
          export,   \* export[e]: the call of e and its file
          changes   \* how many changes other programs have made

vars == <<platform, path, entry, export, changes>>

\* dir is the parent_identity of the call; temp the temporary name of its file;
\* bound the directory its file was committed in.
NewExport == [pc |-> "idle", dir |-> NoDir, locked |-> FALSE, temp |-> "none",
              content |-> "empty", bound |-> NoDir, outcome |-> "none"]

At(e, label) == export[e].pc = label
Goto(e, label) == export' = [export EXCEPT ![e].pc = label]
Raise(e) == Goto(e, "failing")
Outside == UNCHANGED <<platform, path, changes>>
Quiet == Outside /\ UNCHANGED entry

\* _require_same_parent; and _validated_destination, which also wants no link there.
SameParent(e) == path = export[e].dir
Valid == path \in Dirs /\ entry[path] # "link"
\* _require_temp_identity: an anonymous file has no name to lose.
Intact(e) == export[e].temp # "taken"

-----------------------------------------------------------------------------
(* The destination and its lock *)

Validate(e) ==
    /\ At(e, "idle")
    /\ IF Valid THEN export' = [export EXCEPT ![e].dir = path,
                                   ![e].pc = IF platform = "nt" THEN "locking" ELSE "opening"]
       ELSE Raise(e)
    /\ Quiet

\* os.open of the parent and the identity of what it opened.
Open(e) == /\ At(e, "opening")
           /\ IF SameParent(e) THEN Goto(e, "locking") ELSE Raise(e)
           /\ Quiet

\* The lock file is in the directory and nobody removes it; the mutex is named after
\* the path, in the namespace of one Windows session, which holds all exporters.
Contended(e) == \E f \in Exporters \ {e} :
                   /\ export[f].locked
                   /\ platform = "nt" \/ export[f].dir = export[e].dir

\* Mutant of Lock: the lock is shared.
LockShared(e) == /\ At(e, "locking")
                 /\ export' = [export EXCEPT ![e].locked = TRUE, ![e].pc = "locked"]
                 /\ Quiet
Lock(e) == /\ At(e, "locking")
           /\ ~ Contended(e)
           /\ export' = [export EXCEPT ![e].locked = TRUE, ![e].pc = "locked"]
           /\ Quiet

\* flock waits for ever, WaitForSingleObject for 30 seconds; either may fail.
LockFails(e) == /\ At(e, "locking")
                /\ Raise(e)
                /\ Quiet

\* On Windows the handles of the directories, which pin them; then the parent again.
Guard(e) == /\ At(e, "locked")
            /\ IF SameParent(e) THEN Goto(e, "guarded") ELSE Raise(e)
            /\ Quiet

Guarded(e) == export[e].pc \in {"guarded", "created", "writing", "flushing", "written",
                                "checked", "committing", "committed", "published"}
Pinned == /\ platform = "nt"
          /\ \E e \in Exporters :
                Guarded(e) \/ (export[e].locked /\ export[e].pc \in {"failing", "leaving"})

-----------------------------------------------------------------------------
(* The file *)

CreateTemp(e) ==
    /\ At(e, "guarded")
    /\ export' = [export EXCEPT ![e].pc = "created",
                                ![e].temp = IF platform = "nt" THEN "named" ELSE "anonymous"]
    /\ Quiet

CheckTemp(e) == /\ At(e, "created")
                /\ IF Intact(e) /\ SameParent(e) THEN Goto(e, "writing") ELSE Raise(e)
                /\ Quiet

WriteSome(e) == /\ At(e, "writing")
                /\ export' = [export EXCEPT ![e].pc = "flushing", ![e].content = "partial"]
                /\ Quiet

\* The rest of the text, flush and fsync.
\* Mutant of Flush: the text stays in the buffers.
FlushLater(e) == /\ At(e, "flushing")
                 /\ Goto(e, "written")
                 /\ Quiet
Flush(e) == /\ At(e, "flushing")
            /\ export' = [export EXCEPT ![e].pc = "written", ![e].content = "whole"]
            /\ Quiet

\* The parent, the temporary name and the destination once more.
Check(e) == /\ At(e, "written")
            /\ IF SameParent(e) /\ Intact(e) /\ Valid THEN Goto(e, "checked") ELSE Raise(e)
            /\ Quiet

\* On POSIX the destination, in the directory held, must not exist.
CheckAbsent(e) == /\ At(e, "checked")
                  /\ IF platform = "nt" \/ entry[export[e].dir] = Absent
                     THEN Goto(e, "committing") ELSE Raise(e)
                  /\ Quiet

-----------------------------------------------------------------------------
(* The commit and after *)

Place(e, d) == /\ entry' = [entry EXCEPT ![d] = e]
               /\ export' = [export EXCEPT ![e].pc = "committed", ![e].bound = d,
                                           ![e].temp = "none"]

\* linkat into the directory held, which fails when the name exists; or the rename
\* of the open file to the path, which replaces.
\* Mutant of Commit: the link replaces too.
CommitReplacing(e) == /\ At(e, "committing")
                      /\ Place(e, IF platform = "nt" THEN path ELSE export[e].dir)
                      /\ Outside
Commit(e) == /\ At(e, "committing")
             /\ IF platform = "nt" THEN Place(e, path)
                ELSE IF entry[export[e].dir] = Absent THEN Place(e, export[e].dir)
                ELSE Raise(e) /\ UNCHANGED entry
             /\ Outside

\* _require_replaced_identity
CheckPlaced(e) == /\ At(e, "committed")
                  /\ IF entry[export[e].dir] = e THEN Goto(e, "published") ELSE Raise(e)
                  /\ Quiet

Succeed(e) == export' = [export EXCEPT ![e].pc = "leaving", ![e].outcome = "ok"]
\* Mutant of Finish: the parent is not looked at again.
FinishAtOnce(e) == At(e, "published") /\ Succeed(e) /\ Quiet
Finish(e) == /\ At(e, "published")
             /\ IF SameParent(e) THEN Succeed(e) ELSE Raise(e)
             /\ Quiet

\* Any step of the operating system may fail.
SystemFails(e) == /\ Guarded(e) \/ export[e].pc \in {"opening", "locked"}
                  /\ Raise(e)
                  /\ Quiet

\* The handler: on Windows a file that was not committed is deleted, if that works.
Failed(e, temp) == export' = [export EXCEPT ![e].pc = "leaving", ![e].outcome = "failed",
                                            ![e].temp = temp]
\* Mutant of Clean: nothing is deleted.
CleanNothing(e) == At(e, "failing") /\ Failed(e, export[e].temp) /\ Quiet
Clean(e) == /\ At(e, "failing")
            /\ \/ Failed(e, "none")
               \/ export[e].temp \in {"named", "taken"} /\ Failed(e, "refused")
            /\ Quiet

Leave(e) == /\ At(e, "leaving")
            /\ export' = [export EXCEPT ![e].pc = "done", ![e].locked = FALSE]
            /\ Quiet

\* The process dies: its lock is released, and an anonymous file is gone.
Die(e) == /\ ~ At(e, "idle") /\ ~ At(e, "done") /\ ~ At(e, "dead")
          /\ export' = [export EXCEPT ![e].pc = "dead", ![e].locked = FALSE,
                           ![e].temp = IF @ = "anonymous" THEN "none" ELSE @]
          /\ Quiet

-----------------------------------------------------------------------------
(* Other programs *)

Change == changes < MaxChanges /\ changes' = changes + 1

SwapParent == /\ ~ Pinned
              /\ path' \in (Dirs \cup {NoDir}) \ {path}
              /\ Change
              /\ UNCHANGED <<platform, entry, export>>

Touch(d) == /\ \E thing \in Foreign \cup {Absent} : entry' = [entry EXCEPT ![d] = thing]
            /\ Change
            /\ UNCHANGED <<platform, path, export>>

\* The temporary name of a file comes to denote another one.
TakeName(e) == /\ export[e].temp = "named"
               /\ export' = [export EXCEPT ![e].temp = "taken"]
               /\ Change
               /\ UNCHANGED <<platform, path, entry>>

-----------------------------------------------------------------------------
Init == /\ platform \in {"posix", "nt"}
        /\ path \in Dirs
        /\ entry \in [Dirs -> Foreign \cup {Absent}]
        /\ export = [e \in Exporters |-> NewExport]
        /\ changes = 0

Step(e) == \/ Validate(e) \/ Open(e) \/ Lock(e) \/ Guard(e)
           \/ CreateTemp(e) \/ CheckTemp(e) \/ WriteSome(e) \/ Flush(e) \/ Check(e)
           \/ CheckAbsent(e) \/ Commit(e) \/ CheckPlaced(e) \/ Finish(e)
           \/ Clean(e) \/ Leave(e)
Next == \/ \E e \in Exporters : \/ Step(e) \/ LockFails(e) \/ SystemFails(e) \/ Die(e)
                                \/ TakeName(e)
        \/ SwapParent
        \/ \E d \in Dirs : Touch(d)

Spec == Init /\ [][Next]_vars

\* A process that has not died goes on; a lock that is free is granted to it, as
\* there are finitely many calls and each takes it once.
FairSpec == Spec /\ \A e \in Exporters : WF_vars(Step(e))

-----------------------------------------------------------------------------
(* Properties *)

CallType ==
    [pc : {"idle", "opening", "locking", "locked", "guarded", "created", "writing",
           "flushing", "written", "checked", "committing", "committed", "published",
           "failing", "leaving", "done", "dead"},
     dir : Dirs \cup {NoDir}, locked : BOOLEAN,
     temp : {"none", "named", "anonymous", "taken", "refused"},
     content : {"empty", "partial", "whole"}, bound : Dirs \cup {NoDir},
     outcome : {"none", "ok", "failed"}]
LockFits(e) ==
    /\ export[e].locked \/ export[e].pc \in {"opening", "locking"} => export[e].dir \in Dirs
    /\ export[e].locked => Guarded(e) \/ export[e].pc \in {"locked", "failing", "leaving"}
    /\ Guarded(e) \/ At(e, "locked") => export[e].locked
TypeOK ==
    /\ platform \in {"posix", "nt"}
    /\ path \in Dirs \cup {NoDir}
    /\ entry \in [Dirs -> Foreign \cup {Absent} \cup Exporters]
    /\ export \in [Exporters -> CallType]
    /\ changes \in 0..MaxChanges
    /\ \A e \in Exporters : LockFits(e)

(***************************************************************************)
(* A reader of the destination never sees a file of an exporter before it  *)
(* is whole and on the disk, nor in a directory it was not committed in.   *)
(***************************************************************************)
OnlyWholeFiles ==
    \A d \in Dirs : entry[d] \in Exporters =>
        /\ export[entry[d]].content = "whole"
        /\ export[entry[d]].bound = d

(***************************************************************************)
(* Between the commit of an exporter and its last check, no other exporter *)
(* puts its file in the same place.                                        *)
(***************************************************************************)
OwnersAreAlone ==
    \A e \in Exporters : export[e].pc \in {"committed", "published"} =>
        entry[export[e].dir] \notin Exporters \ {e}

(***************************************************************************)
(* export_dashboard keeps the promise of Publication: one step publishes,  *)
(* on POSIX it never replaces, nothing takes a published file back, and a  *)
(* success means a file in the directory that the path denoted at the last *)
(* look of the call (_require_same_parent), with which its return is one   *)
(* step, although others may move it between any two steps.                *)
(***************************************************************************)
Promise == INSTANCE Publication WITH
    published <- [e \in Exporters |-> export[e].bound],
    outcome <- [e \in Exporters |-> export[e].outcome]
ImplementsPublication == Promise!Spec

CleanlyDone(e) == At(e, "done") /\ export[e].temp \in {"none", "refused"}
(***************************************************************************)
(* An export that does not die ends, and leaves no temporary name unless   *)
(* the system refused to delete it.                                        *)
(***************************************************************************)
EveryExportEnds == \A e \in Exporters : ~ At(e, "idle") ~> At(e, "dead") \/ CleanlyDone(e)
=============================================================================
