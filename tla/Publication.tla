---------------------------- MODULE Publication ----------------------------
(***************************************************************************)
(* What operations/dashboard.py promises to readers of a destination: an   *)
(* export puts its file there in one step and never takes it back; on      *)
(* POSIX that step never replaces a file; and an export reports success    *)
(* only if it has put its file into the directory that the parent path of  *)
(* the destination denotes at that moment, wherever it led meanwhile.      *)
(***************************************************************************)
CONSTANTS Exporters, \* calls of export_dashboard
          Dirs,      \* directories the parent path of the destination may denote
          NoDir,     \* the parent path denotes none; a file has been put in none
          Foreign,   \* what other programs put at the destination
          Absent     \* the destination does not exist

VARIABLES platform,  \* os.name
          path,      \* the directory the parent path denotes
          entry,     \* entry[d]: what the destination's name denotes in d
          published, \* published[e]: the directory that received e's file
          outcome    \* outcome[e]: what the call of e returned

vars == <<platform, path, entry, published, outcome>>

Init == /\ platform \in {"posix", "nt"}
        /\ path \in Dirs
        /\ entry \in [Dirs -> Foreign \cup {Absent}]
        /\ published = [e \in Exporters |-> NoDir]
        /\ outcome = [e \in Exporters |-> "none"]

Publish(e, d) == /\ published[e] = NoDir /\ outcome[e] = "none"
                 /\ platform = "posix" => entry[d] = Absent
                 /\ entry' = [entry EXCEPT ![d] = e]
                 /\ published' = [published EXCEPT ![e] = d]
                 /\ UNCHANGED <<platform, path, outcome>>

Report(e, answer) == /\ outcome[e] = "none"
                     /\ answer = "ok" => published[e] # NoDir /\ published[e] = path
                     /\ outcome' = [outcome EXCEPT ![e] = answer]
                     /\ UNCHANGED <<platform, path, entry, published>>

\* Another program removes or replaces what is at the destination.
Touch(d) == /\ \E thing \in Foreign \cup {Absent} : entry' = [entry EXCEPT ![d] = thing]
            /\ UNCHANGED <<platform, path, published, outcome>>

\* Another program moves the parent directory, or puts another in its place.
SwapParent == /\ path' \in Dirs \cup {NoDir}
              /\ UNCHANGED <<platform, entry, published, outcome>>

Next == \/ \E e \in Exporters : \/ \E d \in Dirs : Publish(e, d)
                                \/ \E answer \in {"ok", "failed"} : Report(e, answer)
        \/ \E d \in Dirs : Touch(d)
        \/ SwapParent

Spec == Init /\ [][Next]_vars
=============================================================================
