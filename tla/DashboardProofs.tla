--------------------------- MODULE DashboardProofs ---------------------------
(***************************************************************************)
(* Dashboard for any number of exporters, directories and changes of other *)
(* programs: its types, its invariants, and that it implements             *)
(* Publication.                                                            *)
(***************************************************************************)
EXTENDS Dashboard, TLAPS

\* Two exporters that both hold their lock are on POSIX, in two directories.
LocksApart ==
    \A e, f \in Exporters : export[e].locked /\ export[f].locked /\ e # f =>
        platform = "posix" /\ export[e].dir # export[f].dir

\* On Windows the parent is what it was while the handles are held.
ParentPinned == platform = "nt" => \A e \in Exporters : Guarded(e) => SameParent(e)

\* What has become of the file of an exporter at each point of its call.
Uncommitted == {"idle", "opening", "locking", "locked", "guarded", "created", "writing",
                "flushing", "written", "checked", "committing"}
Placed(e) == export[e].pc \in {"committed", "published"}
FileFits(e) ==
    /\ export[e].pc \in {"written", "checked", "committing"} => export[e].content = "whole"
    /\ export[e].pc \in Uncommitted => export[e].bound = NoDir
    /\ export[e].bound # NoDir => export[e].content = "whole"
    /\ Placed(e) => export[e].bound = export[e].dir
    /\ export[e].pc \in Uncommitted \cup {"committed", "published", "failing"} =>
          export[e].outcome = "none"
Progress == \A e \in Exporters : FileFits(e)

IInv == TypeOK /\ LocksApart /\ ParentPinned /\ Progress /\ OnlyWholeFiles /\ OwnersAreAlone

USE NamesAssumption, ChangesAssumption DEF Foreign

\* The initial state is typed.
LEMMA TypeInit == Init => TypeOK
BY DEF Init, TypeOK, CallType, LockFits, NewExport, Guarded, At

\* A call that has died holds nothing but a named file.
LEMMA DeadCalls ==
  ASSUME NEW c \in CallType
  PROVE  [c EXCEPT !.pc = "dead", !.locked = FALSE,
                   !.temp = IF @ = "anonymous" THEN "none" ELSE @] \in CallType
<1>1. (IF c.temp = "anonymous" THEN "none" ELSE c.temp)
        \in {"none", "named", "anonymous", "taken", "refused"}
  BY DEF CallType
<1> DEFINE t == IF c.temp = "anonymous" THEN "none" ELSE c.temp
<1> HIDE DEF t
<1>2. t \in {"none", "named", "anonymous", "taken", "refused"}
  BY <1>1 DEF t
<1>3. [c EXCEPT !.pc = "dead", !.locked = FALSE, !.temp = t] \in CallType
  BY <1>2 DEF CallType
<1> QED
  BY <1>3 DEF t

\* The temporary file is named on one platform and anonymous on the other.
LEMMA CreatedCalls ==
  ASSUME NEW c \in CallType
  PROVE  [c EXCEPT !.pc = "created",
                   !.temp = IF platform = "nt" THEN "named" ELSE "anonymous"] \in CallType
<1> DEFINE t == IF platform = "nt" THEN "named" ELSE "anonymous"
<1>1. t \in {"none", "named", "anonymous", "taken", "refused"}
  OBVIOUS
<1> HIDE DEF t
<1>2. [c EXCEPT !.pc = "created", !.temp = t] \in CallType
  BY <1>1 DEF CallType
<1> QED
  BY <1>2 DEF t

\* Every step keeps the types.
LEMMA TypeKept == TypeOK /\ [Next]_vars => TypeOK'
<1> SUFFICES ASSUME TypeOK, [Next]_vars
             PROVE  TypeOK'
  OBVIOUS
<1> USE DEF TypeOK, At, Goto, Raise, Quiet, Outside
<1>1. ASSUME NEW e \in Exporters, Validate(e)
      PROVE  TypeOK'
  <2>1. export' \in [Exporters -> CallType]
    <3>1. export[e] \in CallType
      BY <1>1 DEF Validate
    <3> DEFINE locking == [export[e] EXCEPT !.dir = path, !.pc = "locking"]
               opening == [export[e] EXCEPT !.dir = path, !.pc = "opening"]
               failing == [export[e] EXCEPT !.pc = "failing"]
    <3>2. path \in Dirs => locking \in CallType /\ opening \in CallType
      BY <3>1 DEF CallType
    <3>3. failing \in CallType
      BY <3>1 DEF CallType
    <3>4. \/ /\ path \in Dirs
             /\ \E c \in {locking, opening} : export' = [export EXCEPT ![e] = c]
          \/ export' = [export EXCEPT ![e] = failing]
      BY <1>1 DEF Validate, Valid
    <3> HIDE DEF locking, opening, failing
    <3>5. \E c \in CallType : export' = [export EXCEPT ![e] = c]
      BY ONLY <3>2, <3>3, <3>4
    <3> QED
      BY <3>5
  <2>2. ASSUME NEW f \in Exporters
        PROVE  LockFits(f)'
    BY <1>1 DEF Validate, Valid, CallType, LockFits, Guarded
  <2> QED
    BY <1>1, <2>1, <2>2 DEF Validate, Valid
<1>2. ASSUME NEW e \in Exporters, Open(e)
      PROVE  TypeOK'
  <2>1. export' \in [Exporters -> CallType]
    BY <1>2 DEF Open, SameParent, CallType
  <2>2. ASSUME NEW f \in Exporters
        PROVE  LockFits(f)'
    BY <1>2 DEF Open, SameParent, CallType, LockFits, Guarded
  <2> QED
    BY <1>2, <2>1, <2>2 DEF Open, SameParent
<1>3. ASSUME NEW e \in Exporters, Lock(e)
      PROVE  TypeOK'
  <2>1. export' \in [Exporters -> CallType]
    BY <1>3 DEF Lock, CallType
  <2>2. ASSUME NEW f \in Exporters
        PROVE  LockFits(f)'
    BY <1>3 DEF Lock, CallType, LockFits, Guarded
  <2> QED
    BY <1>3, <2>1, <2>2 DEF Lock
<1>4. ASSUME NEW e \in Exporters, LockFails(e)
      PROVE  TypeOK'
  <2>1. export' \in [Exporters -> CallType]
    BY <1>4 DEF LockFails, CallType
  <2>2. ASSUME NEW f \in Exporters
        PROVE  LockFits(f)'
    BY <1>4 DEF LockFails, CallType, LockFits, Guarded
  <2> QED
    BY <1>4, <2>1, <2>2 DEF LockFails
<1>5. ASSUME NEW e \in Exporters, Guard(e)
      PROVE  TypeOK'
  <2>1. export' \in [Exporters -> CallType]
    <3>1. export[e] \in CallType
      BY <1>5 DEF Guard
    <3>2. /\ [export[e] EXCEPT !.pc = "guarded"] \in CallType
          /\ [export[e] EXCEPT !.pc = "failing"] \in CallType
      BY <3>1 DEF CallType
    <3>3. \/ export' = [export EXCEPT ![e] = [@ EXCEPT !.pc = "guarded"]]
          \/ export' = [export EXCEPT ![e] = [@ EXCEPT !.pc = "failing"]]
      BY <1>5 DEF Guard
    <3> QED
      BY <3>2, <3>3
  <2>2. ASSUME NEW f \in Exporters
        PROVE  LockFits(f)'
    BY <1>5 DEF Guard, SameParent, CallType, LockFits, Guarded
  <2> QED
    BY <1>5, <2>1, <2>2 DEF Guard, SameParent
<1>6. ASSUME NEW e \in Exporters, CreateTemp(e)
      PROVE  TypeOK'
  <2>1. export' \in [Exporters -> CallType]
    <3>1. export[e] \in CallType
      OBVIOUS
    <3>2. [export[e] EXCEPT !.pc = "created",
                         !.temp = IF platform = "nt" THEN "named" ELSE "anonymous"] \in CallType
      BY <3>1, CreatedCalls
    <3> QED
      BY <1>6, <3>2 DEF CreateTemp
  <2>2. ASSUME NEW f \in Exporters
        PROVE  LockFits(f)'
    <3>1. export[e] \in CallType
      OBVIOUS
    <3>2. [export[e] EXCEPT !.pc = "created",
                         !.temp = IF platform = "nt" THEN "named" ELSE "anonymous"] \in CallType
      BY <3>1, CreatedCalls
    <3> QED
      BY <1>6, <3>2 DEF CreateTemp, LockFits, Guarded
  <2> QED
    BY <1>6, <2>1, <2>2 DEF CreateTemp
<1>7. ASSUME NEW e \in Exporters, CheckTemp(e)
      PROVE  TypeOK'
  <2>1. export' \in [Exporters -> CallType]
    BY <1>7 DEF CheckTemp, CallType
  <2>2. ASSUME NEW f \in Exporters
        PROVE  LockFits(f)'
    BY <1>7 DEF CheckTemp, CallType, LockFits, Guarded
  <2> QED
    BY <1>7, <2>1, <2>2 DEF CheckTemp
<1>8. ASSUME NEW e \in Exporters, WriteSome(e)
      PROVE  TypeOK'
  <2>1. export' \in [Exporters -> CallType]
    <3>1. export[e] \in CallType
      OBVIOUS
    <3>2. [export[e] EXCEPT !.pc = "flushing", !.content = "partial"] \in CallType
      BY <3>1 DEF CallType
    <3> QED
      BY <1>8, <3>2 DEF WriteSome
  <2>2. ASSUME NEW f \in Exporters
        PROVE  LockFits(f)'
    <3>1. export[e] \in CallType
      OBVIOUS
    <3>2. [export[e] EXCEPT !.pc = "flushing", !.content = "partial"] \in CallType
      BY <3>1 DEF CallType
    <3> QED
      BY <1>8, <3>2 DEF WriteSome, LockFits, Guarded
  <2> QED
    BY <1>8, <2>1, <2>2 DEF WriteSome
<1>9. ASSUME NEW e \in Exporters, Flush(e)
      PROVE  TypeOK'
  <2>1. export' \in [Exporters -> CallType]
    <3>1. export[e] \in CallType
      OBVIOUS
    <3>2. [export[e] EXCEPT !.pc = "written", !.content = "whole"] \in CallType
      BY <3>1 DEF CallType
    <3> QED
      BY <1>9, <3>2 DEF Flush
  <2>2. ASSUME NEW f \in Exporters
        PROVE  LockFits(f)'
    <3>1. export[e] \in CallType
      OBVIOUS
    <3>2. [export[e] EXCEPT !.pc = "written", !.content = "whole"] \in CallType
      BY <3>1 DEF CallType
    <3> QED
      BY <1>9, <3>2 DEF Flush, LockFits, Guarded
  <2> QED
    BY <1>9, <2>1, <2>2 DEF Flush
<1>10. ASSUME NEW e \in Exporters, Check(e)
      PROVE  TypeOK'
  <2>1. export' \in [Exporters -> CallType]
    BY <1>10 DEF Check, CallType
  <2>2. ASSUME NEW f \in Exporters
        PROVE  LockFits(f)'
    BY <1>10 DEF Check, CallType, LockFits, Guarded
  <2> QED
    BY <1>10, <2>1, <2>2 DEF Check
<1>11. ASSUME NEW e \in Exporters, CheckAbsent(e)
      PROVE  TypeOK'
  <2>1. export' \in [Exporters -> CallType]
    <3>1. export[e] \in CallType
      BY <1>11 DEF CheckAbsent
    <3>2. /\ [export[e] EXCEPT !.pc = "committing"] \in CallType
          /\ [export[e] EXCEPT !.pc = "failing"] \in CallType
      BY <3>1 DEF CallType
    <3>3. \/ export' = [export EXCEPT ![e] = [@ EXCEPT !.pc = "committing"]]
          \/ export' = [export EXCEPT ![e] = [@ EXCEPT !.pc = "failing"]]
      BY <1>11 DEF CheckAbsent
    <3> QED
      BY <3>2, <3>3
  <2>2. ASSUME NEW f \in Exporters
        PROVE  LockFits(f)'
    BY <1>11 DEF CheckAbsent, CallType, LockFits, Guarded
  <2> QED
    BY <1>11, <2>1, <2>2 DEF CheckAbsent
<1>12. ASSUME NEW e \in Exporters, Commit(e)
      PROVE  TypeOK'
  <2>1. export' \in [Exporters -> CallType]
    BY <1>12 DEF Commit, Place, CallType
  <2>2. ASSUME NEW f \in Exporters
        PROVE  LockFits(f)'
    BY <1>12 DEF Commit, Place, CallType, LockFits, Guarded
  <2> QED
    BY <1>12, <2>1, <2>2 DEF Commit, Place
<1>13. ASSUME NEW e \in Exporters, CheckPlaced(e)
      PROVE  TypeOK'
  <2>1. export' \in [Exporters -> CallType]
    <3>1. export[e] \in CallType
      BY <1>13 DEF CheckPlaced
    <3>2. /\ [export[e] EXCEPT !.pc = "published"] \in CallType
          /\ [export[e] EXCEPT !.pc = "failing"] \in CallType
      BY <3>1 DEF CallType
    <3>3. \/ export' = [export EXCEPT ![e] = [@ EXCEPT !.pc = "published"]]
          \/ export' = [export EXCEPT ![e] = [@ EXCEPT !.pc = "failing"]]
      BY <1>13 DEF CheckPlaced
    <3> QED
      BY <3>2, <3>3
  <2>2. ASSUME NEW f \in Exporters
        PROVE  LockFits(f)'
    BY <1>13 DEF CheckPlaced, CallType, LockFits, Guarded
  <2> QED
    BY <1>13, <2>1, <2>2 DEF CheckPlaced
<1>14. ASSUME NEW e \in Exporters, Finish(e)
      PROVE  TypeOK'
  <2>1. export' \in [Exporters -> CallType]
    BY <1>14 DEF Finish, Succeed, CallType
  <2>2. ASSUME NEW f \in Exporters
        PROVE  LockFits(f)'
    BY <1>14 DEF Finish, Succeed, CallType, LockFits, Guarded
  <2> QED
    BY <1>14, <2>1, <2>2 DEF Finish, Succeed
<1>15. ASSUME NEW e \in Exporters, SystemFails(e)
      PROVE  TypeOK'
  <2>1. export' \in [Exporters -> CallType]
    BY <1>15 DEF SystemFails, CallType
  <2>2. ASSUME NEW f \in Exporters
        PROVE  LockFits(f)'
    BY <1>15 DEF SystemFails, CallType, LockFits, Guarded
  <2> QED
    BY <1>15, <2>1, <2>2 DEF SystemFails
<1>16. ASSUME NEW e \in Exporters, Clean(e)
      PROVE  TypeOK'
  <2>1. export' \in [Exporters -> CallType]
    BY <1>16 DEF Clean, Failed, CallType
  <2>2. ASSUME NEW f \in Exporters
        PROVE  LockFits(f)'
    BY <1>16 DEF Clean, Failed, CallType, LockFits, Guarded
  <2> QED
    BY <1>16, <2>1, <2>2 DEF Clean, Failed
<1>17. ASSUME NEW e \in Exporters, Leave(e)
      PROVE  TypeOK'
  <2>1. export' \in [Exporters -> CallType]
    <3>1. export[e] \in CallType
      OBVIOUS
    <3>2. [export[e] EXCEPT !.pc = "done", !.locked = FALSE] \in CallType
      BY <3>1 DEF CallType
    <3> QED
      BY <1>17, <3>2 DEF Leave
  <2>2. ASSUME NEW f \in Exporters
        PROVE  LockFits(f)'
    <3>1. export[e] \in CallType
      OBVIOUS
    <3>2. [export[e] EXCEPT !.pc = "done", !.locked = FALSE] \in CallType
      BY <3>1 DEF CallType
    <3> QED
      BY <1>17, <3>2 DEF Leave, LockFits, Guarded
  <2> QED
    BY <1>17, <2>1, <2>2 DEF Leave
<1>18. ASSUME NEW e \in Exporters, Die(e)
      PROVE  TypeOK'
  <2>1. export' \in [Exporters -> CallType]
    <3>1. export[e] \in CallType
      OBVIOUS
    <3>2. [export[e] EXCEPT !.pc = "dead", !.locked = FALSE,
                         !.temp = IF @ = "anonymous" THEN "none" ELSE @] \in CallType
      BY <3>1, DeadCalls
    <3> QED
      BY <1>18, <3>2 DEF Die
  <2>2. ASSUME NEW f \in Exporters
        PROVE  LockFits(f)'
    <3>1. export[e] \in CallType
      OBVIOUS
    <3>2. [export[e] EXCEPT !.pc = "dead", !.locked = FALSE,
                         !.temp = IF @ = "anonymous" THEN "none" ELSE @] \in CallType
      BY <3>1, DeadCalls
    <3> QED
      BY <1>18, <3>2 DEF Die, LockFits, Guarded
  <2> QED
    BY <1>18, <2>1, <2>2 DEF Die
<1>19. ASSUME NEW e \in Exporters, TakeName(e)
      PROVE  TypeOK'
  <2>1. export' \in [Exporters -> CallType]
    BY <1>19 DEF TakeName, Change, CallType
  <2>2. ASSUME NEW f \in Exporters
        PROVE  LockFits(f)'
    BY <1>19 DEF TakeName, Change, CallType, LockFits, Guarded
  <2> QED
    BY <1>19, <2>1, <2>2 DEF TakeName, Change
<1>20. CASE SwapParent \/ \E d \in Dirs : Touch(d)
  BY <1>20 DEF SwapParent, Touch, Change, LockFits, Guarded
<1>21. CASE UNCHANGED vars
  BY <1>21 DEF vars, LockFits, Guarded
<1> QED
  BY <1>1, <1>2, <1>3, <1>4, <1>5, <1>6, <1>7, <1>8, <1>9, <1>10, <1>11, <1>12, <1>13, <1>14, <1>15, <1>16, <1>17, <1>18, <1>19, <1>20, <1>21 DEF Next, Step

\* No step gives two exporters the lock of one directory.
LEMMA LocksKept == TypeOK /\ LocksApart /\ [Next]_vars => LocksApart'
<1> SUFFICES ASSUME TypeOK /\ LocksApart, [Next]_vars
             PROVE  LocksApart'
  OBVIOUS
<1> USE DEF TypeOK, CallType, LocksApart, LockFits, At, Goto, Raise, Quiet, Outside
<1>1. ASSUME NEW e \in Exporters, Validate(e)
      PROVE  LocksApart'
  BY <1>1 DEF Validate, Valid
<1>2. ASSUME NEW e \in Exporters, Open(e)
      PROVE  LocksApart'
  BY <1>2 DEF Open, SameParent
<1>3. ASSUME NEW e \in Exporters, Lock(e)
      PROVE  LocksApart'
  BY <1>3 DEF Lock, Contended
<1>4. ASSUME NEW e \in Exporters, LockFails(e)
      PROVE  LocksApart'
  BY <1>4 DEF LockFails
<1>5. ASSUME NEW e \in Exporters, Guard(e)
      PROVE  LocksApart'
  BY <1>5 DEF Guard, SameParent
<1>6. ASSUME NEW e \in Exporters, CreateTemp(e)
      PROVE  LocksApart'
  BY <1>6 DEF CreateTemp
<1>7. ASSUME NEW e \in Exporters, CheckTemp(e)
      PROVE  LocksApart'
  BY <1>7 DEF CheckTemp, Intact, SameParent
<1>8. ASSUME NEW e \in Exporters, WriteSome(e)
      PROVE  LocksApart'
  BY <1>8 DEF WriteSome
<1>9. ASSUME NEW e \in Exporters, Flush(e)
      PROVE  LocksApart'
  BY <1>9 DEF Flush
<1>10. ASSUME NEW e \in Exporters, Check(e)
      PROVE  LocksApart'
  BY <1>10 DEF Check, Intact, SameParent, Valid
<1>11. ASSUME NEW e \in Exporters, CheckAbsent(e)
      PROVE  LocksApart'
  BY <1>11 DEF CheckAbsent
<1>12. ASSUME NEW e \in Exporters, Commit(e)
      PROVE  LocksApart'
  BY <1>12 DEF Commit, Place
<1>13. ASSUME NEW e \in Exporters, CheckPlaced(e)
      PROVE  LocksApart'
  BY <1>13 DEF CheckPlaced
<1>14. ASSUME NEW e \in Exporters, Finish(e)
      PROVE  LocksApart'
  BY <1>14 DEF Finish, Succeed, SameParent
<1>15. ASSUME NEW e \in Exporters, SystemFails(e)
      PROVE  LocksApart'
  BY <1>15 DEF SystemFails, Guarded
<1>16. ASSUME NEW e \in Exporters, Clean(e)
      PROVE  LocksApart'
  BY <1>16 DEF Clean, Failed
<1>17. ASSUME NEW e \in Exporters, Leave(e)
      PROVE  LocksApart'
  BY <1>17 DEF Leave
<1>18. ASSUME NEW e \in Exporters, Die(e)
      PROVE  LocksApart'
  BY <1>18 DEF Die
<1>19. ASSUME NEW e \in Exporters, TakeName(e)
      PROVE  LocksApart'
  BY <1>19 DEF TakeName, Change
<1>20. CASE SwapParent \/ \E d \in Dirs : Touch(d)
  BY <1>20 DEF SwapParent, Touch, Change
<1>21. CASE UNCHANGED vars
  BY <1>21 DEF vars
<1> QED
  BY <1>1, <1>2, <1>3, <1>4, <1>5, <1>6, <1>7, <1>8, <1>9, <1>10, <1>11, <1>12, <1>13, <1>14, <1>15, <1>16, <1>17, <1>18, <1>19, <1>20, <1>21 DEF Next, Step

\* On Windows the parent stays what it is while the handles are held.
LEMMA ParentKept == TypeOK /\ ParentPinned /\ [Next]_vars => ParentPinned'
<1> SUFFICES ASSUME TypeOK /\ ParentPinned, [Next]_vars
             PROVE  ParentPinned'
  OBVIOUS
<1> USE DEF TypeOK, CallType, ParentPinned, LockFits, Guarded, SameParent, Pinned, At, Goto, Raise, Quiet, Outside
<1>1. ASSUME NEW e \in Exporters, Validate(e)
      PROVE  ParentPinned'
  BY <1>1 DEF Validate, Valid
<1>2. ASSUME NEW e \in Exporters, Open(e)
      PROVE  ParentPinned'
  BY <1>2 DEF Open
<1>3. ASSUME NEW e \in Exporters, Lock(e)
      PROVE  ParentPinned'
  BY <1>3 DEF Lock, Contended
<1>4. ASSUME NEW e \in Exporters, LockFails(e)
      PROVE  ParentPinned'
  BY <1>4 DEF LockFails
<1>5. ASSUME NEW e \in Exporters, Guard(e)
      PROVE  ParentPinned'
  BY <1>5 DEF Guard
<1>6. ASSUME NEW e \in Exporters, CreateTemp(e)
      PROVE  ParentPinned'
  BY <1>6 DEF CreateTemp
<1>7. ASSUME NEW e \in Exporters, CheckTemp(e)
      PROVE  ParentPinned'
  BY <1>7 DEF CheckTemp, Intact
<1>8. ASSUME NEW e \in Exporters, WriteSome(e)
      PROVE  ParentPinned'
  BY <1>8 DEF WriteSome
<1>9. ASSUME NEW e \in Exporters, Flush(e)
      PROVE  ParentPinned'
  BY <1>9 DEF Flush
<1>10. ASSUME NEW e \in Exporters, Check(e)
      PROVE  ParentPinned'
  BY <1>10 DEF Check, Intact, Valid
<1>11. ASSUME NEW e \in Exporters, CheckAbsent(e)
      PROVE  ParentPinned'
  BY <1>11 DEF CheckAbsent
<1>12. ASSUME NEW e \in Exporters, Commit(e)
      PROVE  ParentPinned'
  BY <1>12 DEF Commit, Place
<1>13. ASSUME NEW e \in Exporters, CheckPlaced(e)
      PROVE  ParentPinned'
  BY <1>13 DEF CheckPlaced
<1>14. ASSUME NEW e \in Exporters, Finish(e)
      PROVE  ParentPinned'
  BY <1>14 DEF Finish, Succeed
<1>15. ASSUME NEW e \in Exporters, SystemFails(e)
      PROVE  ParentPinned'
  BY <1>15 DEF SystemFails
<1>16. ASSUME NEW e \in Exporters, Clean(e)
      PROVE  ParentPinned'
  BY <1>16 DEF Clean, Failed
<1>17. ASSUME NEW e \in Exporters, Leave(e)
      PROVE  ParentPinned'
  BY <1>17 DEF Leave
<1>18. ASSUME NEW e \in Exporters, Die(e)
      PROVE  ParentPinned'
  BY <1>18 DEF Die
<1>19. ASSUME NEW e \in Exporters, TakeName(e)
      PROVE  ParentPinned'
  BY <1>19 DEF TakeName, Change
<1>20. CASE SwapParent \/ \E d \in Dirs : Touch(d)
  BY <1>20 DEF SwapParent, Touch, Change
<1>21. CASE UNCHANGED vars
  BY <1>21 DEF vars
<1> QED
  BY <1>1, <1>2, <1>3, <1>4, <1>5, <1>6, <1>7, <1>8, <1>9, <1>10, <1>11, <1>12, <1>13, <1>14, <1>15, <1>16, <1>17, <1>18, <1>19, <1>20, <1>21 DEF Next, Step

\* Where the file of an exporter goes is its directory, on Windows too.
LEMMA CommitPlaces ==
  ASSUME TypeOK, ParentPinned, NEW e \in Exporters, Commit(e)
  PROVE  /\ export[e].dir \in Dirs
         /\ At(e, "committing")
         /\ \/ Place(e, export[e].dir) /\ (platform = "posix" => entry[export[e].dir] = Absent)
            \/ Raise(e) /\ UNCHANGED entry
         /\ Outside
BY DEF Commit, TypeOK, LockFits, ParentPinned, Guarded, SameParent, At

\* A call has of its temporary file what its place in the code says.
LEMMA ProgressKept == TypeOK /\ ParentPinned /\ Progress /\ [Next]_vars => Progress'
<1> SUFFICES ASSUME TypeOK /\ ParentPinned /\ Progress, [Next]_vars
             PROVE  Progress'
  OBVIOUS
<1> USE DEF TypeOK, CallType, Progress, FileFits, Uncommitted, Placed, At, Goto, Raise, Quiet, Outside
<1>1. ASSUME NEW e \in Exporters, Validate(e)
      PROVE  Progress'
  BY <1>1 DEF Validate, Valid
<1>2. ASSUME NEW e \in Exporters, Open(e)
      PROVE  Progress'
  BY <1>2 DEF Open, SameParent
<1>3. ASSUME NEW e \in Exporters, Lock(e)
      PROVE  Progress'
  BY <1>3 DEF Lock, Contended
<1>4. ASSUME NEW e \in Exporters, LockFails(e)
      PROVE  Progress'
  BY <1>4 DEF LockFails
<1>5. ASSUME NEW e \in Exporters, Guard(e)
      PROVE  Progress'
  BY <1>5 DEF Guard, SameParent
<1>6. ASSUME NEW e \in Exporters, CreateTemp(e)
      PROVE  Progress'
  BY <1>6 DEF CreateTemp
<1>7. ASSUME NEW e \in Exporters, CheckTemp(e)
      PROVE  Progress'
  BY <1>7 DEF CheckTemp, Intact, SameParent
<1>8. ASSUME NEW e \in Exporters, WriteSome(e)
      PROVE  Progress'
  BY <1>8 DEF WriteSome
<1>9. ASSUME NEW e \in Exporters, Flush(e)
      PROVE  Progress'
  BY <1>9 DEF Flush
<1>10. ASSUME NEW e \in Exporters, Check(e)
      PROVE  Progress'
  BY <1>10 DEF Check, Intact, SameParent, Valid
<1>11. ASSUME NEW e \in Exporters, CheckAbsent(e)
      PROVE  Progress'
  BY <1>11 DEF CheckAbsent
<1>12. ASSUME NEW e \in Exporters, Commit(e)
      PROVE  Progress'
  <2>1. CASE Place(e, export[e].dir) /\ (platform = "posix" => entry[export[e].dir] = Absent)
             /\ Outside
    <3>1. ASSUME NEW f \in Exporters, f # e
          PROVE  FileFits(f)'
      BY <2>1, <3>1 DEF Place
    <3>2. FileFits(e)'
      <4>1. export'[e] = [export[e] EXCEPT !.pc = "committed", !.bound = export[e].dir,
                                           !.temp = "none"]
        BY <2>1 DEF Place
      <4>2. export[e] \in CallType /\ FileFits(e) /\ At(e, "committing")
        BY <1>12, CommitPlaces
      <4> QED
        BY <4>1, <4>2
    <3> QED
      BY <3>1, <3>2
  <2>2. CASE Raise(e) /\ Quiet
    <3>1. export[e] \in CallType /\ FileFits(e) /\ At(e, "committing")
      BY <1>12, CommitPlaces
    <3>2. ASSUME NEW f \in Exporters
          PROVE  FileFits(f)'
      BY <2>2, <3>1, <3>2
    <3> QED
      BY <3>2
  <2> QED
    BY <1>12, <2>1, <2>2, CommitPlaces
<1>13. ASSUME NEW e \in Exporters, CheckPlaced(e)
      PROVE  Progress'
  <2>1. export[e] \in CallType /\ FileFits(e) /\ At(e, "committed")
    BY <1>13 DEF CheckPlaced
  <2>2. ASSUME NEW f \in Exporters
        PROVE  FileFits(f)'
    <3>1. CASE f # e
      <4>1. export'[f] = export[f] /\ FileFits(f)
        BY <1>13, <2>2, <3>1 DEF CheckPlaced
      <4> QED
        BY ONLY <4>1 DEF FileFits, Uncommitted, Placed
    <3>2. CASE f = e
      <4>1. \E label \in {"published", "failing"} : export'[e] = [export[e] EXCEPT !.pc = label]
        BY <1>13 DEF CheckPlaced
      <4> QED
        BY ONLY <2>1, <3>2, <4>1 DEF FileFits, Uncommitted, Placed, CallType, At
    <3> QED
      BY ONLY <3>1, <3>2
  <2> QED
    BY ONLY <2>2 DEF Progress
<1>14. ASSUME NEW e \in Exporters, Finish(e)
      PROVE  Progress'
  <2>1. export[e] \in CallType /\ FileFits(e) /\ At(e, "published")
    BY <1>14 DEF Finish
  <2>2. \/ export'[e] = [export[e] EXCEPT !.pc = "leaving", !.outcome = "ok"]
        \/ export'[e] = [export[e] EXCEPT !.pc = "failing"]
    BY <1>14 DEF Finish, Succeed
  <2>3. FileFits(e)'
    BY ONLY <2>1, <2>2 DEF FileFits, Uncommitted, Placed, CallType, At
  <2>4. ASSUME NEW f \in Exporters, f # e
        PROVE  FileFits(f)'
    <3>1. export'[f] = export[f] /\ FileFits(f)
      BY <1>14, <2>4 DEF Finish, Succeed
    <3> QED
      BY ONLY <3>1 DEF FileFits, Uncommitted, Placed
  <2> QED
    BY ONLY <2>3, <2>4 DEF Progress
<1>15. ASSUME NEW e \in Exporters, SystemFails(e)
      PROVE  Progress'
  BY <1>15 DEF SystemFails, Guarded
<1>16. ASSUME NEW e \in Exporters, Clean(e)
      PROVE  Progress'
  BY <1>16 DEF Clean, Failed
<1>17. ASSUME NEW e \in Exporters, Leave(e)
      PROVE  Progress'
  BY <1>17 DEF Leave
<1>18. ASSUME NEW e \in Exporters, Die(e)
      PROVE  Progress'
  BY <1>18 DEF Die
<1>19. ASSUME NEW e \in Exporters, TakeName(e)
      PROVE  Progress'
  BY <1>19 DEF TakeName, Change
<1>20. CASE SwapParent \/ \E d \in Dirs : Touch(d)
  BY <1>20 DEF SwapParent, Touch, Change
<1>21. CASE UNCHANGED vars
  BY <1>21 DEF vars
<1> QED
  BY <1>1, <1>2, <1>3, <1>4, <1>5, <1>6, <1>7, <1>8, <1>9, <1>10, <1>11, <1>12, <1>13, <1>14, <1>15, <1>16, <1>17, <1>18, <1>19, <1>20, <1>21 DEF Next, Step

\* No step leaves part of a file under the exported name.
LEMMA WholeKept == TypeOK /\ ParentPinned /\ Progress /\ OnlyWholeFiles /\ [Next]_vars => OnlyWholeFiles'
<1> SUFFICES ASSUME TypeOK /\ ParentPinned /\ Progress /\ OnlyWholeFiles, [Next]_vars
             PROVE  OnlyWholeFiles'
  OBVIOUS
<1> USE DEF TypeOK, CallType, Progress, FileFits, Uncommitted, OnlyWholeFiles, At, Goto, Raise, Quiet, Outside
<1>1. ASSUME NEW e \in Exporters, Validate(e)
      PROVE  OnlyWholeFiles'
  BY <1>1 DEF Validate, Valid
<1>2. ASSUME NEW e \in Exporters, Open(e)
      PROVE  OnlyWholeFiles'
  BY <1>2 DEF Open, SameParent
<1>3. ASSUME NEW e \in Exporters, Lock(e)
      PROVE  OnlyWholeFiles'
  BY <1>3 DEF Lock, Contended
<1>4. ASSUME NEW e \in Exporters, LockFails(e)
      PROVE  OnlyWholeFiles'
  BY <1>4 DEF LockFails
<1>5. ASSUME NEW e \in Exporters, Guard(e)
      PROVE  OnlyWholeFiles'
  BY <1>5 DEF Guard, SameParent
<1>6. ASSUME NEW e \in Exporters, CreateTemp(e)
      PROVE  OnlyWholeFiles'
  BY <1>6 DEF CreateTemp
<1>7. ASSUME NEW e \in Exporters, CheckTemp(e)
      PROVE  OnlyWholeFiles'
  BY <1>7 DEF CheckTemp, Intact, SameParent
<1>8. ASSUME NEW e \in Exporters, WriteSome(e)
      PROVE  OnlyWholeFiles'
  BY <1>8 DEF WriteSome
<1>9. ASSUME NEW e \in Exporters, Flush(e)
      PROVE  OnlyWholeFiles'
  BY <1>9 DEF Flush
<1>10. ASSUME NEW e \in Exporters, Check(e)
      PROVE  OnlyWholeFiles'
  BY <1>10 DEF Check, Intact, SameParent, Valid
<1>11. ASSUME NEW e \in Exporters, CheckAbsent(e)
      PROVE  OnlyWholeFiles'
  BY <1>11 DEF CheckAbsent
<1>12. ASSUME NEW e \in Exporters, Commit(e)
      PROVE  OnlyWholeFiles'
  <2>1. CASE Place(e, export[e].dir) /\ (platform = "posix" => entry[export[e].dir] = Absent)
             /\ Outside
    <3>1. export[e].dir \in Dirs /\ At(e, "committing") /\ FileFits(e)
      BY <1>12, CommitPlaces
    <3>2. ASSUME NEW d \in Dirs, entry'[d] \in Exporters
          PROVE  export'[entry'[d]].content = "whole" /\ export'[entry'[d]].bound = d
      <4>1. CASE d = export[e].dir
        BY <2>1, <3>1, <4>1 DEF Place
      <4>2. CASE d # export[e].dir
        <5>1. entry'[d] = entry[d] /\ export[entry[d]].bound = d /\ entry[d] \in Exporters
          BY <2>1, <3>2, <4>2 DEF Place
        <5>2. entry[d] # e
          BY <3>1, <5>1
        <5> QED
          BY <2>1, <5>1, <5>2 DEF Place
      <4> QED
        BY <4>1, <4>2
    <3> QED
      BY <3>2
  <2>2. CASE Raise(e) /\ Quiet
    BY <1>12, <2>2
  <2> QED
    BY <1>12, <2>1, <2>2, CommitPlaces
<1>13. ASSUME NEW e \in Exporters, CheckPlaced(e)
      PROVE  OnlyWholeFiles'
  BY <1>13 DEF CheckPlaced
<1>14. ASSUME NEW e \in Exporters, Finish(e)
      PROVE  OnlyWholeFiles'
  BY <1>14 DEF Finish, Succeed, SameParent
<1>15. ASSUME NEW e \in Exporters, SystemFails(e)
      PROVE  OnlyWholeFiles'
  BY <1>15 DEF SystemFails, Guarded
<1>16. ASSUME NEW e \in Exporters, Clean(e)
      PROVE  OnlyWholeFiles'
  BY <1>16 DEF Clean, Failed
<1>17. ASSUME NEW e \in Exporters, Leave(e)
      PROVE  OnlyWholeFiles'
  BY <1>17 DEF Leave
<1>18. ASSUME NEW e \in Exporters, Die(e)
      PROVE  OnlyWholeFiles'
  BY <1>18 DEF Die
<1>19. ASSUME NEW e \in Exporters, TakeName(e)
      PROVE  OnlyWholeFiles'
  BY <1>19 DEF TakeName, Change
<1>20. CASE SwapParent \/ \E d \in Dirs : Touch(d)
  BY <1>20 DEF SwapParent, Touch, Change
<1>21. CASE UNCHANGED vars
  BY <1>21 DEF vars
<1> QED
  BY <1>1, <1>2, <1>3, <1>4, <1>5, <1>6, <1>7, <1>8, <1>9, <1>10, <1>11, <1>12, <1>13, <1>14, <1>15, <1>16, <1>17, <1>18, <1>19, <1>20, <1>21 DEF Next, Step

\* No step puts another file where an exporter has just put its own.
LEMMA AloneKept == TypeOK /\ LocksApart /\ ParentPinned /\ OwnersAreAlone /\ [Next]_vars => OwnersAreAlone'
<1> SUFFICES ASSUME TypeOK /\ LocksApart /\ ParentPinned /\ OwnersAreAlone, [Next]_vars
             PROVE  OwnersAreAlone'
  OBVIOUS
<1> USE DEF TypeOK, CallType, LocksApart, LockFits, Guarded, OwnersAreAlone, At, Goto, Raise, Quiet, Outside
<1>1. ASSUME NEW e \in Exporters, Validate(e)
      PROVE  OwnersAreAlone'
  BY <1>1 DEF Validate, Valid
<1>2. ASSUME NEW e \in Exporters, Open(e)
      PROVE  OwnersAreAlone'
  BY <1>2 DEF Open, SameParent
<1>3. ASSUME NEW e \in Exporters, Lock(e)
      PROVE  OwnersAreAlone'
  BY <1>3 DEF Lock, Contended
<1>4. ASSUME NEW e \in Exporters, LockFails(e)
      PROVE  OwnersAreAlone'
  BY <1>4 DEF LockFails
<1>5. ASSUME NEW e \in Exporters, Guard(e)
      PROVE  OwnersAreAlone'
  BY <1>5 DEF Guard, SameParent
<1>6. ASSUME NEW e \in Exporters, CreateTemp(e)
      PROVE  OwnersAreAlone'
  BY <1>6 DEF CreateTemp
<1>7. ASSUME NEW e \in Exporters, CheckTemp(e)
      PROVE  OwnersAreAlone'
  BY <1>7 DEF CheckTemp, Intact, SameParent
<1>8. ASSUME NEW e \in Exporters, WriteSome(e)
      PROVE  OwnersAreAlone'
  BY <1>8 DEF WriteSome
<1>9. ASSUME NEW e \in Exporters, Flush(e)
      PROVE  OwnersAreAlone'
  BY <1>9 DEF Flush
<1>10. ASSUME NEW e \in Exporters, Check(e)
      PROVE  OwnersAreAlone'
  BY <1>10 DEF Check, Intact, SameParent, Valid
<1>11. ASSUME NEW e \in Exporters, CheckAbsent(e)
      PROVE  OwnersAreAlone'
  BY <1>11 DEF CheckAbsent
<1>12. ASSUME NEW e \in Exporters, Commit(e)
      PROVE  OwnersAreAlone'
  <2>1. CASE Place(e, export[e].dir) /\ (platform = "posix" => entry[export[e].dir] = Absent)
             /\ Outside
    <3>1. /\ export[e].dir \in Dirs
          /\ At(e, "committing")
          /\ export[e].locked
      BY <1>12, CommitPlaces
    <3>2. ASSUME NEW f \in Exporters, export'[f].pc \in {"committed", "published"}
          PROVE  entry'[export'[f].dir] \notin Exporters \ {f}
      <4>1. CASE f = e
        BY <2>1, <3>1, <4>1 DEF Place
      <4>2. CASE f # e
        <5>1. export'[f] = export[f] /\ LockFits(f) /\ export[f].locked
          BY <2>1, <3>2, <4>2 DEF Place
        <5>2. export[f].dir # export[e].dir /\ export[f].dir \in Dirs
          BY <3>1, <4>2, <5>1
        <5>3. entry'[export[f].dir] = entry[export[f].dir]
          BY <2>1, <5>2 DEF Place
        <5> QED
          BY <3>2, <5>1, <5>3
      <4> QED
        BY <4>1, <4>2
    <3> QED
      BY <3>2
  <2>2. CASE Raise(e) /\ Quiet
    BY <1>12, <2>2
  <2> QED
    BY <1>12, <2>1, <2>2, CommitPlaces
<1>13. ASSUME NEW e \in Exporters, CheckPlaced(e)
      PROVE  OwnersAreAlone'
  BY <1>13 DEF CheckPlaced
<1>14. ASSUME NEW e \in Exporters, Finish(e)
      PROVE  OwnersAreAlone'
  BY <1>14 DEF Finish, Succeed, SameParent
<1>15. ASSUME NEW e \in Exporters, SystemFails(e)
      PROVE  OwnersAreAlone'
  BY <1>15 DEF SystemFails
<1>16. ASSUME NEW e \in Exporters, Clean(e)
      PROVE  OwnersAreAlone'
  BY <1>16 DEF Clean, Failed
<1>17. ASSUME NEW e \in Exporters, Leave(e)
      PROVE  OwnersAreAlone'
  BY <1>17 DEF Leave
<1>18. ASSUME NEW e \in Exporters, Die(e)
      PROVE  OwnersAreAlone'
  BY <1>18 DEF Die
<1>19. ASSUME NEW e \in Exporters, TakeName(e)
      PROVE  OwnersAreAlone'
  BY <1>19 DEF TakeName, Change
<1>20. CASE SwapParent \/ \E d \in Dirs : Touch(d)
  BY <1>20 DEF SwapParent, Touch, Change
<1>21. CASE UNCHANGED vars
  BY <1>21 DEF vars
<1> QED
  BY <1>1, <1>2, <1>3, <1>4, <1>5, <1>6, <1>7, <1>8, <1>9, <1>10, <1>11, <1>12, <1>13, <1>14, <1>15, <1>16, <1>17, <1>18, <1>19, <1>20, <1>21 DEF Next, Step

-----------------------------------------------------------------------------
(* What the invariant says of every behaviour *)

\* The inductive invariant holds in every reachable state.
LEMMA Invariant == Spec => []IInv
<1>1. Init => IInv
  <2> SUFFICES ASSUME Init
               PROVE  IInv
    OBVIOUS
  <2>1. TypeOK
    BY TypeInit
  <2>2. LocksApart /\ ParentPinned /\ Progress /\ OnlyWholeFiles /\ OwnersAreAlone
    BY DEF Init, NewExport, LocksApart, ParentPinned, Guarded, Progress, FileFits,
           Uncommitted, Placed, OnlyWholeFiles, OwnersAreAlone
  <2> QED
    BY <2>1, <2>2 DEF IInv
<1>2. IInv /\ [Next]_vars => IInv'
  BY TypeKept, LocksKept, ParentKept, ProgressKept, WholeKept, AloneKept DEF IInv
<1> QED
  BY <1>1, <1>2, PTL DEF Spec

(***************************************************************************)
(* The variables of every reachable state have their types, and a call     *)
(* holds its lock exactly while it may use the directory.                  *)
(***************************************************************************)
THEOREM TypeCorrect == Spec => []TypeOK
BY Invariant, PTL DEF IInv

(***************************************************************************)
(* Whatever the others do between any two steps of a call of               *)
(* export_dashboard, no reader finds a part of its file.                   *)
(***************************************************************************)
THEOREM OnlyWholeFilesHolds == Spec => []OnlyWholeFiles
BY Invariant, PTL DEF IInv

(***************************************************************************)
(* The lock keeps the other exporters out from the commit of a file to the *)
(* last check of its place, in the directory the call holds.               *)
(***************************************************************************)
THEOREM OwnersAreAloneHolds == Spec => []OwnersAreAlone
BY Invariant, PTL DEF IInv

-----------------------------------------------------------------------------
(* Every step is one of Publication *)

Receivers == [e \in Exporters |-> export[e].bound]
Outcomes == [e \in Exporters |-> export[e].outcome]

\* Steps that Publication does not see.
LEMMA Unseen ==
  ASSUME \A f \in Exporters : export'[f].bound = export[f].bound
                              /\ export'[f].outcome = export[f].outcome,
         UNCHANGED <<platform, path, entry>>
  PROVE  UNCHANGED Promise!vars
BY DEF Promise!vars

\* Every step is one of Publication, or a stutter of it.
LEMMA StepPromised == IInv /\ [Next]_vars => [Promise!Next]_(Promise!vars)
<1> SUFFICES ASSUME IInv, [Next]_vars
             PROVE  [Promise!Next]_(Promise!vars)
  OBVIOUS
<1>0. TypeOK /\ ParentPinned /\ Progress
  BY DEF IInv
<1> USE <1>0 DEF TypeOK, CallType, At, Goto, Raise, Quiet, Outside
<1>1. ASSUME NEW e \in Exporters, Validate(e)
       PROVE  [Promise!Next]_(Promise!vars)
  BY <1>1, Unseen DEF Validate, Valid
<1>2. ASSUME NEW e \in Exporters, Open(e)
       PROVE  [Promise!Next]_(Promise!vars)
  BY <1>2, Unseen DEF Open, SameParent
<1>3. ASSUME NEW e \in Exporters, Lock(e)
       PROVE  [Promise!Next]_(Promise!vars)
  BY <1>3, Unseen DEF Lock, Contended
<1>4. ASSUME NEW e \in Exporters, LockFails(e)
       PROVE  [Promise!Next]_(Promise!vars)
  BY <1>4, Unseen DEF LockFails
<1>5. ASSUME NEW e \in Exporters, Guard(e)
       PROVE  [Promise!Next]_(Promise!vars)
  <2>1. \E label \in {"guarded", "failing"} : export' = [export EXCEPT ![e].pc = label]
    BY <1>5 DEF Guard
  <2>2. \A f \in Exporters : export'[f].bound = export[f].bound
                             /\ export'[f].outcome = export[f].outcome
    BY <2>1
  <2>3. UNCHANGED <<platform, path, entry>>
    BY <1>5 DEF Guard
  <2> QED
    BY Zenon, <2>2, <2>3, Unseen
<1>6. ASSUME NEW e \in Exporters, CreateTemp(e)
       PROVE  [Promise!Next]_(Promise!vars)
  BY <1>6, Unseen DEF CreateTemp
<1>7. ASSUME NEW e \in Exporters, CheckTemp(e)
       PROVE  [Promise!Next]_(Promise!vars)
  BY <1>7, Unseen DEF CheckTemp, Intact, SameParent
<1>8. ASSUME NEW e \in Exporters, WriteSome(e)
       PROVE  [Promise!Next]_(Promise!vars)
  BY <1>8, Unseen DEF WriteSome
<1>9. ASSUME NEW e \in Exporters, Flush(e)
       PROVE  [Promise!Next]_(Promise!vars)
  BY <1>9, Unseen DEF Flush
<1>10. ASSUME NEW e \in Exporters, Check(e)
       PROVE  [Promise!Next]_(Promise!vars)
  BY <1>10, Unseen DEF Check, Intact, SameParent, Valid
<1>11. ASSUME NEW e \in Exporters, CheckAbsent(e)
       PROVE  [Promise!Next]_(Promise!vars)
  BY <1>11, Unseen DEF CheckAbsent
<1>12. ASSUME NEW e \in Exporters, Commit(e)
       PROVE  [Promise!Next]_(Promise!vars)
  <2>1. CASE Place(e, export[e].dir) /\ (platform = "posix" => entry[export[e].dir] = Absent)
             /\ Outside
    <3>1. At(e, "committing") /\ export[e].dir \in Dirs /\ FileFits(e)
      BY <1>12, CommitPlaces DEF Progress
    <3>2. Receivers[e] = NoDir /\ Outcomes[e] = "none"
      BY <3>1 DEF FileFits, Uncommitted, Receivers, Outcomes
    <3>3. Receivers' = [Receivers EXCEPT ![e] = export[e].dir] /\ Outcomes' = Outcomes
      <4>1. export[e] \in CallType
        BY <3>1
      <4>2. export'[e] = [export[e] EXCEPT !.pc = "committed", !.bound = export[e].dir,
                                           !.temp = "none"]
        BY <2>1 DEF Place
      <4>3. export'[e].bound = export[e].dir /\ export'[e].outcome = export[e].outcome
        BY ONLY <4>1, <4>2 DEF CallType
      <4>4. \A f \in Exporters : f # e => export'[f] = export[f]
        BY <2>1 DEF Place
      <4> QED
        BY ONLY <4>3, <4>4 DEF Receivers, Outcomes
    <3>4. \E d \in Dirs : Promise!Publish(e, d)
      BY <2>1, <3>1, <3>2, <3>3 DEF Place, Promise!Publish, Receivers, Outcomes
    <3> QED
      BY <3>4 DEF Promise!Next
  <2>2. CASE Raise(e) /\ Quiet
    BY <2>2, Unseen
  <2> QED
    BY <1>12, <2>1, <2>2, CommitPlaces
<1>13. ASSUME NEW e \in Exporters, CheckPlaced(e)
       PROVE  [Promise!Next]_(Promise!vars)
  BY <1>13, Unseen DEF CheckPlaced
<1>14. ASSUME NEW e \in Exporters, Finish(e)
       PROVE  [Promise!Next]_(Promise!vars)
  <2>1. CASE SameParent(e) /\ Succeed(e)
    <3>1. At(e, "published") /\ FileFits(e)
      BY <1>14 DEF Finish, Progress
    <3>2. Receivers[e] = path /\ Outcomes[e] = "none" /\ Receivers[e] # NoDir
      <4>1. Receivers[e] = path /\ Outcomes[e] = "none"
        BY <2>1, <3>1 DEF SameParent, FileFits, Placed, Receivers, Outcomes
      <4>2. export[e].dir \in Dirs
        BY <3>1 DEF LockFits, Guarded
      <4> QED
        BY <2>1, <4>1, <4>2 DEF SameParent
    <3>3. Receivers' = Receivers /\ Outcomes' = [Outcomes EXCEPT ![e] = "ok"]
      BY <2>1 DEF Succeed, Receivers, Outcomes
    <3>4. Promise!Report(e, "ok")
      BY <1>14, <3>2, <3>3 DEF Finish, Promise!Report, Receivers, Outcomes
    <3> QED
      BY <3>4 DEF Promise!Next
  <2>2. CASE Raise(e)
    BY <1>14, <2>2, Unseen DEF Finish
  <2> QED
    BY <1>14, <2>1, <2>2 DEF Finish
<1>15. ASSUME NEW e \in Exporters, SystemFails(e)
       PROVE  [Promise!Next]_(Promise!vars)
  BY <1>15, Unseen DEF SystemFails, Guarded
<1>16. ASSUME NEW e \in Exporters, Clean(e)
       PROVE  [Promise!Next]_(Promise!vars)
  <2>1. Outcomes[e] = "none"
    BY <1>16 DEF Clean, Progress, FileFits, Outcomes
  <2>2. Receivers' = Receivers /\ Outcomes' = [Outcomes EXCEPT ![e] = "failed"]
    <3>1. export[e] \in CallType
      BY <1>16
    <3>2. PICK temp : Failed(e, temp)
      BY <1>16 DEF Clean
    <3>3. export'[e] = [export[e] EXCEPT !.pc = "leaving", !.outcome = "failed",
                                         !.temp = temp]
      BY <3>2 DEF Failed
    <3>4. export'[e].bound = export[e].bound /\ export'[e].outcome = "failed"
      BY ONLY <3>1, <3>3 DEF CallType
    <3>5. \A f \in Exporters : f # e => export'[f] = export[f]
      BY <3>2 DEF Failed
    <3> QED
      BY ONLY <3>4, <3>5 DEF Receivers, Outcomes
  <2>3. Promise!Report(e, "failed")
    BY <1>16, <2>1, <2>2 DEF Clean, Promise!Report, Receivers, Outcomes
  <2> QED
    BY <2>3 DEF Promise!Next
<1>17. ASSUME NEW e \in Exporters, Leave(e)
       PROVE  [Promise!Next]_(Promise!vars)
  BY <1>17, Unseen DEF Leave
<1>18. ASSUME NEW e \in Exporters, Die(e)
       PROVE  [Promise!Next]_(Promise!vars)
  BY <1>18, Unseen DEF Die
<1>19. ASSUME NEW e \in Exporters, TakeName(e)
       PROVE  [Promise!Next]_(Promise!vars)
  BY <1>19, Unseen DEF TakeName, Change
<1>20. CASE SwapParent
  <2>1. Promise!SwapParent
    BY <1>20 DEF SwapParent, Promise!SwapParent
  <2> QED
    BY <2>1 DEF Promise!Next
<1>21. ASSUME NEW d \in Dirs, Touch(d)
       PROVE  [Promise!Next]_(Promise!vars)
  <2>1. Promise!Touch(d)
    BY <1>21 DEF Touch, Promise!Touch
  <2> QED
    BY <2>1 DEF Promise!Next
<1>22. CASE UNCHANGED vars
  BY <1>22, Unseen DEF vars
<1> QED
  BY <1>1, <1>2, <1>3, <1>4, <1>5, <1>6, <1>7, <1>8, <1>9, <1>10, <1>11, <1>12, <1>13, <1>14, <1>15, <1>16, <1>17, <1>18, <1>19, <1>20, <1>21, <1>22 DEF Next, Step

(***************************************************************************)
(* An export publishes in one step, on POSIX without replacing anything,   *)
(* never takes a file back, and reports success only of a file in the      *)
(* directory that the path of the destination then denotes.                *)
(***************************************************************************)
THEOREM PublicationImplemented == Spec => ImplementsPublication
<1>1. Init => Promise!Init
  BY DEF Init, NewExport, Promise!Init
<1> QED
  BY <1>1, StepPromised, Invariant, PTL DEF Spec, ImplementsPublication, Promise!Spec
=============================================================================
