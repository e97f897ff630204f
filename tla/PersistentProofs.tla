-------------------------- MODULE PersistentProofs --------------------------
(***************************************************************************)
(* For any number of writers and of timer callbacks: coalescing writes     *)
(* into one pending flush forgets none of them.                            *)
(***************************************************************************)
EXTENDS Persistent, TLAPS

\* touch leaves a write to the timer that is pending; that timer has yet to go
\* off, or its callback has yet to clear p.pending and copy the contents.
PendingCopies == pending => armed \/ \E f \in Callbacks : flush[f].at = "unset"

Inv == TypeOK /\ PendingCopies /\ NoWriteForgotten

-----------------------------------------------------------------------------
LEMMA InitInv == Init => Inv
<1> SUFFICES ASSUME Init PROVE Inv OBVIOUS
<1>1. Idle \in [at : FlushSteps, image : Nat] /\ NotClosing \in [at : CloseSteps, image : Nat, upTo : Nat]
    BY DEF Idle, NotClosing, FlushSteps, CloseSteps
<1>2. TypeOK BY <1>1 DEF Init, TypeOK, AtRest, NoFlush
<1> QED BY <1>2 DEF Init, Inv, PendingCopies, NoWriteForgotten

LEMMA NextTypes == ASSUME TypeOK, [Next]_vars PROVE TypeOK'
<1> USE DEF TypeOK
<1>1. ASSUME NEW w \in Writers, Write(w) \/ touch(w) PROVE TypeOK'
  <2>1. CASE Write(w) BY <2>1 DEF Write
  <2>2. CASE touch(w) BY <2>2 DEF touch
  <2> QED BY <1>1, <2>1, <2>2
<1>2. ASSUME NEW f \in Callbacks, Fire(f) \/ Unset(f) \/ Snapshot(f) \/ Rename(f) PROVE TypeOK'
  <2> flush[f] \in [at : FlushSteps, image : Nat] OBVIOUS
  <2>1. CASE Fire(f)
    <3>1. [flush[f] EXCEPT !.at = "unset"] \in [at : FlushSteps, image : Nat] BY DEF FlushSteps
    <3> QED BY <2>1, <3>1 DEF Fire
  <2>2. CASE Unset(f)
    <3>1. [flush[f] EXCEPT !.at = "snapshot"] \in [at : FlushSteps, image : Nat] BY DEF FlushSteps
    <3> QED BY <2>2, <3>1 DEF Unset
  <2>3. CASE Snapshot(f)
    <3>1. [at |-> "rename", image |-> mem] \in [at : FlushSteps, image : Nat] BY DEF FlushSteps
    <3> QED BY <2>3, <3>1 DEF Snapshot, Newer
  <2>4. CASE Rename(f)
    <3>1. Idle \in [at : FlushSteps, image : Nat] BY DEF FlushSteps, Idle
    <3> QED BY <2>4, <3>1 DEF Rename
  <2> QED BY <1>2, <2>1, <2>2, <2>3, <2>4
<1>3. CASE Close \/ CloseSnapshot \/ CloseRename
  <2>1. closing' \in [at : CloseSteps, image : Nat, upTo : Nat]
    <3> DEFINE C == [at : CloseSteps, image : Nat, upTo : Nat]
    <3>1. CASE Close
      <4>1. [at |-> "snapshot", image |-> 0, upTo |-> mem] \in C BY DEF CloseSteps
      <4> QED BY <3>1, <4>1 DEF Close
    <3>2. CASE CloseSnapshot
      <4>1. [closing EXCEPT !.at = "rename", !.image = mem] \in C BY DEF CloseSteps
      <4> QED BY <3>2, <4>1 DEF CloseSnapshot
    <3>3. CASE CloseRename
      <4>1. /\ [closing EXCEPT !.at = "returned nil"] \in C
            /\ [closing EXCEPT !.at = "returned error"] \in C
          BY DEF CloseSteps
      <4> QED BY <3>3, <4>1 DEF CloseRename
    <3> QED BY <1>3, <3>1, <3>2, <3>3
  <2>2. CASE Close BY <2>1, <2>2 DEF Close
  <2>3. CASE CloseSnapshot BY <2>1, <2>3 DEF CloseSnapshot, Newer
  <2>4. CASE CloseRename BY <2>1, <2>4 DEF CloseRename
  <2> QED BY <1>3, <2>2, <2>3, <2>4
<1>4. CASE Restart
  <2>1. Idle \in [at : FlushSteps, image : Nat] /\ NotClosing \in [at : CloseSteps, image : Nat, upTo : Nat]
      BY DEF Idle, NotClosing, FlushSteps, CloseSteps
  <2>2. /\ writer' \in [Writers -> {"idle", "touch"}]
        /\ flush' \in [Callbacks -> [at : FlushSteps, image : Nat]]
      BY <1>4, <2>1 DEF Restart, AtRest, NoFlush
  <2>3. /\ writes' \in Nat /\ restarts' \in Nat /\ mem' \in Nat /\ disk' \in Nat /\ captured' \in Nat
        /\ closing' = NotClosing
      BY <1>4 DEF Restart
  <2>4. pending' \in BOOLEAN /\ armed' \in BOOLEAN /\ closed' \in BOOLEAN BY <1>4 DEF Restart
  <2> QED BY <2>1, <2>2, <2>3, <2>4
<1>5. CASE UNCHANGED vars BY <1>5 DEF vars
<1> QED BY <1>1, <1>2, <1>3, <1>4, <1>5 DEF Next

\* Only touch sets p.pending, and it arms the timer; only the callback's first
\* step uses up the timer.
LEMMA NextPending == ASSUME Inv, [Next]_vars PROVE PendingCopies'
<1> USE DEF Inv, TypeOK, PendingCopies
<1>1. ASSUME NEW w \in Writers, Write(w) \/ touch(w) PROVE PendingCopies'
    BY <1>1 DEF Write, touch
<1>2. ASSUME NEW f \in Callbacks, Fire(f) \/ Unset(f) \/ Snapshot(f) \/ Rename(f)
      PROVE  PendingCopies'
  <2>1. CASE Fire(f)
    <3>1. flush'[f].at = "unset" BY <2>1 DEF Fire
    <3> QED BY <3>1
  <2>2. CASE Unset(f) BY <2>2 DEF Unset
  <2>3. CASE Snapshot(f) \/ Rename(f)
    <3>1. \A g \in Callbacks : flush[g].at = "unset" => flush'[g].at = "unset"
        BY <2>3 DEF Snapshot, Rename
    <3> QED BY <2>3, <3>1 DEF Snapshot, Rename
  <2> QED BY <1>2, <2>1, <2>2, <2>3
<1>3. CASE Close \/ CloseSnapshot \/ CloseRename \/ Restart \/ UNCHANGED vars
    BY <1>3 DEF Close, CloseSnapshot, CloseRename, Restart, vars
<1> QED BY <1>1, <1>2, <1>3 DEF Next

\* A writer that leaves its write to others leaves it to a flush still to copy.
LEMMA NextCopied == ASSUME Inv, [Next]_vars PROVE NoWriteForgotten'
<1> USE DEF Inv, TypeOK
<1>1. ASSUME NEW w \in Writers, Write(w) PROVE NoWriteForgotten'
  <2>1. writer'[w] = "touch" BY <1>1 DEF Write
  <2> QED BY <2>1 DEF NoWriteForgotten
<1>2. ASSUME NEW w \in Writers, touch(w) PROVE NoWriteForgotten'
  <2>1. closed' \/ armed' \/ \E f \in Callbacks : flush'[f].at = "unset"
      BY <1>2 DEF touch, PendingCopies
  <2> QED BY <2>1 DEF NoWriteForgotten
<1>3. ASSUME NEW f \in Callbacks, Fire(f) \/ Unset(f) PROVE NoWriteForgotten'
  <2>1. flush'[f].at \in {"unset", "snapshot"} BY <1>3 DEF Fire, Unset
  <2> QED BY <2>1 DEF NoWriteForgotten
<1>4. ASSUME NEW f \in Callbacks, Snapshot(f) PROVE NoWriteForgotten'
  <2>1. captured' >= mem' BY <1>4 DEF Snapshot, Newer
  <2> QED BY <2>1, NextTypes DEF NoWriteForgotten
<1>5. ASSUME NEW f \in Callbacks, Rename(f) PROVE NoWriteForgotten'
  <2>1. \A g \in Callbacks : flush[g].at \in {"unset", "snapshot"} => flush'[g].at = flush[g].at
      BY <1>5 DEF Rename
  <2> QED BY <1>5, <2>1 DEF Rename, NoWriteForgotten
<1>6. CASE Close BY <1>6 DEF Close, NoWriteForgotten
<1>7. CASE CloseSnapshot BY <1>7 DEF CloseSnapshot, Newer, NoWriteForgotten
<1>8. CASE CloseRename BY <1>8 DEF CloseRename, NoWriteForgotten
<1>9. CASE Restart BY <1>9 DEF Restart, NoWriteForgotten
<1>10. CASE UNCHANGED vars BY <1>10 DEF vars, NoWriteForgotten
<1> QED BY <1>1, <1>2, <1>3, <1>4, <1>5, <1>6, <1>7, <1>8, <1>9, <1>10 DEF Next

\* While the store is open a write that no Flush has copied has a Flush coming
\* that will copy it (persist.go touch and the timer's callback).
THEOREM NoneForgotten == Spec => []NoWriteForgotten
<1>1. Inv /\ [Next]_vars => Inv' BY NextTypes, NextPending, NextCopied DEF Inv
<1>2. Inv => NoWriteForgotten BY DEF Inv
<1> QED BY InitInv, <1>1, <1>2, PTL DEF Spec
=============================================================================
