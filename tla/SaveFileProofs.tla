--------------------------- MODULE SaveFileProofs ---------------------------
(***************************************************************************)
(* What SaveFile promises for every number of images, and the proof that   *)
(* it implements DurableSave, without failing calls and lone-.tmp cuts.    *)
(*                                                                         *)
(* The argument: Order ties the images in the files to the step the save   *)
(* has reached; Lineage says that only something that was done can be      *)
(* strayed from; Sound says that until one of the three causes of a loss   *)
(* occurs <path> is never torn and what was saved can be restored; Atomic  *)
(* is what a careful pcesave adds: the .tmp alone is whole only within a   *)
(* save, so the restorable image moves once, when <path> is unlinked.      *)
(***************************************************************************)
EXTENDS SaveFile, TLAPS

(* Versions are handed out in order, and a save in progress is never older *)
(* than what was saved before.                                             *)
Order ==
  /\ done <= ver /\ sav <= ver /\ tmp <= ver
  /\ pc \in {"create", "write", "sync", "unlink", "rename"} => img = ver /\ img > 0
  /\ pc \in {"write", "sync"} => tmp = Torn
  /\ pc \in {"unlink", "rename"} => written /\ tmp \in {img, Torn}
  /\ pc = "rename" /\ sav = Absent /\ tmp = Torn => "sync" \in causes

(* Nothing strays before something was done, a new image never is one that *)
(* strays, and one that does replaces <path> only with the cause "stray".  *)
Lineage ==
  /\ stray \/ strays # {} => done > 0
  /\ \A v \in strays : v <= ver
  /\ pc = "rename" /\ sav = Absent /\ img \in strays => "stray" \in causes

(* While no cause of a loss occurred the save file is never torn.          *)
Sound ==
  causes = {} => /\ sav # Torn
                 /\ Survives

Inv == TypeOK /\ Order /\ Lineage /\ Sound

(* Between careful saves the .tmp alone is never whole and sv_last is on   *)
(* the card; during one the restorable image moves only at the unlink.     *)
Atomic ==
  Careful =>
    /\ sav # Torn
    /\ causes = {} /\ strays = {} /\ ~stray
    /\ pc \in {"idle", "off", "create", "write", "sync"} => ~LoneTmp
    /\ pc \in {"unlink", "rename"} => tmp = img
    /\ pc = "sync" => written
    /\ pc = "rename" => sav = Absent
    /\ pc = "idle" => last = Recovered

-----------------------------------------------------------------------------
LEMMA InitInv == Init => Inv
<1> SUFFICES ASSUME Init PROVE Inv
  OBVIOUS
<1>1. /\ sav \in Content /\ tmp \in Content /\ last \in Content
      /\ img \in 0..MaxVersion /\ ver \in 0..MaxVersion /\ done \in 0..MaxVersion
  BY SaveAssumption DEF Init, Content, Absent
<1>2. TypeOK
  BY <1>1 DEF Init, TypeOK
<1>3. Order /\ Lineage /\ Sound
  BY DEF Init, Order, Lineage, Sound, Survives, Absent, Torn
<1> QED
  BY <1>2, <1>3 DEF Inv

(* Every step keeps types, order and soundness, one action at a time.      *)
LEMMA StepInv == Inv /\ [Next]_vars => Inv'
<1> SUFFICES ASSUME Inv, [Next]_vars PROVE Inv'
  OBVIOUS
<1> USE SaveAssumption
    DEF Inv, TypeOK, Order, Lineage, Sound, Survives, Recovered, Readable, Whole,
        Content, Absent, Torn, Goto, Failing, env, played
<1>1. CASE Restore
  BY <1>1 DEF Restore, Restorable
<1>2. CASE Begin
  BY <1>2 DEF Begin
<1>3. CASE Create
  BY <1>3 DEF Create
<1>4. CASE Write
  BY <1>4 DEF Write
<1>5. CASE Sync
  BY <1>5 DEF Sync
<1>6. CASE Unlink
  BY <1>6 DEF Unlink
<1>7. CASE Rename
  BY <1>7 DEF Rename
<1>8. CASE PowerCut
  BY <1>8 DEF PowerCut
<1>9. CASE UNCHANGED vars
  BY <1>9 DEF vars
<1> QED
  BY <1>1, <1>2, <1>3, <1>4, <1>5, <1>6, <1>7, <1>8, <1>9 DEF Next

LEMMA Invariance == Spec => []Inv
  BY InitInv, StepInv, PTL DEF Spec

(* The files, the image and the history keep their types.                  *)
THEOREM TypeCorrect == Spec => []TypeOK
<1>1. Inv => TypeOK
  BY DEF Inv
<1> QED
  BY <1>1, Invariance, PTL

(* However many cuts and failing calls, of saves and of restores, a saved  *)
(* or restored image is lost only by truncating a lone .tmp, by going on   *)
(* after a failed f_sync (pcesave.cpp, sv_write_file), or by saving a game *)
(* that was started after a failed read (pcesave.cpp, pcesave_restore;     *)
(* neosave.cpp, neosave_restore).                                          *)
THEOREM LossCauses == Spec => []LossHasThreeCauses
<1>1. Inv => LossHasThreeCauses
  BY DEF Inv, Sound, LossHasThreeCauses
<1> QED
  BY <1>1, Invariance, PTL

-----------------------------------------------------------------------------
(* The refinement.                                                         *)
AInv == Inv /\ Atomic

LEMMA InitAtomic == Init => Atomic
  BY DEF Init, Atomic, LoneTmp, Whole, Recovered, Readable, Absent, Torn

LEMMA StepAtomic == AInv /\ [Next]_vars => Atomic'
<1> SUFFICES ASSUME AInv, [Next]_vars PROVE Atomic'
  OBVIOUS
<1> USE SaveAssumption
    DEF AInv, Careful, Inv, TypeOK, Order, Atomic, LoneTmp, Recovered,
        Readable, Whole, Content, Absent, Torn, Goto, Failing, env, played
<1>1. CASE Restore
  BY <1>1 DEF Restore, Restorable, Sound, Survives
<1>2. CASE Begin
  BY <1>2 DEF Begin
<1>3. CASE Create
  BY <1>3 DEF Create
<1>4. CASE Write
  BY <1>4 DEF Write
<1>5. CASE Sync
  BY <1>5 DEF Sync
<1>6. CASE Unlink
  BY <1>6 DEF Unlink
<1>7. CASE Rename
  BY <1>7 DEF Rename
<1>8. CASE PowerCut
  BY <1>8 DEF PowerCut
<1>9. CASE UNCHANGED vars
  BY <1>9 DEF vars
<1> QED
  BY <1>1, <1>2, <1>3, <1>4, <1>5, <1>6, <1>7, <1>8, <1>9 DEF Next

(* Each FatFs call is a step of DurableSave or invisible.                  *)
LEMMA StepRefines == Careful /\ AInv /\ [Next]_vars => [Durable!Next]_(Durable!dvars)
<1> SUFFICES ASSUME Careful, AInv, [Next]_vars
             PROVE  [Durable!Next]_(Durable!dvars)
  OBVIOUS
<1> USE SaveAssumption
    DEF AInv, Careful, Inv, TypeOK, Order, Atomic, LoneTmp, Recovered,
        Readable, Whole, Content, Absent, Torn, Goto, Failing, env, played, Sound, Survives
<1>1. CASE Restore
  <2>1. Durable!Restore
    BY <1>1 DEF Restore, Restorable, Durable!Restore
  <2> QED
    BY <2>1 DEF Durable!Next
<1>2. CASE Begin
  <2>1. ver' \in 1..MaxVersion /\ Durable!Begin(ver')
    BY <1>2 DEF Begin, Durable!Begin
  <2> QED
    BY <2>1 DEF Durable!Next
<1>3. CASE Create
  <2>1. /\ pc = "create" /\ pc' = "write" /\ tmp' = Torn
        /\ saver' = saver /\ faults' = faults /\ sav' = sav /\ img' = img /\ done' = done
    BY <1>3 DEF Create
  <2>2. Careful'
    BY <2>1
  <2>3. ~LoneTmp
    BY <2>1
  <2>4. Recovered' = Recovered
    BY <2>1, <2>3
  <2> QED
    BY <2>1, <2>2, <2>4 DEF Durable!dvars
<1>4. CASE Write
  BY <1>4 DEF Write, Durable!dvars
<1>5. CASE Sync
  <2>1. UNCHANGED Durable!dvars \/ Durable!Commit
    BY <1>5 DEF Sync, Durable!dvars, Durable!Commit
  <2> QED
    BY <2>1 DEF Durable!Next
<1>6. CASE Unlink
  <2>1. Durable!Commit
    BY <1>6 DEF Unlink, Durable!Commit
  <2> QED
    BY <2>1 DEF Durable!Next
<1>7. CASE Rename
  <2>1. Durable!Acknowledge
    BY <1>7 DEF Rename, Durable!Acknowledge
  <2> QED
    BY <2>1 DEF Durable!Next
<1>8. CASE PowerCut
  <2>1. Durable!Abandon
    BY <1>8 DEF PowerCut, Durable!Abandon
  <2> QED
    BY <2>1 DEF Durable!Next
<1>9. CASE UNCHANGED vars
  BY <1>9 DEF vars, Durable!dvars
<1> QED
  BY <1>1, <1>2, <1>3, <1>4, <1>5, <1>6, <1>7, <1>8, <1>9 DEF Next

(* Other behaviours do not move the abstract state.                        *)
LEMMA StepElsewhere ==
  ~Careful /\ [Next]_vars => UNCHANGED Durable!dvars
<1> SUFFICES ASSUME ~Careful, [Next]_vars PROVE UNCHANGED Durable!dvars
  OBVIOUS
<1>1. ~Careful'
  BY DEF Careful, Next, vars, env, Restore, Begin, Create, Write, Sync, Unlink,
         Rename, PowerCut
<1> QED
  BY <1>1 DEF Durable!dvars

LEMMA AInvariance == Spec => []AInv
<1>1. Init => AInv
  BY InitInv, InitAtomic DEF AInv
<1>2. AInv /\ [Next]_vars => AInv'
  BY StepInv, StepAtomic DEF AInv
<1> QED
  BY <1>1, <1>2, PTL DEF Spec

(* Without failing calls, and without cuts that leave a lone .tmp, saving  *)
(* is atomic and durable for any number of saves and cuts.                 *)
THEOREM Refinement == Spec => ImplementsDurable
<1>1. Init => Durable!Init
  BY DEF Init, Durable!Init, Recovered, Readable, Whole, Absent
<1>2. AInv /\ [Next]_vars => [Durable!Next]_(Durable!dvars)
  BY StepRefines, StepElsewhere
<1> QED
  BY <1>1, <1>2, AInvariance, PTL DEF Spec, ImplementsDurable, Durable!Spec

(* Under the same conditions sv_last is what the card holds between saves. *)
THEOREM CardHoldsLast == Spec => []LastIsOnCard
<1>1. AInv => LastIsOnCard
  BY DEF AInv, Atomic, LastIsOnCard
<1> QED
  BY <1>1, AInvariance, PTL

(* A torn file never reaches the backup RAM through pcesave.               *)
THEOREM NoTornRestore == Spec => []NeverRestoresTorn
<1>1. Init => NeverRestoresTorn
  BY DEF Init, NeverRestoresTorn, Torn
<1>2. Inv /\ NeverRestoresTorn /\ [Next]_vars => NeverRestoresTorn'
  <2> SUFFICES ASSUME Inv, NeverRestoresTorn, [Next]_vars PROVE NeverRestoresTorn'
    OBVIOUS
  <2> USE DEF Inv, TypeOK, NeverRestoresTorn, Torn, env
  <2>1. CASE Restore
    BY <2>1 DEF Restore, Restorable, Recovered, Readable, Whole
  <2>2. CASE Rename
    BY <2>2 DEF Rename
  <2>3. CASE Begin \/ Create \/ Write \/ Sync \/ Unlink \/ PowerCut \/ UNCHANGED vars
    BY <2>3 DEF vars, Begin, Create, Write, Sync, Unlink, PowerCut
  <2> QED
    BY <2>1, <2>2, <2>3 DEF Next
<1> QED
  BY <1>1, <1>2, Invariance, PTL DEF Spec
=============================================================================
