------------------------- MODULE RecoveryUI_proofs -------------------------
(* Theorems about RecoveryUI, and those of MasterClear carried over to it. *)
EXTENDS RecoveryUI, MasterClear_proofs

\* The user interface calls bp_master_clear as its module says, and does nothing
\* else to its state: what holds of every caller holds here.
THEOREM UIImplementsClear == UISpec => Spec
<1>1. UIInit => Init
  BY DEF UIInit
<1>2. [UINext]_allVars => [Next]_vars
  <2> SUFFICES ASSUME [UINext]_allVars PROVE [Next]_vars
    OBVIOUS
  <2>1. ASSUME NEW key \in Keys, Press(key) PROVE UNCHANGED vars
    BY <2>1 DEF Press
  <2>2. ASSUME NEW key \in Keys, NEW visible \in BOOLEAN, NEW item \in Items,
               Select(key, visible, item)
        PROVE  Call
    BY <2>2 DEF Select
  <2>3. CASE WipeDone
    BY <2>3 DEF WipeDone
  <2>4. CASE Clear \/ ClearReadFails
    BY <2>4 DEF Clear, ClearReadFails, Next
  <2>5. CASE Baseband
    BY <2>5 DEF Next
  <2>6. CASE UNCHANGED allVars
    BY <2>6 DEF allVars
  <2>. QED  BY <2>1, <2>2, <2>3, <2>4, <2>5, <2>6 DEF UINext, Next
<1>. QED  BY <1>1, <1>2, PTL DEF UISpec, Spec

\* The properties of bp_master_clear, when it is called from the menu while keys
\* are pressed.
THEOREM UIClearCorrect ==
    UISpec => [](/\ HandleIsEngine /\ HeaderIsRead /\ SuccessIsAnswered
                 /\ LeaksAreFailures /\ BpLeftNormal)
BY UIImplementsClear, HandleCorrect, HeaderCorrect, AnswerCorrect, LeaksCorrect,
   RestartCorrect, PTL

\* So does a call from the menu end unless its reads fail without end, or it is cut
\* off: the keys pressed meanwhile do not prolong it.
THEOREM UIShrinkCorrect == UISpec => CallShrinks
BY UIImplementsClear, ShrinkCorrect, PTL
=============================================================================
