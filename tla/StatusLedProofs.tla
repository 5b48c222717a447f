-------------------------- MODULE StatusLedProofs --------------------------
(***************************************************************************)
(* What holds of StatusLed for any number of connections.                  *)
(***************************************************************************)
EXTENDS StatusLed, TLAPS

USE DEF States, Colours, Shows, OnState, Paint, idle

(* As long as no session has come between two looks of one round, what the *)
(* round found at its first look is still so at its next.                  *)
RoundInv ==
    ~raced =>
      /\ pc = "blink" => state = "PLAY"
      /\ pc = "compare" /\ state = done /\ done # "INIT" => lit \in Shows(done)
      /\ pc = "paint" => state = done
      /\ AgreesWithDone

(* No report, round of the idle loop or timer leaves RoundInv.             *)
LEMMA RoundInvariance == Spec => [](TypeOK /\ RoundInv)
<1>1. Init => TypeOK /\ RoundInv
  <2>1. Init => TypeOK
    BY DEF Init, TypeOK
  <2>2. Init => RoundInv
    BY DEF Init, RoundInv, AgreesWithDone
  <2>3. QED
    BY <2>1, <2>2
<1>2. TypeOK /\ RoundInv /\ [Next]_vars => TypeOK' /\ RoundInv'
  <2> SUFFICES ASSUME TypeOK, RoundInv, [Next]_vars PROVE TypeOK' /\ RoundInv'
    OBVIOUS
  <2> USE DEF TypeOK, RoundInv, AgreesWithDone
  <2>1. ASSUME NEW c \in Conns, SetState(c) PROVE TypeOK' /\ RoundInv'
    BY <2>1 DEF SetState
  <2>2. ASSUME NEW c \in Conns, ThreadEnds(c) PROVE TypeOK' /\ RoundInv'
    BY <2>2 DEF ThreadEnds
  <2>3. CASE Check
    BY <2>3 DEF Check
  <2>4. CASE Blink
    BY <2>4 DEF Blink
  <2>5. CASE Compare
    BY <2>5 DEF Compare
  <2>6. CASE Note
    BY <2>6 DEF Note
  <2>7. CASE PaintState
    BY <2>7 DEF PaintState
  <2>8. CASE UNCHANGED vars
    BY <2>8 DEF vars
  <2>9. QED
    BY <2>1, <2>2, <2>3, <2>4, <2>5, <2>6, <2>7, <2>8 DEF Next, OnIdle
<1>3. QED
  BY <1>1, <1>2, PTL DEF Spec

(* Every variable keeps its type, whichever thread reports what when.      *)
THEOREM TypeCorrect == Spec => []TypeOK
  BY RoundInvariance, PTL

(* However many sessions report to the one Callback, a round that no       *)
(* report has come into leaves the LED showing what was painted last.      *)
THEOREM LedAgrees == Spec => []AgreesWithDone
<1>1. RoundInv => AgreesWithDone
  BY DEF RoundInv, AgreesWithDone
<1>2. QED
  BY <1>1, RoundInvariance, PTL
=============================================================================
