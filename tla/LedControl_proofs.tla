-------------------------- MODULE LedControl_proofs --------------------------
(***************************************************************************)
(* The speeds and modes of LedControl, for any number of modes, any        *)
(* strides and any width of the counters.                                  *)
(***************************************************************************)
EXTENDS LedControl, TLAPS

(* What the proofs need of the strides and the width.                      *)
Strides ==
    /\ Fine \in Nat /\ Coarse \in Nat /\ Knee \in Nat /\ MaxInterval \in Nat /\ Width \in Nat
    /\ 0 < Fine /\ Fine <= Coarse /\ Coarse < Knee /\ Knee < MaxInterval
    /\ MaxInterval + Coarse <= Width

LEMMA StridesHold == Strides
BY LedControlAssumption DEF Strides

LEMMA MovedType ==
    ASSUME NEW s \in Int, NEW d \in Int
    PROVE  Moved(s, d) \in 0 .. Width - 1
<1>1. Width \in Nat /\ 0 < Width
    BY StridesHold DEF Strides
<1>2. s + d \in Int
    OBVIOUS
<1> QED BY <1>1, <1>2 DEF Moved

LEMMA MovedExact ==
    ASSUME NEW s \in Int, NEW d \in Int, s + d \in 0 .. Width - 1
    PROVE  Moved(s, d) = s + d
<1>1. Width \in Nat /\ 0 < Width
    BY StridesHold DEF Strides
<1> QED BY <1>1 DEF Moved

LEMMA CompanionType ==
    ASSUME NEW h \in HeadModes
    PROVE  Companion(h) \in KeyModes /\ CompanionIndex(h) = Companion(h)
BY LedControlAssumption DEF Companion, CompanionIndex, KeyModes, HeadModes

LEMMA Around ==
    ASSUME NEW n \in Nat \ {0}, NEW i \in 0 .. n - 1
    PROVE  NextOf(i, n) \in 0 .. n - 1 /\ PrevOf(i, n) \in 0 .. n - 1
BY DEF NextOf, PrevOf

LEMMA StrideType ==
    ASSUME NEW s \in 0 .. Width - 1
    PROVE  Stride(s) \in Nat /\ Stride(s) \in Fine .. Coarse
BY StridesHold DEF Stride, Strides

(* Every change of the state there is: the handlers with their arguments.  *)
LEMMA Steps ==
    ASSUME TypeOK, Next
    PROVE  \/ \E i \in KeyModes : SetKeyMode(i)
           \/ \E i \in HeadModes : SetHeadMode(i)
           \/ \E b \in BOOLEAN, d \in Int : KeySpeed(b, d)
           \/ HeadSlower \/ HeadFaster \/ Save \/ PowerCycle
<1>1. BuiltIn + Custom \in Nat \ {0} /\ Custom + 1 \in Nat \ {0}
    BY LedControlAssumption
<1>2. HeadModes = 0 .. (Custom + 1) - 1
    BY LedControlAssumption DEF HeadModes
<1>3. CASE KeyNext \/ KeyPrev
    <2>1. key_led_index \in 0 .. (BuiltIn + Custom) - 1
        BY LedControlAssumption DEF KeyModes, TypeOK
    <2>2. /\ NextOf(key_led_index, BuiltIn + Custom) \in 0 .. (BuiltIn + Custom) - 1
          /\ PrevOf(key_led_index, BuiltIn + Custom) \in 0 .. (BuiltIn + Custom) - 1
        BY <1>1, <2>1, Around
    <2>3. KeyModes = 0 .. (BuiltIn + Custom) - 1
        BY LedControlAssumption DEF KeyModes
    <2>4. CASE KeyNext
        BY <2>2, <2>3, <2>4 DEF KeyNext
    <2>5. CASE KeyPrev
        BY <2>2, <2>3, <2>5 DEF KeyPrev
    <2> QED BY <1>3, <2>4, <2>5
<1>4. CASE HeadNext \/ HeadPrev
    <2>1. head_led_index \in 0 .. (Custom + 1) - 1
        BY <1>2 DEF TypeOK
    <2>2. /\ NextOf(head_led_index, Custom + 1) \in 0 .. (Custom + 1) - 1
          /\ PrevOf(head_led_index, Custom + 1) \in 0 .. (Custom + 1) - 1
        BY <1>1, <2>1, Around
    <2>3. CASE HeadNext
        BY <1>2, <2>2, <2>3 DEF HeadNext
    <2>4. CASE HeadPrev
        BY <1>2, <2>2, <2>4 DEF HeadPrev
    <2> QED BY <1>4, <2>3, <2>4
<1>5. CASE KeySlower \/ KeyFaster
    <2>1. key_step[key_led_play] \in 0 .. Width - 1
        BY DEF TypeOK
    <2>2. Stride(key_step[key_led_play]) \in Nat
        BY <2>1, StrideType
    <2>3. -Stride(key_step[key_led_play]) \in Int /\ Stride(key_step[key_led_play]) \in Int
        BY <2>2
    <2>4. CanSlowDown(key_step[key_led_play]) \in BOOLEAN /\ CanSpeedUp(key_step[key_led_play]) \in BOOLEAN
        BY DEF CanSlowDown, CanSpeedUp
    <2> QED BY <1>5, <2>3, <2>4 DEF KeySlower, KeyFaster
<1> QED BY <1>3, <1>4, <1>5 DEF Next

-----------------------------------------------------------------------------
LEMMA InitType == ASSUME Init PROVE TypeOK
<1>1. 0 \in KeyModes /\ 0 \in HeadModes
    BY LedControlAssumption DEF KeyModes, HeadModes
<1>2. 1 .. MaxInterval \subseteq 0 .. Width - 1
    BY StridesHold DEF Strides
<1>3. KeyStart \in [KeyModes -> 0 .. Width - 1] /\ HeadStart \in [HeadModes -> 0 .. Width - 1]
    BY <1>2, LedControlAssumption
<1> QED BY <1>1, <1>3 DEF Init, TypeOK

LEMMA NextType == ASSUME TypeOK, [Next]_vars PROVE TypeOK'
<1> USE DEF TypeOK
<1>1. ASSUME NEW i \in KeyModes, SetKeyMode(i) PROVE TypeOK'
    <2>1. [key |-> i, head |-> head_led_play] \in Choice
        BY DEF Choice
    <2> QED BY <1>1, <2>1 DEF SetKeyMode, Remember
<1>2. ASSUME NEW i \in HeadModes, SetHeadMode(i) PROVE TypeOK'
    <2>1. Companion(i) \in KeyModes /\ CompanionIndex(i) \in KeyModes
        BY CompanionType
    <2>2. [key |-> Companion(i), head |-> i] \in Choice
        BY <2>1 DEF Choice
    <2>3. Adopt(i) \in [KeyModes -> 0 .. Width - 1]
        BY <2>1 DEF Adopt
    <2> QED BY <1>2, <2>1, <2>2, <2>3 DEF SetHeadMode, Remember
<1>3. ASSUME NEW b, NEW d \in Int, KeySpeed(b, d) PROVE TypeOK'
    <2>1. key_step[key_led_play] \in Int
        OBVIOUS
    <2>2. Moved(key_step[key_led_play], d) \in 0 .. Width - 1
        BY <2>1, MovedType
    <2>3. key_step' \in [KeyModes -> 0 .. Width - 1]
        BY <1>3, <2>2 DEF KeySpeed
    <2> QED BY <1>3, <2>3 DEF KeySpeed, modes
<1>4. ASSUME NEW b, NEW d \in Int, HeadSpeed(b, d) PROVE TypeOK'
    <2>1. key_step[key_led_play] \in Int /\ head_step[head_led_play] \in Int
        OBVIOUS
    <2>2. /\ Moved(key_step[key_led_play], d) \in 0 .. Width - 1
          /\ Moved(head_step[head_led_play], d) \in 0 .. Width - 1
        BY <2>1, MovedType
    <2>3. /\ key_step' \in [KeyModes -> 0 .. Width - 1]
          /\ head_step' \in [HeadModes -> 0 .. Width - 1]
        BY <1>4, <2>2 DEF HeadSpeed
    <2> QED BY <1>4, <2>3 DEF HeadSpeed, modes
<1>5. CASE HeadSlower \/ HeadFaster
    <2>1. head_step[head_led_play] \in 0 .. Width - 1
        OBVIOUS
    <2>2. Stride(head_step[head_led_play]) \in Nat
        BY <2>1, StrideType
    <2>3. -Stride(head_step[head_led_play]) \in Int /\ Stride(head_step[head_led_play]) \in Int
        BY <2>2
    <2> QED BY <1>4, <1>5, <2>3 DEF HeadSlower, HeadFaster
<1>6. CASE Save
    BY <1>6 DEF Save, modes
<1>7. CASE PowerCycle
    <2>1. 0 \in KeyModes /\ 0 \in HeadModes
        BY LedControlAssumption DEF KeyModes, HeadModes
    <2>2. 1 .. MaxInterval \subseteq 0 .. Width - 1
        BY StridesHold DEF Strides
    <2>3. KeyStart \in [KeyModes -> 0 .. Width - 1] /\ HeadStart \in [HeadModes -> 0 .. Width - 1]
        BY <2>2, LedControlAssumption
    <2>4. key_led_play' \in KeyModes /\ head_led_play' \in HeadModes
        BY <1>7, <2>1 DEF PowerCycle, Restored
    <2>5. joined' \in BOOLEAN
        BY <1>7 DEF PowerCycle
    <2> QED BY <1>7, <2>1, <2>3, <2>4, <2>5 DEF PowerCycle
<1>8. CASE UNCHANGED vars
    BY <1>8 DEF vars, modes
<1> QED BY <1>1, <1>2, <1>3, <1>5, <1>6, <1>7, <1>8, Steps

(* For any modes and strides, the two indexes stay in their lists and the  *)
(* speeds in sixteen bits.                                                 *)
THEOREM TypeCorrect == Spec => []TypeOK
BY InitType, NextType, PTL DEF Spec

-----------------------------------------------------------------------------
(* A speed that may be stepped down stays above zero, one that may be      *)
(* stepped up stays within a stride of the maximum; neither wraps.         *)
Speeds == Min + 1 .. MaxInterval + Coarse - 1

LEMMA SlowerInRange ==
    ASSUME NEW s \in Speeds, CanSlowDown(s)
    PROVE  Moved(s, Stride(s)) \in Speeds
<1>1. /\ Stride(s) \in Int
      /\ s + Stride(s) \in Speeds
      /\ s + Stride(s) \in 0 .. Width - 1
    BY StridesHold DEF Strides, Stride, Speeds, CanSlowDown, Min
<1>2. s \in Int
    BY DEF Speeds
<1> QED BY <1>1, <1>2, MovedExact

LEMMA FasterInRange ==
    ASSUME NEW s \in Speeds, CanSpeedUp(s)
    PROVE  Moved(s, -Stride(s)) \in Speeds
<1>1. /\ -Stride(s) \in Int
      /\ s + (-Stride(s)) \in Speeds
      /\ s + (-Stride(s)) \in 0 .. Width - 1
    BY StridesHold DEF Strides, Stride, Speeds, CanSpeedUp, Min
<1>2. s \in Int
    BY DEF Speeds
<1> QED BY <1>1, <1>2, MovedExact

LEMMA StartSpeeds == \A h \in HeadModes : HeadStart[h] \in Speeds
<1>1. \A h \in HeadModes : HeadStart[h] \in 1 .. MaxInterval
    BY LedControlAssumption
<1>2. 1 .. MaxInterval \subseteq Speeds
    BY StridesHold DEF Strides, Speeds, Min
<1> QED BY <1>1, <1>2

LEMMA SpeedStep == ASSUME TypeOK, HeadSpeedInRange, [Next]_vars PROVE HeadSpeedInRange'
<1> USE DEF HeadSpeedInRange
<1>1. CASE HeadSlower
    <2>1. head_step[head_led_play] \in Speeds
        BY DEF TypeOK, Speeds
    <2>2. Moved(head_step[head_led_play], Stride(head_step[head_led_play])) \in Speeds
        BY <1>1, <2>1, SlowerInRange DEF HeadSlower, HeadSpeed
    <2> QED BY <1>1, <2>2 DEF HeadSlower, HeadSpeed, TypeOK, Speeds
<1>2. CASE HeadFaster
    <2>1. head_step[head_led_play] \in Speeds
        BY DEF TypeOK, Speeds
    <2>2. Moved(head_step[head_led_play], -Stride(head_step[head_led_play])) \in Speeds
        BY <1>2, <2>1, FasterInRange DEF HeadFaster, HeadSpeed
    <2> QED BY <1>2, <2>2 DEF HeadFaster, HeadSpeed, TypeOK, Speeds
<1>3. CASE PowerCycle
    BY <1>3, StartSpeeds DEF PowerCycle, Speeds
<1>4. ASSUME UNCHANGED head_step PROVE HeadSpeedInRange'
    BY <1>4
<1> QED BY <1>1, <1>2, <1>3, <1>4, Steps
        DEF SetKeyMode, SetHeadMode, KeySpeed, Save, vars

(* For any strides, maximum and width, no order of keys makes the head's   *)
(* speed wrap: the guards of haed_led_speed_dec and head_led_speed_inc.    *)
THEOREM HeadSpeedStays == Spec => []HeadSpeedInRange
<1>1. Init => HeadSpeedInRange
    BY StartSpeeds DEF Init, HeadSpeedInRange, Speeds
<1>2. TypeOK /\ HeadSpeedInRange /\ [Next]_vars => HeadSpeedInRange'
    BY SpeedStep
<1> QED BY <1>1, <1>2, TypeCorrect, PTL DEF Spec

-----------------------------------------------------------------------------
LEMMA JoinedStep == ASSUME TypeOK, InStep, [Next]_vars PROVE InStep'
<1> USE DEF InStep
<1>1. ASSUME NEW i \in KeyModes, SetKeyMode(i) PROVE InStep'
    BY <1>1 DEF SetKeyMode
<1>2. ASSUME NEW i \in HeadModes, SetHeadMode(i) PROVE InStep'
    BY <1>2, CompanionType DEF SetHeadMode, Adopt, TypeOK
<1>3. ASSUME NEW b, NEW d \in Int, KeySpeed(b, d) PROVE InStep'
    BY <1>3 DEF KeySpeed
<1>4. ASSUME NEW b, NEW d \in Int, HeadSpeed(b, d) PROVE InStep'
    BY <1>4 DEF HeadSpeed, modes, TypeOK
<1>5. CASE HeadSlower \/ HeadFaster
    <2>1. head_step[head_led_play] \in 0 .. Width - 1
        BY DEF TypeOK
    <2>2. Stride(head_step[head_led_play]) \in Nat
        BY <2>1, StrideType
    <2>3. -Stride(head_step[head_led_play]) \in Int /\ Stride(head_step[head_led_play]) \in Int
        BY <2>2
    <2> QED BY <1>4, <1>5, <2>3 DEF HeadSlower, HeadFaster
<1>6. CASE Save
    BY <1>6 DEF Save, modes
<1>7. CASE PowerCycle
    <2>1. head_led_play' \in HeadModes
        BY <1>7, NextType DEF TypeOK
    <2> QED BY <1>7, <2>1, LedControlAssumption DEF PowerCycle
<1>8. CASE UNCHANGED vars
    BY <1>8 DEF vars, modes
<1> QED BY <1>1, <1>2, <1>3, <1>5, <1>6, <1>7, <1>8, Steps

(* Once the head's mode has set the keys', both threads count on one step, *)
(* whatever the head's speed keys do.                                      *)
THEOREM StayInStep == Spec => []InStep
<1>1. Init => InStep
    BY LedControlAssumption DEF Init, InStep, Companion, HeadModes
<1>2. TypeOK /\ InStep /\ [Next]_vars => InStep'
    BY JoinedStep
<1> QED BY <1>1, <1>2, TypeCorrect, PTL DEF Spec

(* The numbers head_led_next_func writes for a companion's place and the   *)
(* lists agree.                                                            *)
THEOREM CountingIsRight == Spec => []CountsFromHere
<1>1. Init => CountsFromHere
    BY DEF Init, CountsFromHere
<1>2. ASSUME TypeOK, CountsFromHere, [Next]_vars PROVE CountsFromHere'
    <2> USE DEF CountsFromHere
    <2>1. ASSUME NEW i \in HeadModes, SetHeadMode(i) PROVE CountsFromHere'
        BY <2>1, CompanionType DEF SetHeadMode
    <2>2. ASSUME NEW i \in KeyModes, SetKeyMode(i) PROVE CountsFromHere'
        BY <2>2 DEF SetKeyMode
    <2>3. CASE PowerCycle
        BY <2>3 DEF PowerCycle
    <2>4. ASSUME UNCHANGED <<modes, counted>> PROVE CountsFromHere'
        BY <1>2, <2>4 DEF modes
    <2> QED BY <1>2, <2>1, <2>2, <2>3, <2>4, Steps
            DEF KeySpeed, HeadSlower, HeadFaster, HeadSpeed, Save, vars
<1> QED BY <1>1, <1>2, TypeCorrect, PTL DEF Spec

-----------------------------------------------------------------------------
(* Why a mode survives: the settings in RAM are those of the modes, and    *)
(* the record is the settings in RAM whenever no save is under way.        *)
Kept ==
    /\ IF curr = Nothing THEN key_led_play = 0 /\ head_led_play = 0
       ELSE key_led_play = curr.key /\ head_led_play = curr.head
    /\ ~saving => saved = curr

LEMMA NothingIsNoChoice == Nothing \notin Choice
BY DEF Nothing, Choice

LEMMA KeptStep == ASSUME TypeOK, Kept, [Next]_vars PROVE Kept'
<1> USE DEF Kept
<1>1. ASSUME NEW i \in KeyModes, SetKeyMode(i) PROVE Kept'
    <2>1. [key |-> i, head |-> head_led_play] \in Choice
        BY DEF Choice, TypeOK
    <2> QED BY <1>1, <2>1, NothingIsNoChoice DEF SetKeyMode, Remember
<1>2. ASSUME NEW i \in HeadModes, SetHeadMode(i) PROVE Kept'
    <2>1. [key |-> Companion(i), head |-> i] \in Choice
        BY CompanionType DEF Choice
    <2> QED BY <1>2, <2>1, NothingIsNoChoice DEF SetHeadMode, Remember
<1>3. ASSUME UNCHANGED <<modes, curr, saved>>, saving => saving' PROVE Kept'
    BY <1>3 DEF modes
<1>4. CASE Save
    BY <1>4 DEF Save, modes
<1>5. CASE PowerCycle
    <2>1. CASE saved = Nothing
        BY <1>5, <2>1 DEF PowerCycle
    <2>2. CASE saved # Nothing
        <3>1. saved.key \in KeyModes /\ saved.head \in HeadModes
            BY <2>2 DEF TypeOK, Choice
        <3> QED BY <1>5, <2>2, <3>1 DEF PowerCycle, Restored
    <2> QED BY <2>1, <2>2
<1>6. CASE HeadSlower \/ HeadFaster
    BY <1>3, <1>6 DEF HeadSlower, HeadFaster, HeadSpeed
<1>7. ASSUME NEW b, NEW d \in Int, KeySpeed(b, d) PROVE Kept'
    BY <1>3, <1>7 DEF KeySpeed
<1> QED BY <1>1, <1>2, <1>3, <1>4, <1>5, <1>6, <1>7, Steps DEF vars

(* A chosen and saved mode is found again after a loss of power, whatever  *)
(* the lists and whatever happened before.                                 *)
THEOREM ModesAreKept == Spec => ModesSurvive
<1>1. Init => Kept
    BY DEF Init, Kept
<1>2. TypeOK /\ Kept /\ [Next]_vars => Kept'
    BY KeptStep
<1>3. ASSUME TypeOK, Kept, PowerCycle, ~saving
      PROVE  UNCHANGED <<key_led_play, head_led_play>>
    <2>1. CASE saved = Nothing
        BY <1>3, <2>1 DEF Kept, PowerCycle
    <2>2. CASE saved # Nothing
        <3>1. saved.key \in KeyModes /\ saved.head \in HeadModes
            BY <1>3, <2>2 DEF TypeOK, Choice
        <3> QED BY <1>3, <2>2, <3>1 DEF Kept, PowerCycle, Restored
    <2> QED BY <2>1, <2>2
<1>4. TypeOK /\ Kept /\ [Next]_vars
      => [PowerCycle /\ ~saving => UNCHANGED <<key_led_play, head_led_play>>]_vars
    BY <1>3
<1> QED BY <1>1, <1>2, <1>4, TypeCorrect, PTL DEF Spec, ModesSurvive
=============================================================================
