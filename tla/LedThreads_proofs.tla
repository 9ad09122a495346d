-------------------------- MODULE LedThreads_proofs --------------------------
(***************************************************************************)
(* Theorems about LedThreads, for any number of chips, any lightnesses and *)
(* any width: the types, and that the chips have the brightness that was   *)
(* asked for, the side chip dark at most, when no brightness key comes in  *)
(* the frame of a restart.                                                 *)
(***************************************************************************)
EXTENDS LedThreads, TLAPS

(* The inductive strengthening of ChipsMatch, for thread t.                *)

\* While a restart is not followed by a frame, the index it set stands.
LateIsDark == (\E t \in Threads : late[t]) => \A t \in Threads : index[t] = 0

\* The chips of t that this frame has drawn; all of them between frames.
Done(t, k) == at[t] = 0 \/ Turn(<<t, k>>) < at[t]

DrawnAreTold ==
    \A t \in Threads : \A k \in 1 .. Chips[t] :
        Done(t, k) =>
           \/ told[<<t, k>>] = lightness[t]
           \/ <<t, k>> = Side /\ ~streaming /\ told[<<t, k>>] = 0

\* A chip shows what it was told, or a restart left it dark.
ToldOrDark ==
    \A t \in Threads : ~lost[t] => \A k \in 1 .. Chips[t] :
        hw[<<t, k>>] \in {0, told[<<t, k>>]}

\* A dark chip is drawn by this frame, and then told, or is to be dark.
DarkWillBeTold ==
    \A t \in Threads : ~lost[t] /\ ~late[t] => \A k \in 1 .. Chips[t] :
        \/ hw[<<t, k>>] = told[<<t, k>>]
        \/ lightness[t] = 0
        \/ ~Done(t, k) /\ told[<<t, k>>] # lightness[t]

IInv ==
    /\ TypeOK /\ LateIsDark
    /\ DrawnAreTold /\ ToldOrDark /\ DarkWillBeTold

-----------------------------------------------------------------------------
LEMMA Widths ==
    /\ Width \in Nat /\ 0 < Width /\ Last \in Nat /\ 0 \in Indexes /\ 0 \in Byte
    /\ Lightness \in [Indexes -> Byte] /\ Lightness[0] = 0
    /\ CheckEvery \in Nat /\ 0 < CheckEvery /\ StartIndex \in Indexes
BY LedThreadsAssumption DEF Indexes, Byte

LEMMA ChipsOf ==
    ASSUME NEW t \in Threads
    PROVE  Chips[t] \in Nat /\ 1 <= Chips[t]
BY LedThreadsAssumption

LEMMA Pairs ==
    ASSUME NEW t \in Threads, NEW k \in 1 .. Chips[t]
    PROVE  <<t, k>> \in Chip
BY DEF Chip

LEMMA CheckedIsChip == Checked \in Chip
<1>1. "key" \in Threads
    BY DEF Threads
<1>2. 1 \in 1 .. Chips["key"]
    BY <1>1, ChipsOf
<1> QED BY <1>1, <1>2, Pairs DEF Checked

(* Every chip has its turn, and no two of a thread have the same: Turn for *)
(* a frame that streams or does not.                                       *)
TurnIn(c, streams) ==
    IF c[1] = "head" /\ ~streams THEN (IF c = Side THEN 1 ELSE c[2] + 1) ELSE c[2]

LEMMA TurnsIn ==
    ASSUME NEW t \in Threads, NEW streams
    PROVE  /\ \A k \in 1 .. Chips[t] : TurnIn(<<t, k>>, streams) \in 1 .. Chips[t]
           /\ \A j, k \in 1 .. Chips[t] :
                 TurnIn(<<t, j>>, streams) = TurnIn(<<t, k>>, streams) => j = k
<1>1. Chips[t] \in Nat
    BY ChipsOf
<1>2. \A k \in 1 .. Chips[t] :
          /\ <<t, k>>[1] = t /\ <<t, k>>[2] = k
          /\ <<t, k>> = Side <=> t = "head" /\ k = Chips[t]
    BY DEF Side
<1>3. \A k \in 1 .. Chips[t] : TurnIn(<<t, k>>, streams) =
          IF t = "head" /\ ~streams THEN (IF k = Chips[t] THEN 1 ELSE k + 1) ELSE k
    BY <1>2 DEF TurnIn
<1> QED BY <1>1, <1>3

LEMMA Turns ==
    ASSUME NEW t \in Threads
    PROVE  /\ \A k \in 1 .. Chips[t] : Turn(<<t, k>>) \in 1 .. Chips[t]
           /\ \A k \in 1 .. Chips[t] : Turn(<<t, k>>)' \in 1 .. Chips[t]
           /\ \A j, k \in 1 .. Chips[t] : Turn(<<t, j>>) = Turn(<<t, k>>) => j = k
<1>1. /\ \A c : Turn(c) = TurnIn(c, streaming)
      /\ \A c : Turn(c)' = TurnIn(c, streaming')
    BY DEF Turn, TurnIn
<1> HIDE DEF TurnIn
<1> QED BY <1>1, TurnsIn

LEMMA WantedType ==
    ASSUME TypeOK, NEW t \in Threads, NEW k \in 1 .. Chips[t]
    PROVE  /\ Wanted(<<t, k>>) \in Byte
           /\ \/ Wanted(<<t, k>>) = lightness[t]
              \/ <<t, k>> = Side /\ ~streaming /\ Wanted(<<t, k>>) = 0
BY Widths DEF Wanted, TypeOK

LEMMA BrighterType ==
    ASSUME NEW l \in Byte
    PROVE  Brighter(l) \in Byte /\ (Brighter(l) = l => l = 0)
<1>1. Width \in Nat /\ 0 < Width /\ l \in Nat /\ l < Width
    BY Widths DEF Byte
<1>2. CASE l + 1 < Width
    <2>1. (l + 1) % Width = l + 1
        BY <1>1, <1>2
    <2> QED BY <1>1, <1>2, <2>1 DEF Brighter, Byte
<1>3. CASE l + 1 = Width
    <2>1. Width % Width = 0
        BY <1>1
    <2>2. Brighter(l) = 0
        BY <1>3, <2>1 DEF Brighter
    <2> HIDE DEF Brighter
    <2> QED BY <1>1, <2>2 DEF Byte
<1> QED BY <1>1, <1>2, <1>3

(* What a thread chooses to show is a lightness of the table or nothing.   *)
LEMMA ChosenType ==
    ASSUME TypeOK, NEW t \in Threads
    PROVE  /\ Lightness[index[t]] \in Byte
           /\ (IF led_switch[t] THEN Lightness[index[t]] ELSE 0) \in Byte
           /\ index[t] = 0 => (IF led_switch[t] THEN Lightness[index[t]] ELSE 0) = 0
<1>1. index[t] \in Indexes
    BY DEF TypeOK
<1> QED BY <1>1, Widths

-----------------------------------------------------------------------------
LEMMA InitType == Init => TypeOK
<1> SUFFICES ASSUME Init PROVE TypeOK
    OBVIOUS
<1>1. \A t \in Threads : 0 <= Chips[t] + 1
    BY ChipsOf
<1>2. 0 \in 0 .. CheckEvery - 1
    BY Widths
<1>3. at \in [Threads -> Nat] /\ \A t \in Threads : at[t] <= Chips[t] + 1
    BY <1>1 DEF Init
<1> QED BY <1>2, <1>3, Widths DEF Init, TypeOK

(* Every action keeps the types.                                           *)
LEMMA StepType == TypeOK /\ [Next]_vars => TypeOK'
<1> SUFFICES ASSUME TypeOK, [Next]_vars PROVE TypeOK'
    OBVIOUS
<1>1. ASSUME NEW t \in Threads, StartFrame(t) PROVE TypeOK'
    <2> DEFINE up == Brighter(lightness[t])
               chosen == IF led_switch[t] THEN Lightness[index[t]] ELSE 0
    <2>1. up \in Byte /\ chosen \in Byte
        BY BrighterType, ChosenType DEF TypeOK
    <2>2. lightness' \in [Threads -> Byte]
        BY <1>1, <2>1 DEF StartFrame, TypeOK
    <2>3. light_up_complete' \in [Threads -> BOOLEAN]
        BY <1>1 DEF StartFrame, TypeOK
    <2>4. at' \in [Threads -> Nat] /\ \A u \in Threads : at'[u] <= Chips[u] + 1
        BY <1>1, ChipsOf DEF StartFrame, TypeOK
    <2>5. count' \in 0 .. CheckEvery - 1
        BY <1>1, Widths DEF StartFrame, TypeOK
    <2>6. late' \in [Threads -> BOOLEAN] /\ streaming' \in BOOLEAN
        BY <1>1 DEF StartFrame, TypeOK
    <2> QED BY <1>1, <2>2, <2>3, <2>4, <2>5, <2>6 DEF StartFrame, TypeOK, chipVars
<1>2. ASSUME NEW t \in Threads, DrawChip(t) PROVE TypeOK'
    <2>1. PICK k \in 1 .. Chips[t] :
             /\ Turn(<<t, k>>) = at[t]
             /\ IF told[<<t, k>>] # Wanted(<<t, k>>)
                THEN /\ hw' = Send(<<t, k>>, Wanted(<<t, k>>))
                     /\ told' = [told EXCEPT ![<<t, k>>] = Wanted(<<t, k>>)]
                ELSE UNCHANGED <<hw, told>>
        BY <1>2 DEF DrawChip
    <2>2. <<t, k>> \in Chip /\ Wanted(<<t, k>>) \in Byte
        BY Pairs, WantedType
    <2>3. at[t] \in 1 .. Chips[t]
        BY <2>1, Turns DEF TypeOK
    <2>4. hw' \in [Chip -> Byte] /\ told' \in [Chip -> Byte]
        <3> HIDE DEF Wanted
        <3> QED BY <2>1, <2>2 DEF Send, TypeOK
    <2>5. at' \in [Threads -> Nat] /\ \A u \in Threads : at'[u] <= Chips[u] + 1
        BY <1>2, <2>3, ChipsOf DEF DrawChip, TypeOK
    <2> QED BY <1>2, <2>4, <2>5 DEF DrawChip, TypeOK
<1>3. ASSUME NEW t \in Threads, EndFrame(t) PROVE TypeOK'
    <2>1. at' \in [Threads -> Nat] /\ \A u \in Threads : at'[u] <= Chips[u] + 1
        BY <1>3, ChipsOf DEF EndFrame, TypeOK
    <2>2. streaming' \in BOOLEAN
        BY <1>3 DEF EndFrame, TypeOK
    <2> QED BY <1>3, <2>1, <2>2 DEF EndFrame, TypeOK, chipVars
<1>4. ASSUME Restart PROVE TypeOK'
    <2>1. at' \in [Threads -> Nat] /\ \A u \in Threads : at'[u] <= Chips[u] + 1
        <3>1. \A u \in Threads : Chips[u] \in Nat /\ at[u] \in Nat /\ at[u] <= Chips[u] + 1
            BY ChipsOf DEF TypeOK
        <3>2. at' = [u \in Threads |-> IF u = "key" THEN 0 ELSE at[u]]
            BY <1>4 DEF Restart, TypeOK
        <3> QED BY <3>1, <3>2
    <2>2. hw' \in [Chip -> Byte]
        BY <1>4, Widths DEF Restart, TypeOK
    <2>3. on' \in [Chip -> BOOLEAN]
        <3>1. \A c \in Chip : on[c] \in BOOLEAN
            BY DEF TypeOK
        <3> QED BY <1>4, <3>1 DEF Restart
    <2>4. index' \in [Threads -> Indexes]
        BY <1>4, Widths DEF Restart
    <2>5. late' \in [Threads -> BOOLEAN] /\ lost' \in [Threads -> BOOLEAN]
        BY <1>4 DEF Restart
    <2> QED BY <1>4, <2>1, <2>2, <2>3, <2>4, <2>5 DEF Restart, TypeOK
<1>5. ASSUME NEW t \in Threads, Lightness_ins(t) PROVE TypeOK'
    <2>1. index' \in [Threads -> Indexes]
        BY <1>5, Widths DEF Lightness_ins, TypeOK, Indexes
    <2> QED BY <1>5, <2>1 DEF Lightness_ins, TypeOK, threadVars, chipVars
<1>6. ASSUME NEW t \in Threads, Lightness_dec(t) PROVE TypeOK'
    <2>1. index' \in [Threads -> Indexes]
        BY <1>6, Widths DEF Lightness_dec, TypeOK, Indexes
    <2> QED BY <1>6, <2>1 DEF Lightness_dec, TypeOK, threadVars, chipVars
<1>7. ASSUME NEW t \in Threads, Power(t) PROVE TypeOK'
    <2>1. led_switch' \in [Threads -> BOOLEAN]
        BY <1>7 DEF Power, TypeOK
    <2> QED BY <1>7, <2>1 DEF Power, TypeOK, threadVars, chipVars
<1>8. ASSUME Lose PROVE TypeOK'
    <2>1. PICK S \in SUBSET Chip :
              /\ on' = [c \in Chip |-> on[c] /\ c \notin S]
              /\ hw' = [c \in Chip |-> IF c \in S THEN 0 ELSE hw[c]]
              /\ lost' = [t \in Threads |-> lost[t] \/ \E c \in S : c[1] = t]
        BY <1>8 DEF Lose
    <2>2. hw' \in [Chip -> Byte]
        BY <2>1, Widths DEF TypeOK
    <2>3. on' \in [Chip -> BOOLEAN] /\ lost' \in [Threads -> BOOLEAN]
        BY <2>1
    <2> QED BY <1>8, <2>2, <2>3 DEF Lose, TypeOK, threadVars
<1>9. CASE UNCHANGED vars
    BY <1>9 DEF vars, threadVars, chipVars, TypeOK
<1> QED BY <1>1, <1>2, <1>3, <1>4, <1>5, <1>6, <1>7, <1>8, <1>9 DEF Next

(* The indexes stay in the table of lightnesses, the chip that is drawn is *)
(* one of the thread's, and every counter stays in its width: all of the   *)
(* handlers and threads of LedThreads, for any table and any chips.        *)
THEOREM TypeCorrect == Spec => []TypeOK
BY InitType, StepType, PTL DEF Spec
-----------------------------------------------------------------------------
LEMMA InitInv == Init => IInv
<1> SUFFICES ASSUME Init PROVE IInv
    OBVIOUS
<1>1. TypeOK
    BY InitType
<1>2. \A t \in Threads : \A k \in 1 .. Chips[t] :
          hw[<<t, k>>] = 0 /\ told[<<t, k>>] = 0 /\ lightness[t] = 0
    BY Pairs DEF Init
<1>3. DrawnAreTold /\ ToldOrDark /\ DarkWillBeTold
    BY <1>2 DEF DrawnAreTold, ToldOrDark, DarkWillBeTold
<1>4. LateIsDark
    BY DEF Init, LateIsDark
<1> QED BY <1>1, <1>3, <1>4 DEF IInv

(* A frame that starts is dark if it is the first after a restart, and     *)
(* during the fade shows something new.                                    *)
LEMMA FrameStarts ==
    ASSUME IInv, NEW t \in Threads, StartFrame(t)
    PROVE  /\ at[t] = 0 /\ at' = [at EXCEPT ![t] = 1]
           /\ late' = [late EXCEPT ![t] = FALSE]
           /\ \A u \in Threads : u # t =>
                 lightness'[u] = lightness[u] /\ light_up_complete'[u] = light_up_complete[u]
           /\ light_up_complete[t] /\ late[t] => lightness'[t] = 0
           /\ ~light_up_complete[t] => (lightness'[t] # lightness[t] \/ lightness'[t] = 0)
<1> DEFINE up == Brighter(lightness[t])
           chosen == IF led_switch[t] THEN Lightness[index[t]] ELSE 0
<1>1. TypeOK /\ LateIsDark
    BY DEF IInv
<1>2. lightness[t] \in Byte /\ (up = lightness[t] => lightness[t] = 0)
    BY <1>1, BrighterType DEF TypeOK
<1>3. late[t] => chosen = 0
    BY <1>1, Widths DEF LateIsDark
<1>5. /\ at[t] = 0 /\ at' = [at EXCEPT ![t] = 1]
      /\ late' = [late EXCEPT ![t] = FALSE]
    BY DEF StartFrame
<1>6. CASE light_up_complete[t]
    <2>1. lightness' = [lightness EXCEPT ![t] = chosen] /\ light_up_complete' = light_up_complete
        BY <1>6 DEF StartFrame
    <2> QED BY <1>1, <1>3, <1>5, <1>6, <2>1 DEF TypeOK
<1>7. CASE ~light_up_complete[t]
    <2>1. /\ lightness' = [lightness EXCEPT ![t] = up]
          /\ light_up_complete' =
                [light_up_complete EXCEPT ![t] = (up = Lightness[index[t]])]
        BY <1>7 DEF StartFrame
    <2>2. lightness'[t] = up
        BY <1>1, <2>1 DEF TypeOK
    <2> HIDE DEF up
    <2> QED BY <1>1, <1>2, <1>5, <1>7, <2>1, <2>2 DEF TypeOK
<1> QED BY <1>6, <1>7

(* StartFrame keeps what relates the chips to the threads.                 *)
LEMMA StartFrameKeeps ==
    ASSUME IInv, NEW t \in Threads, StartFrame(t)
    PROVE  (LateIsDark /\ DrawnAreTold /\ ToldOrDark /\ DarkWillBeTold)'
<1>1. TypeOK /\ LateIsDark /\ DrawnAreTold /\ ToldOrDark /\ DarkWillBeTold
    BY DEF IInv
<1>2. /\ index' = index /\ told' = told /\ hw' = hw /\ lost' = lost
    BY DEF StartFrame, chipVars
<1>3. /\ at[t] = 0 /\ at'[t] = 1 /\ late'[t] = FALSE
      /\ \A u \in Threads : u # t => at'[u] = at[u] /\ late'[u] = late[u]
    BY <1>1, FrameStarts DEF TypeOK
<1>4. /\ \A u \in Threads : u # t => lightness'[u] = lightness[u]
      /\ t # "head" => streaming' = streaming
    BY FrameStarts DEF StartFrame
<1>5. LateIsDark'
    <2>1. \A u \in Threads : late'[u] => late[u]
        BY <1>3
    <2> QED BY <1>1, <1>2, <2>1 DEF LateIsDark
<1>6. \A u \in Threads : u # t => \A k \in 1 .. Chips[u] :
          /\ Turn(<<u, k>>)' = Turn(<<u, k>>)
          /\ <<u, k>> = Side /\ ~streaming => <<u, k>> = Side /\ ~streaming'
    <2>1. \A u \in Threads : \A k \in 1 .. Chips[u] :
             <<u, k>>[1] = u /\ (<<u, k>> = Side => u = "head")
        BY DEF Side
    <2> QED BY <1>4, <2>1 DEF Turn, Threads
<1>7. \A k \in 1 .. Chips[t] :
          told[<<t, k>>] = lightness[t] \/ told[<<t, k>>] = 0
    BY <1>1, <1>3 DEF DrawnAreTold, Done
<1>8. \A k \in 1 .. Chips[t] : ~Done(t, k)'
    <2>1. \A k \in 1 .. Chips[t] : Turn(<<t, k>>)' \in 1 .. Chips[t]
        BY Turns
    <2> QED BY <1>3, <2>1, ChipsOf DEF Done
<1>9. DrawnAreTold'
    <2> SUFFICES ASSUME NEW u \in Threads, NEW k \in 1 .. Chips[u], Done(u, k)'
                 PROVE  \/ told'[<<u, k>>] = lightness'[u]
                        \/ <<u, k>> = Side /\ ~streaming' /\ told'[<<u, k>>] = 0
        BY DEF DrawnAreTold, Side
    <2>1. u # t
        BY <1>8
    <2>2. Done(u, k)
        BY <1>3, <1>6, <2>1 DEF Done
    <2> QED BY <1>1, <1>2, <1>4, <1>6, <2>1, <2>2 DEF DrawnAreTold
<1>10. ToldOrDark'
    BY <1>1, <1>2 DEF ToldOrDark
<1>11. DarkWillBeTold'
    <2> SUFFICES ASSUME NEW u \in Threads, ~lost'[u], ~late'[u], NEW k \in 1 .. Chips[u],
                        hw'[<<u, k>>] # told'[<<u, k>>], lightness'[u] # 0
                 PROVE  ~Done(u, k)' /\ told'[<<u, k>>] # lightness'[u]
        BY DEF DarkWillBeTold
    <2>1. CASE u # t
        <3>1. Done(u, k)' <=> Done(u, k)
            BY <1>3, <1>6, <2>1 DEF Done
        <3> QED BY <1>1, <1>2, <1>3, <1>4, <2>1, <3>1 DEF DarkWillBeTold
    <2>2. CASE u = t
        <3>1. ~Done(u, k)' /\ told'[<<u, k>>] = lightness[t]
            <4>1. hw[<<t, k>>] \in {0, told[<<t, k>>]} /\ hw[<<t, k>>] # told[<<t, k>>]
                BY <1>1, <1>2, <2>2 DEF ToldOrDark
            <4> QED BY <1>2, <1>7, <1>8, <2>2, <4>1
        <3>2. CASE ~light_up_complete[t]
            BY <2>2, <3>1, <3>2, FrameStarts
        <3>3. CASE light_up_complete[t]
            <4>1. ~late[t]
                BY <2>2, <3>3, FrameStarts
            <4>2. lightness[t] = 0
                BY <1>1, <1>2, <1>3, <1>7, <2>2, <4>1 DEF DarkWillBeTold, ToldOrDark, Done
            <4> QED BY <2>2, <3>1, <4>2
        <3> QED BY <3>2, <3>3
    <2> QED BY <2>1, <2>2
<1> QED BY <1>5, <1>9, <1>10, <1>11

(* DrawChip: the chip that is drawn comes to show the thread's brightness. *)
LEMMA DrawChipKeeps ==
    ASSUME IInv, NEW t \in Threads, DrawChip(t)
    PROVE  (LateIsDark /\ DrawnAreTold /\ ToldOrDark /\ DarkWillBeTold)'
<1>1. TypeOK /\ LateIsDark /\ DrawnAreTold /\ ToldOrDark /\ DarkWillBeTold
    BY DEF IInv
<1>2. /\ index' = index /\ late' = late /\ lost' = lost /\ lightness' = lightness
      /\ streaming' = streaming
    BY DEF DrawChip
<1>3. PICK n \in 1 .. Chips[t] :
         /\ Turn(<<t, n>>) = at[t]
         /\ IF told[<<t, n>>] # Wanted(<<t, n>>)
            THEN /\ hw' = Send(<<t, n>>, Wanted(<<t, n>>))
                 /\ told' = [told EXCEPT ![<<t, n>>] = Wanted(<<t, n>>)]
            ELSE UNCHANGED <<hw, told>>
    BY DEF DrawChip
<1> DEFINE c == <<t, n>>
           w == Wanted(c)
<1>4. /\ c \in Chip
      /\ \/ w = lightness[t]
         \/ c = Side /\ ~streaming /\ w = 0
    BY <1>1, Pairs, WantedType
<1>5. at'[t] = at[t] + 1 /\ \A u \in Threads : u # t => at'[u] = at[u]
    BY <1>1 DEF DrawChip, TypeOK
<1>6. /\ told'[c] = w
      /\ told[c] # w => hw'[c] = w
      /\ told[c] = w => hw'[c] = hw[c]
    <2> HIDE DEF w
    <2>1. IF told[c] # w THEN hw' = Send(c, w) /\ told' = [told EXCEPT ![c] = w]
          ELSE UNCHANGED <<hw, told>>
        BY <1>3 DEF w
    <2> QED BY <1>1, <1>4, <2>1 DEF Send, TypeOK
<1>7. \A u \in Threads : \A k \in 1 .. Chips[u] : <<u, k>> # c =>
          hw'[<<u, k>>] = hw[<<u, k>>] /\ told'[<<u, k>>] = told[<<u, k>>]
    <2> HIDE DEF w
    <2>1. IF told[c] # w THEN hw' = Send(c, w) /\ told' = [told EXCEPT ![c] = w]
          ELSE UNCHANGED <<hw, told>>
        BY <1>3 DEF w
    <2> QED BY <1>1, Pairs, <2>1 DEF Send, TypeOK
<1>8. \A u \in Threads : \A k \in 1 .. Chips[u] :
          <<u, k>> # c => (Done(u, k)' <=> Done(u, k))
    <2> SUFFICES ASSUME NEW u \in Threads, NEW k \in 1 .. Chips[u], <<u, k>> # c
                 PROVE  Done(u, k)' <=> Done(u, k)
        OBVIOUS
    <2>1. Turn(<<u, k>>)' = Turn(<<u, k>>) /\ Turn(<<u, k>>) \in 1 .. Chips[u]
        BY <1>2, Turns DEF Turn
    <2>2. CASE u # t
        BY <1>5, <2>1, <2>2 DEF Done
    <2>3. CASE u = t
        <3>1. Turn(<<u, k>>) # at[t] /\ at[t] \in Nat /\ at[t] >= 1 /\ Chips[t] \in Nat
            BY <1>3, <2>3, Turns, ChipsOf
        <3> QED BY <1>5, <2>1, <2>3, <3>1 DEF Done
    <2> QED BY <2>2, <2>3
<1>9. LateIsDark'
    BY <1>1, <1>2 DEF LateIsDark
<1>10. DrawnAreTold'
    <2> SUFFICES ASSUME NEW u \in Threads, NEW k \in 1 .. Chips[u], Done(u, k)'
                 PROVE  \/ told'[<<u, k>>] = lightness'[u]
                        \/ <<u, k>> = Side /\ ~streaming' /\ told'[<<u, k>>] = 0
        BY DEF DrawnAreTold, Side
    <2>1. CASE <<u, k>> = c
        BY <1>2, <1>4, <1>6, <2>1
    <2>2. CASE <<u, k>> # c
        BY <1>1, <1>2, <1>7, <1>8, <2>2 DEF DrawnAreTold
    <2> QED BY <2>1, <2>2
<1>11. ToldOrDark'
    <2> SUFFICES ASSUME NEW u \in Threads, ~lost'[u], NEW k \in 1 .. Chips[u]
                 PROVE  hw'[<<u, k>>] \in {0, told'[<<u, k>>]}
        BY DEF ToldOrDark
    <2>1. CASE <<u, k>> = c
        BY <1>1, <1>2, <1>6, <2>1 DEF ToldOrDark
    <2>2. CASE <<u, k>> # c
        BY <1>1, <1>2, <1>7, <2>2 DEF ToldOrDark
    <2> QED BY <2>1, <2>2
<1>12. DarkWillBeTold'
    <2> SUFFICES ASSUME NEW u \in Threads, ~lost'[u], ~late'[u], NEW k \in 1 .. Chips[u]
                 PROVE  \/ hw'[<<u, k>>] = told'[<<u, k>>]
                        \/ lightness'[u] = 0
                        \/ ~Done(u, k)' /\ told'[<<u, k>>] # lightness'[u]
        BY DEF DarkWillBeTold
    <2>1. CASE <<u, k>> = c
        <3>1. hw[c] \in {0, told[c]}
            BY <1>1, <1>2, <2>1 DEF ToldOrDark
        <3>2. \/ hw[c] = told[c] \/ lightness[t] = 0
              \/ told[c] # lightness[t]
            BY <1>1, <1>2, <2>1 DEF DarkWillBeTold
        <3> QED BY <1>2, <1>4, <1>6, <2>1, <3>1, <3>2
    <2>2. CASE <<u, k>> # c
        BY <1>1, <1>2, <1>7, <1>8, <2>2 DEF DarkWillBeTold
    <2> QED BY <2>1, <2>2
<1> QED BY <1>9, <1>10, <1>11, <1>12

(* A thread that has drawn its last chip has drawn them all.               *)
LEMMA AllDone ==
    ASSUME NEW t \in Threads, at[t] \in {0, Chips[t] + 1}
    PROVE  \A k \in 1 .. Chips[t] : Done(t, k)
<1>1. Chips[t] \in Nat /\ \A k \in 1 .. Chips[t] : Turn(<<t, k>>) \in 1 .. Chips[t]
    BY ChipsOf, Turns
<1> QED BY <1>1 DEF Done

(* EndFrame: between frames every chip of the thread has been drawn.       *)
LEMMA EndFrameKeeps ==
    ASSUME IInv, NEW t \in Threads, EndFrame(t)
    PROVE  (LateIsDark /\ DrawnAreTold /\ ToldOrDark /\ DarkWillBeTold)'
<1>1. TypeOK /\ LateIsDark /\ DrawnAreTold /\ ToldOrDark /\ DarkWillBeTold
    BY DEF IInv
<1>2. /\ index' = index /\ late' = late /\ lost' = lost /\ lightness' = lightness
      /\ told' = told /\ hw' = hw
    BY DEF EndFrame, chipVars
<1>3. at[t] = Chips[t] + 1 /\ at'[t] = 0 /\ \A u \in Threads : u # t => at'[u] = at[u]
    BY <1>1 DEF EndFrame, TypeOK
<1>4. \A u \in Threads : \A k \in 1 .. Chips[u] : Done(u, k)' <=> Done(u, k)
    <2> SUFFICES ASSUME NEW u \in Threads, NEW k \in 1 .. Chips[u]
                 PROVE  Done(u, k)' <=> Done(u, k)
        OBVIOUS
    <2>1. CASE u = t
        BY <1>3, <2>1, AllDone DEF Done
    <2>2. CASE u # t
        <3>1. Turn(<<u, k>>)' = Turn(<<u, k>>)
            BY <1>1, <2>2 DEF EndFrame, Turn, Side, TypeOK
        <3> QED BY <1>3, <2>2, <3>1 DEF Done
    <2> QED BY <2>1, <2>2
<1>5. LateIsDark' /\ ToldOrDark'
    BY <1>1, <1>2 DEF LateIsDark, ToldOrDark
<1>6. DrawnAreTold'
    <2>1. ~streaming => ~streaming'
        BY DEF EndFrame
    <2> QED BY <1>1, <1>2, <1>4, <2>1 DEF DrawnAreTold, Side
<1>7. DarkWillBeTold'
    BY <1>1, <1>2, <1>4 DEF DarkWillBeTold
<1> QED BY <1>5, <1>6, <1>7

(* Restart: all chips are dark, and so is every index.                     *)
LEMMA RestartKeeps ==
    ASSUME IInv, Restart
    PROVE  (LateIsDark /\ DrawnAreTold /\ ToldOrDark /\ DarkWillBeTold)'
<1>1. TypeOK /\ LateIsDark /\ DrawnAreTold
    BY DEF IInv
<1>2. lightness' = lightness /\ told' = told /\ streaming' = streaming
    BY DEF Restart
<1>3. /\ \A u \in Threads : index'[u] = 0 /\ late'[u]
      /\ \A d \in Chip : hw'[d] = 0
    BY DEF Restart, Initialised
<1>4. "key" \in Threads /\ at["key"] = Chips["key"] + 1 /\ at' = [at EXCEPT !["key"] = 0]
    BY DEF Restart, Threads
<1>5. at'["key"] = 0 /\ \A u \in Threads : u # "key" => at'[u] = at[u]
    BY <1>1, <1>4 DEF TypeOK
<1>6. \A u \in Threads : \A k \in 1 .. Chips[u] : Done(u, k)' <=> Done(u, k)
    <2>1. \A k \in 1 .. Chips["key"] : Done("key", k) /\ Done("key", k)'
        BY <1>4, <1>5, AllDone DEF Done
    <2>2. \A c : Turn(c)' = Turn(c)
        BY <1>2 DEF Turn
    <2> QED BY <1>5, <2>1, <2>2 DEF Done
<1>7. LateIsDark'
    BY <1>1, <1>2, <1>3 DEF LateIsDark
<1>8. DrawnAreTold'
    BY <1>1, <1>2, <1>6 DEF DrawnAreTold, Side
<1>9. ToldOrDark' /\ DarkWillBeTold'
    BY <1>3, Pairs DEF ToldOrDark, DarkWillBeTold
<1> QED BY <1>7, <1>8, <1>9

(* Lose: a chip that is lost is one of a thread that is noted as losing.   *)
LEMMA LoseKeeps ==
    ASSUME IInv, Lose
    PROVE  (LateIsDark /\ DrawnAreTold /\ ToldOrDark /\ DarkWillBeTold)'
<1>1. TypeOK /\ LateIsDark /\ DrawnAreTold /\ ToldOrDark /\ DarkWillBeTold
    BY DEF IInv
<1>2. /\ index' = index /\ late' = late /\ lightness' = lightness /\ told' = told /\ at' = at
      /\ streaming' = streaming
    BY DEF Lose, threadVars
<1>3. PICK S \in SUBSET Chip :
          /\ hw' = [d \in Chip |-> IF d \in S THEN 0 ELSE hw[d]]
          /\ lost' = [u \in Threads |-> lost[u] \/ \E d \in S : d[1] = u]
    BY DEF Lose
<1>4. \A u \in Threads : ~lost'[u] =>
          /\ ~lost[u]
          /\ \A k \in 1 .. Chips[u] : hw'[<<u, k>>] = hw[<<u, k>>]
    <2> SUFFICES ASSUME NEW u \in Threads, ~lost'[u]
                 PROVE  /\ ~lost[u]
                        /\ \A k \in 1 .. Chips[u] : hw'[<<u, k>>] = hw[<<u, k>>]
        OBVIOUS
    <2>1. ~lost[u] /\ ~\E d \in S : d[1] = u
        BY <1>3
    <2>2. ASSUME NEW k \in 1 .. Chips[u] PROVE <<u, k>> \in Chip /\ <<u, k>> \notin S
        <3>1. <<u, k>>[1] = u
            OBVIOUS
        <3> QED BY <2>1, <3>1, Pairs
    <2> QED BY <1>3, <2>1, <2>2
<1>5. LateIsDark' /\ DrawnAreTold'
    BY <1>1, <1>2 DEF LateIsDark, DrawnAreTold, Done, Turn, Side
<1>6. ToldOrDark' /\ DarkWillBeTold'
    BY <1>1, <1>2, <1>4 DEF ToldOrDark, DarkWillBeTold, Done, Turn
<1> QED BY <1>5, <1>6

(* The keys: none of them raises an index before a restart's next frame.   *)
LEMMA KeysKeep ==
    ASSUME ~QuickKeys, IInv, NEW t \in Threads,
           Lightness_ins(t) \/ Lightness_dec(t) \/ Power(t)
    PROVE  (LateIsDark /\ DrawnAreTold /\ ToldOrDark /\ DarkWillBeTold)'
<1>1. TypeOK /\ LateIsDark /\ DrawnAreTold /\ ToldOrDark /\ DarkWillBeTold
    BY DEF IInv
<1>2. /\ late' = late /\ lost' = lost /\ lightness' = lightness /\ at' = at
      /\ told' = told /\ hw' = hw /\ streaming' = streaming
    BY DEF Lightness_ins, Lightness_dec, Power, threadVars, chipVars
<1>3. (\E u \in Threads : late[u]) => index' = index
    <2> SUFFICES ASSUME \E u \in Threads : late[u] PROVE index' = index
        OBVIOUS
    <2>1. ~Lightness_ins(t)
        BY DEF Lightness_ins
    <2>2. index[t] = 0
        BY <1>1 DEF LateIsDark
    <2>3. ~Lightness_dec(t)
        BY <2>2 DEF Lightness_dec
    <2> QED BY <2>1, <2>3 DEF Power
<1>4. LateIsDark'
    BY <1>1, <1>2, <1>3 DEF LateIsDark
<1>5. DrawnAreTold' /\ ToldOrDark' /\ DarkWillBeTold'
    BY <1>1, <1>2 DEF DrawnAreTold, ToldOrDark, DarkWillBeTold, Done, Turn, Side
<1> QED BY <1>4, <1>5

LEMMA StepInv == ~QuickKeys /\ IInv /\ [Next]_vars => IInv'
<1> SUFFICES ASSUME ~QuickKeys, IInv, [Next]_vars PROVE IInv'
    OBVIOUS
<1> DEFINE J == LateIsDark /\ DrawnAreTold /\ ToldOrDark /\ DarkWillBeTold
<1>1. TypeOK'
    BY StepType DEF IInv
<1>2. ASSUME NEW t \in Threads, StartFrame(t) PROVE J'
    BY <1>2, StartFrameKeeps
<1>3. ASSUME NEW t \in Threads, DrawChip(t) PROVE J'
    BY <1>3, DrawChipKeeps
<1>4. ASSUME NEW t \in Threads, EndFrame(t) PROVE J'
    BY <1>4, EndFrameKeeps
<1>5. ASSUME Restart PROVE J'
    BY <1>5, RestartKeeps
<1>6. ASSUME NEW t \in Threads, Lightness_ins(t) \/ Lightness_dec(t) \/ Power(t) PROVE J'
    BY <1>6, KeysKeep
<1>7. ASSUME Lose PROVE J'
    BY <1>7, LoseKeeps
<1>8. ASSUME UNCHANGED vars PROVE J'
    BY <1>8 DEF IInv, LateIsDark, DrawnAreTold, ToldOrDark, DarkWillBeTold,
                Done, Turn, Side, vars, threadVars, chipVars
<1>9. J'
    BY <1>2, <1>3, <1>4, <1>5, <1>6, <1>7, <1>8 DEF Next
<1> QED BY <1>1, <1>9 DEF IInv

LEMMA InvImplies == IInv => ChipsMatch
<1> SUFFICES ASSUME IInv, NEW t \in Threads, at[t] \in {0, Chips[t] + 1},
                    ~late[t], ~lost[t], NEW k \in 1 .. Chips[t]
             PROVE  \/ hw[<<t, k>>] = lightness[t]
                    \/ <<t, k>> = Side /\ ~streaming /\ hw[<<t, k>>] = 0 /\ told[<<t, k>>] = 0
    BY DEF ChipsMatch
<1>1. Done(t, k)
    BY AllDone
<1>2. \/ told[<<t, k>>] = lightness[t]
      \/ <<t, k>> = Side /\ ~streaming /\ told[<<t, k>>] = 0
    BY <1>1 DEF IInv, DrawnAreTold
<1>3. hw[<<t, k>>] \in {0, told[<<t, k>>]}
    BY DEF IInv, ToldOrDark
<1>4. hw[<<t, k>>] = told[<<t, k>>] \/ lightness[t] = 0
    BY <1>1 DEF IInv, DarkWillBeTold
<1> QED BY <1>2, <1>3, <1>4

(* When its frame is drawn, and until the next one starts, every chip of a *)
(* thread has the brightness the frame asked for, although                 *)
(* aw_disp_one_chip_data sends only changes and the restart in             *)
(* led_scan_thread clears the chips without their record; only the side    *)
(* chip may be dark instead, because its effect found the head's power     *)
(* off, and then it was told so.  For any chips and lightnesses, provided  *)
(* no brightness key comes between a restart and the next frame.           *)
THEOREM ChipsAgree == ~QuickKeys => (Spec => []ChipsMatch)
<1>1. ASSUME ~QuickKeys PROVE IInv /\ [Next]_vars => IInv'
    BY <1>1, StepInv
<1>2. CASE ~QuickKeys
    <2>1. IInv /\ [Next]_vars => IInv'
        BY <1>1, <1>2
    <2> QED BY InitInv, <2>1, InvImplies, PTL DEF Spec
<1> QED BY <1>2
=============================================================================
