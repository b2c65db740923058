-------------------------- MODULE CoexWindow_proofs --------------------------
(***************************************************************************)
(* Proofs about the coex window task, for every setting of its constants:  *)
(* the invariant IInv, the bound on the starvation of a connected client,  *)
(* and that the task implements the lease of module RadioLease.            *)
(***************************************************************************)
EXTENDS CoexWindow, TLAPS

\* The slices of a window cover it, and none is longer than SliceMs: the
\* rounding in coex_window_task (bt_stream.c:487) leaves no longer remainder.
LEMMA SliceBound ==
    ASSUME NEW ms \in Nat, ms > 0
    PROVE  /\ NSlices(ms) \in Nat \ {0}
           /\ SliceLen(ms) \in Nat
           /\ SliceLen(ms) <= SliceMs
<1> DEFINE S == SliceMs
           q == (ms + S - 1) \div S
           r == ms \div q
<1>1. S \in Nat /\ S > 0
  BY ChunkAssumption
<1>2. q \in Int /\ S * q <= ms + S - 1 /\ ms + S - 1 < S * q + S
  BY <1>1
<1>3. q \in Nat /\ q > 0 /\ ms <= S * q
  <2>1. ms <= S * q
    BY <1>1, <1>2
  <2>2. q > 0
    BY <1>1, <1>2, <2>1
  <2> QED BY <1>2, <2>1, <2>2
<1> HIDE DEF q
<1>4. r \in Nat /\ q * r <= ms
  BY <1>3
<1>5. r <= S
  <2> SUFFICES ASSUME r > S
               PROVE  FALSE
    BY <1>1, <1>4
  <2> HIDE DEF r
  <2>1. q * r > q * S
    BY <1>1, <1>3, <1>4
  <2> QED BY <1>1, <1>3, <1>4, <2>1
<1> QED BY <1>3, <1>4, <1>5 DEF NSlices, SliceLen, q, r

----------------------------------------------------------------------------
(* Facts about the helpers *)

\* A clamped window is one the task accepts.
LEMMA ClampRange == ASSUME NEW v \in Nat PROVE Clamp(v) \in MinMs..MaxMs
  BY CycleAssumption DEF Clamp

\* Every window of a setting is positive and long enough for a micro-gap.
LEMMA WindowRange ==
    ASSUME cycle \in Settings, NEW k \in Windows
    PROVE  /\ cycle[k] \in Nat
           /\ cycle[k] \in 0..MaxMs
           /\ cycle[k] >= MinMs
           /\ cycle[k] >= GapMs
  BY CycleAssumption, ChunkAssumption DEF Settings

\* The saturating sum stays in range and never exceeds the sum.
LEMMA PlusRange ==
    ASSUME NEW n \in 0..Ceiling, NEW d \in Nat
    PROVE  /\ Plus(n, d) \in 0..Ceiling
           /\ Plus(n, d) <= n + d
           /\ Plus(n, d) >= n
           /\ d <= Ceiling => Plus(n, d) >= d
  BY ChunkAssumption DEF Plus

----------------------------------------------------------------------------
(* The inductive invariant *)

LEMMA InitIInv == Init => IInv
<1> SUFFICES ASSUME Init PROVE IInv
  OBVIOUS
<1> USE ChunkAssumption, CycleAssumption DEF Init
<1>1. TypeOK
  <2>1. /\ conn \in BOOLEAN /\ notify \in BOOLEAN /\ adv \in BOOLEAN
          /\ fresh \in BOOLEAN
      BY Zenon
  <2>2. /\ armed \in BOOLEAN /\ paused \in BOOLEAN
          /\ settled \in BOOLEAN /\ connected \in BOOLEAN
      BY Zenon
  <2>3. /\ cycle \in Settings
          /\ pc \in Delays \cup {"start", "decide", "resume", "gap"}
          /\ sniffMs \in 0..MaxMs /\ bleMs \in 0..MaxMs
          /\ i \in Nat /\ left \in Nat
          /\ away \in 0..Ceiling /\ rest \in 0..Ceiling
      BY DEF Delays
  <2> QED BY <2>1, <2>2, <2>3 DEF TypeOK
<1>2. PauseInv
  BY DEF PauseInv
<1>3. DelayInv
  BY DEF DelayInv
<1>4. AwayInv
  BY DEF AwayInv, RadioAway
<1>5. RestInv
  BY DEF RestInv
<1> QED BY <1>1, <1>2, <1>3, <1>4, <1>5 DEF IInv

\* Every step of the task and of its environment preserves the invariant.
LEMMA StepIInv == IInv /\ [Next]_vars => IInv'
<1> SUFFICES ASSUME IInv, [Next]_vars PROVE IInv'
  OBVIOUS
<1> USE ChunkAssumption, CycleAssumption
<1> USE DEF IInv, TypeOK, PauseInv, DelayInv, AwayInv, RestInv, RadioAway,
            LinkFlipped, Delays, link, radio, locals
<1>1. CASE Boot
  <2>1. /\ cycle["disc_ble"] \in Nat
        /\ cycle["disc_ble"] >= GapMs
    BY WindowRange DEF Windows
  <2> QED BY <1>1, <2>1 DEF Boot, SnifferPause, Goto
<1>2. CASE Chunk
  <2> DEFINE step == IF left > ChunkMs THEN ChunkMs ELSE left
  <2>1. /\ step \in Nat /\ step > 0 /\ step <= ChunkMs /\ step <= left
        /\ left >= GapMs => step >= GapMs
        /\ step <= Ceiling
    BY <1>2 DEF Chunk
  <2>2. /\ Plus(away, step) \in 0..Ceiling /\ Plus(away, step) <= away + step
        /\ Plus(rest, step) \in 0..Ceiling /\ Plus(rest, step) >= rest
        /\ Plus(rest, step) >= step
    BY <2>1, PlusRange
  <2>3. /\ away' = IF RadioAway THEN Plus(away, step) ELSE 0
        /\ rest' = IF RadioAway THEN rest ELSE Plus(rest, step)
        /\ left' = IF LinkFlipped THEN 0 ELSE left - step
        /\ UNCHANGED <<link, cycle, radio, settled, pc, locals>>
        /\ pc \in Delays
        /\ left > 0
    BY <1>2 DEF Chunk, Elapse
  <2> HIDE DEF step
  <2>4. TypeOK'
    BY <2>1, <2>2, <2>3
  <2>5. PauseInv' /\ DelayInv'
    BY <2>3
  <2>6. AwayInv'
    BY <2>1, <2>2, <2>3
  <2>7. RestInv'
    BY <2>1, <2>2, <2>3
  <2> QED BY <2>4, <2>5, <2>6, <2>7
<1>3. CASE LoopTop
  BY <1>3 DEF LoopTop, DelayOver, Goto
<1>4. CASE Settle
  <2>1. /\ cycle["conn_ble"] \in Nat
        /\ cycle["conn_ble"] >= GapMs
    BY WindowRange DEF Windows
  <2> QED BY <1>4, <2>1 DEF Settle, Goto
<1>5. CASE ReadWindows
  <2>1. /\ sniffMs' \in 0..MaxMs /\ sniffMs' >= MinMs
        /\ bleMs' \in 0..MaxMs /\ bleMs' >= MinMs
    BY <1>5, WindowRange DEF ReadWindows, Windows
  <2> QED BY <1>5, <2>1 DEF ReadWindows, Goto
<1>6. CASE Resume
  <2>1. SliceLen(sniffMs) \in Nat /\ SliceLen(sniffMs) <= SliceMs
    BY <1>6, SliceBound DEF Resume
  <2> QED BY <1>6, <2>1 DEF Resume, SnifferResume, Goto
<1>7. CASE Pause
  BY <1>7 DEF Pause, DelayOver, SnifferPause, Goto
<1>8. CASE OpenGap
  BY <1>8 DEF OpenGap, DelayOver, SnifferPause, Goto
<1>9. CASE SleepGap
  <2>1. /\ left \in Nat /\ away \in 0..Ceiling /\ rest \in 0..Ceiling
        /\ GapMs <= Ceiling
    OBVIOUS
  <2>2. /\ Plus(away, left) \in 0..Ceiling
        /\ Plus(rest, left) \in 0..Ceiling
        /\ Plus(rest, left) >= rest
    BY <2>1, PlusRange
  <2>3. left >= GapMs => Plus(rest, left) >= GapMs
    BY <2>1 DEF Plus
  <2>4. /\ away' = IF RadioAway THEN Plus(away, left) ELSE 0
        /\ rest' = IF RadioAway THEN rest ELSE Plus(rest, left)
        /\ left' = 0
        /\ pc = "gap"
        /\ UNCHANGED <<link, cycle, radio, settled, pc, locals>>
    BY <1>9 DEF SleepGap, Elapse
  <2>5. TypeOK'
    BY <2>2, <2>4
  <2>6. PauseInv' /\ DelayInv'
    BY <2>4
  <2>7. AwayInv'
    BY <2>4
  <2>8. RestInv'
    BY <2>1, <2>2, <2>3, <2>4
  <2> QED BY <2>5, <2>6, <2>7, <2>8
<1>10. CASE NextSlice
  <2>1. SliceLen(sniffMs) \in Nat /\ SliceLen(sniffMs) <= SliceMs
    BY <1>10, SliceBound DEF NextSlice, DelayOver
  <2> QED BY <1>10, <2>1 DEF NextSlice, DelayOver, SnifferResume, Goto
<1>11. CASE OnSync
  BY <1>11 DEF OnSync
<1>12. CASE Connect
  <2> USE <1>12 DEF Connect, LinkEvent
  <2>1. TypeOK'
    <3>1. /\ conn' \in BOOLEAN /\ notify' \in BOOLEAN /\ adv' \in BOOLEAN
          /\ fresh' \in BOOLEAN
      BY Zenon
    <3>2. /\ armed' \in BOOLEAN /\ paused' \in BOOLEAN
          /\ settled' \in BOOLEAN /\ connected' \in BOOLEAN
      BY Zenon
    <3>3. /\ cycle' \in Settings
          /\ pc' \in Delays \cup {"start", "decide", "resume", "gap"}
          /\ sniffMs' \in 0..MaxMs /\ bleMs' \in 0..MaxMs
          /\ i' \in Nat /\ left' \in Nat
          /\ away' \in 0..Ceiling /\ rest' \in 0..Ceiling
      OBVIOUS
    <3> QED BY <3>1, <3>2, <3>3
  <2>2. PauseInv' /\ DelayInv'
    OBVIOUS
  <2>3. AwayInv'
    OBVIOUS
  <2>4. RestInv'
    OBVIOUS
  <2> QED BY <2>1, <2>2, <2>3, <2>4
<1>13. CASE Disconnect
  <2> USE <1>13 DEF Disconnect, LinkEvent
  <2>1. TypeOK'
    <3>1. /\ conn' \in BOOLEAN /\ notify' \in BOOLEAN /\ adv' \in BOOLEAN
          /\ fresh' \in BOOLEAN
      BY Zenon
    <3>2. /\ armed' \in BOOLEAN /\ paused' \in BOOLEAN
          /\ settled' \in BOOLEAN /\ connected' \in BOOLEAN
      BY Zenon
    <3>3. /\ cycle' \in Settings
          /\ pc' \in Delays \cup {"start", "decide", "resume", "gap"}
          /\ sniffMs' \in 0..MaxMs /\ bleMs' \in 0..MaxMs
          /\ i' \in Nat /\ left' \in Nat
          /\ away' \in 0..Ceiling /\ rest' \in 0..Ceiling
      OBVIOUS
    <3> QED BY <3>1, <3>2, <3>3
  <2>2. PauseInv' /\ DelayInv'
    OBVIOUS
  <2>3. AwayInv'
    OBVIOUS
  <2>4. RestInv'
    OBVIOUS
  <2> QED BY <2>1, <2>2, <2>3, <2>4
<1>14. CASE Subscribe
  BY <1>14 DEF Subscribe
<1>15. CASE WriteCycle
  <2>1. PICK w \in Writes : cycle' = [k \in Windows |-> Clamp(w[k])]
    BY <1>15 DEF WriteCycle
  <2>2. \A k \in Windows : Clamp(w[k]) \in MinMs..MaxMs
    BY ClampRange
  <2>3. cycle' \in Settings
    BY <2>1, <2>2 DEF Settings
  <2> QED BY <1>15, <2>3 DEF WriteCycle
<1>16. CASE Autostart
  BY <1>16 DEF Autostart
<1>17. CASE Restart
  <2> USE <1>17 DEF Restart, Goto
  <2>1. TypeOK'
    <3>1. /\ conn' \in BOOLEAN /\ notify' \in BOOLEAN /\ adv' \in BOOLEAN
          /\ fresh' \in BOOLEAN
      BY Zenon
    <3>2. /\ armed' \in BOOLEAN /\ paused' \in BOOLEAN
          /\ settled' \in BOOLEAN /\ connected' \in BOOLEAN
      BY Zenon
    <3>3. /\ cycle' \in Settings
          /\ pc' \in Delays \cup {"start", "decide", "resume", "gap"}
          /\ sniffMs' \in 0..MaxMs /\ bleMs' \in 0..MaxMs
          /\ i' \in Nat /\ left' \in Nat
          /\ away' \in 0..Ceiling /\ rest' \in 0..Ceiling
      OBVIOUS
    <3> QED BY <3>1, <3>2, <3>3
  <2>2. PauseInv' /\ DelayInv'
    OBVIOUS
  <2>3. AwayInv'
    OBVIOUS
  <2>4. RestInv'
    OBVIOUS
  <2> QED BY <2>1, <2>2, <2>3, <2>4
<1>18. CASE UNCHANGED vars
  BY <1>18 DEF vars
<1> QED
  BY <1>1, <1>2, <1>3, <1>4, <1>5, <1>6, <1>7, <1>8, <1>9, <1>10, <1>11,
     <1>12, <1>13, <1>14, <1>15, <1>16, <1>17, <1>18 DEF Next, Coex

\* The invariant holds in every reachable state.
THEOREM Invariance == Spec => []IInv
  BY InitIInv, StepIInv, PTL DEF Spec

\* Type correctness.
THEOREM TypeCorrect == Spec => []TypeOK
<1>1. IInv => TypeOK
  BY DEF IInv
<1> QED BY <1>1, Invariance, PTL

\* A connected client is never without the radio for more than SliceMs.
THEOREM Starvation == Spec => []BoundedStarvation
<1>1. IInv => BoundedStarvation
  BY ChunkAssumption
  DEF IInv, TypeOK, AwayInv, BoundedStarvation, LinkFlipped, RadioAway
<1> QED BY <1>1, Invariance, PTL

\* A changed link waits at most one chunk while the sniffer has the radio.
THEOREM Notice == Spec => []PromptNotice
<1>1. IInv => PromptNotice
  BY DEF IInv, AwayInv, PromptNotice
<1> QED BY <1>1, Invariance, PTL

----------------------------------------------------------------------------
(* The task implements the lease of the radio *)

LEMMA InitLease == Init => Lease!Init
  BY DEF Init, Lease!Init, RadioAway

\* A sniffer_pause gives the radio back, or changes nothing the lease sees.
LEMMA PauseGives ==
    ASSUME IInv, SnifferPause, UNCHANGED conn
    PROVE  Lease!Give \/ UNCHANGED Lease!vars
<1> USE DEF IInv, TypeOK, PauseInv, AwayInv, SnifferPause, RadioAway
<1>1. CASE RadioAway
  <2>1. Lease!Give
    BY <1>1 DEF Lease!Give
  <2> QED BY <2>1
<1>2. CASE ~RadioAway
  <2>1. /\ (armed' /\ ~paused') <=> (armed /\ ~paused)
        /\ (settled' /\ conn') <=> (settled /\ conn)
        /\ away' = away /\ rest' = rest
    BY <1>2
  <2> QED BY <2>1 DEF Lease!vars
<1> QED BY <1>1, <1>2

\* A sniffer_resume takes it, after the link had its turn.
LEMMA ResumeTakes ==
    ASSUME IInv, SnifferResume, UNCHANGED conn, pc \in {"resume", "gap"},
           left < GapMs \/ pc = "resume"
    PROVE  Lease!Take \/ UNCHANGED Lease!vars
<1> USE ChunkAssumption
    DEF IInv, TypeOK, PauseInv, AwayInv, RestInv, SnifferResume, RadioAway
<1>1. CASE paused
  <2>1. rest >= GapMs
    BY <1>1
  <2>2. armed /\ ~paused' /\ armed'
    BY <1>1
  <2>3. Lease!Take
    BY <1>1, <2>1, <2>2 DEF Lease!Take
  <2> QED BY <2>3
<1>2. CASE ~paused
  <2>1. ~settled
    BY <1>2
  <2>2. /\ (armed' /\ ~paused') <=> (armed /\ ~paused)
        /\ ~(settled' /\ conn')
        /\ rest' = rest
    BY <1>2, <2>1
  <2> QED BY <2>1, <2>2 DEF Lease!vars
<1> QED BY <1>1, <1>2

\* d milliseconds with the sniffer or with BLE.
LEMMA ElapseHolds ==
    ASSUME IInv, IInv', NEW d \in 0..Ceiling, Elapse(d),
           UNCHANGED <<link, radio, settled, connected>>
    PROVE  Lease!Hold \/ Lease!Rest \/ UNCHANGED Lease!vars
<1> USE ChunkAssumption
    DEF IInv, TypeOK, AwayInv, Elapse, RadioAway, link, radio, LinkFlipped
<1>1. CASE RadioAway /\ settled /\ conn
  <2>1. away' = Plus(away, d) /\ away' <= SliceMs /\ rest' = rest
    BY <1>1
  <2>2. Lease!Plus(away, d) = Plus(away, d)
    BY DEF Lease!Plus, Plus
  <2>3. Lease!Hold
    BY <1>1, <2>1, <2>2 DEF Lease!Hold
  <2> QED BY <2>3
<1>2. CASE RadioAway /\ ~(settled /\ conn)
  BY <1>2 DEF Lease!vars
<1>3. CASE ~RadioAway
  <2>1. away' = 0 /\ away = 0 /\ rest' = Plus(rest, d)
    BY <1>3
  <2>2. Lease!Plus(rest, d) = Plus(rest, d)
    BY DEF Lease!Plus, Plus
  <2>3. Lease!Rest
    BY <1>3, <2>1, <2>2 DEF Lease!Rest
  <2> QED BY <2>3
<1> QED BY <1>1, <1>2, <1>3

\* A link event is a change of the served client, or nothing.
LEMMA EventChanges ==
    ASSUME IInv, LinkEvent, conn' = ~conn
    PROVE  Lease!LinkChange \/ UNCHANGED Lease!vars
<1> USE DEF IInv, TypeOK, LinkEvent, RadioAway, radio
<1>1. CASE settled
  BY <1>1 DEF Lease!LinkChange
<1>2. CASE ~settled
  BY <1>2 DEF Lease!vars
<1> QED BY <1>1, <1>2

\* Every step of the task and its environment is a step of the lease or none.
LEMMA StepLease == IInv /\ IInv' /\ [Next]_vars => [Lease!Next]_(Lease!vars)
<1> SUFFICES ASSUME IInv, IInv', [Next]_vars
             PROVE  Lease!Next \/ UNCHANGED Lease!vars
  OBVIOUS
<1> USE ChunkAssumption DEF link, radio, locals
<1>q. ASSUME UNCHANGED <<conn, armed, paused, away, rest, settled>>
      PROVE  UNCHANGED Lease!vars
  BY <1>q DEF Lease!vars, RadioAway
<1>1. CASE Boot
  BY <1>1, PauseGives DEF Boot, Lease!Next
<1>2. CASE Chunk
  <2> DEFINE step == IF left > ChunkMs THEN ChunkMs ELSE left
  <2>1. step \in 0..Ceiling
    BY DEF IInv, TypeOK
  <2>2. Elapse(step) /\ UNCHANGED <<link, radio, settled, connected>>
    BY <1>2 DEF Chunk
  <2> HIDE DEF step
  <2> QED BY <2>1, <2>2, ElapseHolds DEF Lease!Next
<1>3. CASE LoopTop
  BY <1>3, <1>q DEF LoopTop
<1>4. CASE Settle
  BY <1>4, <1>q DEF Settle
<1>5. CASE ReadWindows
  BY <1>5, <1>q DEF ReadWindows
<1>6. CASE Resume
  BY <1>6, ResumeTakes DEF Resume, Lease!Next
<1>7. CASE Pause
  BY <1>7, PauseGives DEF Pause, Lease!Next
<1>8. CASE OpenGap
  BY <1>8, PauseGives DEF OpenGap, Lease!Next
<1>9. CASE SleepGap
  <2>1. left \in 0..Ceiling
    BY <1>9 DEF SleepGap, IInv, TypeOK, DelayInv
  <2> QED BY <1>9, <2>1, ElapseHolds DEF SleepGap, Lease!Next
<1>10. CASE NextSlice
  <2>1. left < GapMs /\ pc \in {"resume", "gap"}
    BY <1>10 DEF NextSlice, DelayOver
  <2> QED BY <1>10, <2>1, ResumeTakes DEF NextSlice, Lease!Next
<1>11. CASE OnSync
  BY <1>11, <1>q DEF OnSync
<1>12. CASE Connect
  BY <1>12, EventChanges DEF Connect, Lease!Next
<1>13. CASE Disconnect
  BY <1>13, EventChanges DEF Disconnect, Lease!Next
<1>14. CASE Subscribe
  BY <1>14, <1>q DEF Subscribe
<1>15. CASE WriteCycle
  BY <1>15, <1>q DEF WriteCycle
<1>16. CASE Autostart
  <2>1. ~settled /\ ~paused /\ ~armed
    BY <1>16 DEF Autostart, IInv, TypeOK, PauseInv
  <2>2. Lease!Take
    BY <1>16, <2>1 DEF Autostart, Lease!Take, RadioAway
  <2> QED BY <2>2 DEF Lease!Next
<1>17. CASE Restart
  <2>1. Lease!Restart
    BY <1>17 DEF Restart, Lease!Restart, RadioAway
  <2> QED BY <2>1 DEF Lease!Next
<1>18. CASE UNCHANGED vars
  BY <1>18, <1>q DEF vars
<1> QED
  BY <1>1, <1>2, <1>3, <1>4, <1>5, <1>6, <1>7, <1>8, <1>9, <1>10, <1>11,
     <1>12, <1>13, <1>14, <1>15, <1>16, <1>17, <1>18 DEF Next, Coex

\* The coex window task implements the lease of the radio.
THEOREM Refinement == Spec => LeaseSpec
  BY InitLease, StepLease, Invariance, PTL DEF Spec, LeaseSpec, Lease!Spec
=============================================================================
