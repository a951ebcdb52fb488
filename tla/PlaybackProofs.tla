--------------------------- MODULE PlaybackProofs ---------------------------
(***************************************************************************)
(* A theorem about DispensingPlayback, for every set of sales and pumps    *)
(* and every bound: each sale that is shown has a timer that ends it.      *)
(***************************************************************************)
EXTENDS DispensingPlayback, TLAPS

\* What is played comes from the wire, and the wire from the ledger.
StreamInv == ledger \in Seq(Sales) /\ wire \in Seq(Sales)

TimerInv ==
  /\ active \in [PumpIds -> {None} \cup Playbacks]
  /\ timer \in [PumpIds -> {None} \cup Timers]
  /\ PlaybackHasTimer

IInv == StreamInv /\ TimerInv

LEMMA StreamStep ==
  ASSUME IInv, [Next]_vars
  PROVE  StreamInv'
<1>1. ASSUME NEW s \in Sales, Sell(s) PROVE StreamInv'
  BY <1>1 DEF Sell, IInv, StreamInv
<1>2. CASE HandleSale
  BY <1>2 DEF HandleSale, IInv, StreamInv
<1>3. ASSUME NEW n \in 0..Len(ledger), Establish(n) PROVE StreamInv'
  <2>1. ledger \in Seq(Sales)
    BY DEF IInv, StreamInv
  <2>2. SubSeq(ledger, Len(ledger) - n + 1, Len(ledger)) \in Seq(Sales)
    BY <2>1
  <2>. QED
    BY <1>3, <2>1, <2>2 DEF Establish, StreamInv
<1>4. CASE Break \/ SetMode \/ ChooseStation \/ Settle
  <2>1. (ledger' = ledger \/ ledger' = <<>>) /\ (wire' = wire \/ wire' = <<>>)
    BY <1>4 DEF Break, SetMode, ChooseStation, Settle, Cleanup
  <2>2. <<>> \in Seq(Sales)
    OBVIOUS
  <2>. QED
    BY <2>1, <2>2 DEF IInv, StreamInv
<1>5. CASE UNCHANGED <<ledger, wire>>
  BY <1>5 DEF IInv, StreamInv
<1>. QED
  BY <1>1, <1>2, <1>3, <1>4, <1>5
     DEF Next, Poll, Answer, FetchFails, Expire, Complete, Forget, vars

-----------------------------------------------------------------------------
(* The pump of a step; the others keep their playback and their timer.     *)

LEMMA TriggerStep ==
  ASSUME IInv, NEW s \in Sales, Trigger(s)
  PROVE  TimerInv'
<1>. DEFINE p == PumpIdOf[s]
            play == [tx |-> s, phase |-> "DISPENSING"]
            set == [tx |-> s, ends |-> "DISPENSING"]
<1>1. /\ active' = [active EXCEPT ![p] = play]
      /\ timer' = [timer EXCEPT ![p] = set]
      /\ cut' = cut \ {p}
  BY DEF Trigger, Timed
<1>2. play \in Playbacks /\ set \in Timers /\ set = [tx |-> play.tx, ends |-> play.phase]
  BY DEF Playbacks, Timers, Phases
<1>3. play # None /\ set # None
  BY <1>2, NoneAssumption
<1>. HIDE DEF p, play, set
<1>. QED
  BY <1>1, <1>2, <1>3 DEF IInv, TimerInv, PlaybackHasTimer

LEMMA CompleteStep ==
  ASSUME IInv, NEW p \in PumpIds, Complete(p)
  PROVE  TimerInv'
<1>. DEFINE t == timer[p]
            play == [tx |-> t.tx, phase |-> "COMPLETED"]
            set == [tx |-> t.tx, ends |-> "COMPLETED"]
<1>1. t \in Timers /\ timer' = [timer EXCEPT ![p] = set] /\ cut' = cut
  BY DEF Complete, IInv, TimerInv, Timers
<1>1a. active[p] \in Playbacks /\ p \notin cut /\ t.tx = active[p].tx
  BY <1>1, NoneAssumption DEF Complete, IInv, TimerInv, PlaybackHasTimer
<1>2. set \in Timers
  BY <1>1 DEF Timers, Phases
<1>2a. active' = [active EXCEPT ![p] = play] /\ play \in Playbacks /\ play # None
  BY <1>1, <1>1a, NoneAssumption DEF Complete, Playing, Playbacks, Timers, Phases
<1>2b. set = [tx |-> play.tx, ends |-> play.phase]
  OBVIOUS
<1>. HIDE DEF play, set, t
<1>. QED
  BY <1>1, <1>1a, <1>2, <1>2a, <1>2b DEF IInv, TimerInv, PlaybackHasTimer

LEMMA ForgetStep ==
  ASSUME IInv, NEW p \in PumpIds, Forget(p)
  PROVE  TimerInv'
<1>1. timer' = [timer EXCEPT ![p] = None] /\ cut' = cut
  BY DEF Forget
<1>2. CASE Playing(p, timer[p].tx)
  <2>1. active' = [active EXCEPT ![p] = None]
    BY <1>2 DEF Forget
  <2>. QED
    BY <1>1, <2>1 DEF IInv, TimerInv, PlaybackHasTimer
<1>3. CASE ~Playing(p, timer[p].tx)
  <2>1. active' = active /\ (active[p] = None \/ p \in cut)
    BY <1>3 DEF Forget, Playing, IInv, TimerInv, PlaybackHasTimer
  <2>. QED
    BY <1>1, <2>1 DEF IInv, TimerInv, PlaybackHasTimer
<1>. QED
  BY <1>2, <1>3

\* A cleanup clears every timer, and marks every pump that was shown.
LEMMA CleanupStep ==
  ASSUME IInv, Cleanup
  PROVE  TimerInv'
BY DEF Cleanup, IInv, TimerInv, PlaybackHasTimer

LEMMA NextIInv == IInv /\ [Next]_vars => IInv'
<1>. SUFFICES ASSUME IInv, [Next]_vars PROVE TimerInv'
  BY StreamStep DEF IInv
<1>1. CASE HandleSale
  <2>1. Head(wire) \in Sales
    BY <1>1 DEF HandleSale, IInv, StreamInv
  <2>2. CASE Trigger(Head(wire))
    BY <2>1, <2>2, TriggerStep
  <2>3. CASE UNCHANGED playback
    BY <2>3 DEF playback, IInv, TimerInv, PlaybackHasTimer
  <2>. QED
    BY <1>1, <2>2, <2>3 DEF HandleSale
<1>2. ASSUME NEW p \in PumpIds, Complete(p) \/ Forget(p) PROVE TimerInv'
  BY <1>2, CompleteStep, ForgetStep
<1>3. CASE Cleanup
  BY <1>3, CleanupStep
<1>4. CASE UNCHANGED playback
  BY <1>4 DEF playback, IInv, TimerInv, PlaybackHasTimer
<1>. QED
  BY <1>1, <1>2, <1>3, <1>4
     DEF Next, Sell, Poll, Answer, Settle, FetchFails, Expire, Break, SetMode,
         ChooseStation, Establish, playback, vars

LEMMA InitIInv == Init => IInv
BY DEF Init, IInv, StreamInv, TimerInv, PlaybackHasTimer

\* A pump shown dispensing or completed has the timer of that very sale and phase, and
\* no other pump has one (useDispensingPlayback.ts); only a cleanup, when the view is
\* left, another station is chosen or the station's ids first arrive, leaves a pump
\* shown without a timer.
THEOREM PlaybackCorrect == Spec => []PlaybackHasTimer
<1>1. IInv => PlaybackHasTimer
  BY DEF IInv, TimerInv
<1>. QED
  BY <1>1, InitIInv, NextIInv, PTL DEF Spec
=============================================================================
