--------------------------- MODULE Stm32LoopProofs ---------------------------
(***************************************************************************)
(* What the pins of the bare-metal node show, for every period, every      *)
(* width of the millisecond tick and every loop that is not slower than    *)
(* the tick is wide (TimeAssumption).                                      *)
(*                                                                         *)
(* The blink of the lamp that drives a pin is the key.  After every tick   *)
(* its phase has run for less than a period, and the pin shows its level   *)
(* and has kept it for no longer than the phase runs.  An indicator that   *)
(* hazard interrupted may resume in the middle of a stale phase, so for it *)
(* the two times may differ until that phase ends (resumed); in every      *)
(* other case they are equal, which makes the pulses full.  The tick may   *)
(* wrap at any time: the age of a phase, not its start, is what the        *)
(* argument is about.                                                      *)
(***************************************************************************)
EXTENDS Stm32Loop, Stm32NodeProofs

Times == 0 .. MsModulus - 1
Blink == [phase_on : BOOLEAN, phase_start_ms : Times, was_active : BOOLEAN]

\* The time that a phase has run at time t.
Age(b, t) == (t + MsModulus - b.phase_start_ms) % MsModulus

\* The pin of f is not driven by a phase that began before the last hazard.
InFullPhase(f) == f = "kHazardLamp" \/ ("kHazardLamp" \notin seen /\ f \notin resumed)

\* What is known of a pin that is driven by the blink b.
Shows(f, b) ==
  /\ b.was_active /\ pin[f] = b.phase_on
  /\ Age(b, now) < Period
  /\ held[f] <= Age(b, now)
  /\ InFullPhase(f) => held[f] = Age(b, now)

\* What is known of the indicators' blinks: one that was lit neither by itself nor
\* under hazard is inactive, and one that hazard holds has an interrupted phase.
BlinksInv ==
  \A f \in Indicators : blink[f].was_active =>
    /\ {f, "kHazardLamp"} \cap seen # {}
    /\ "kHazardLamp" \in seen => f \in resumed

PinInv ==
  /\ seen \subseteq LampFunctions
  /\ held \in [TurnLamps -> Nat]
  /\ \A f \in TurnLamps :
       IF Driver(seen, f) = "kUnknown" THEN held[f] = 0
       ELSE Shows(f, blink[Driver(seen, f)])
  /\ "kHazardLamp" \notin seen => ~blink["kHazardLamp"].was_active

LoopInv == IInv /\ LoopTypeOK /\ NoPinWithoutLamp /\ BlinksInv /\ PinInv

-----------------------------------------------------------------------------
(* The wrapping clock. *)

LEMMA ModuloSmall ==
  ASSUME NEW m \in Nat \ {0}, NEW x \in 0 .. m - 1
  PROVE  x % m = x
  OBVIOUS

\* The age of a phase, without the modulus.
LEMMA AgeIs ==
  ASSUME NEW t \in Times, NEW b \in Blink
  PROVE  Age(b, t) = IF t < b.phase_start_ms THEN t + MsModulus - b.phase_start_ms
                     ELSE t - b.phase_start_ms
<1> DEFINE s == b.phase_start_ms
<1>1. s \in Times /\ MsModulus \in Nat \ {0}
  BY TimeAssumption DEF Blink, Times
<1>2. CASE t < s
  BY <1>1, <1>2, ModuloSmall DEF Age, Times
<1>3. CASE t >= s
  BY <1>1, <1>3 DEF Age, Times
<1> QED
  BY <1>1, <1>2, <1>3 DEF Times

\* A tick later the phase of a blink is older by what has elapsed.
LEMMA Ages ==
  ASSUME NEW t \in Times, NEW e \in 0 .. MaxElapsed, NEW b \in Blink, Age(b, t) < Period
  PROVE  /\ (t + e) % MsModulus \in Times
         /\ Age(b, (t + e) % MsModulus) = Age(b, t) + e
         /\ (((t + e) % MsModulus) + MsModulus - t) % MsModulus = e
<1> DEFINE u == (t + e) % MsModulus
<1>1. /\ MsModulus \in Nat \ {0} /\ t \in 0 .. MsModulus - 1 /\ e \in Nat
      /\ e < MsModulus /\ Period + e < MsModulus /\ Period \in Nat
      /\ b.phase_start_ms \in 0 .. MsModulus - 1
  BY TimeAssumption DEF Times, Blink
<1>2. u = IF t + e < MsModulus THEN t + e ELSE t + e - MsModulus
  <2>1. CASE t + e < MsModulus
    <3>1. t + e \in 0 .. MsModulus - 1
      BY <1>1, <2>1
    <3>2. (t + e) % MsModulus = t + e
      BY <1>1, <3>1, ModuloSmall
    <3> QED
      BY <2>1, <3>2
  <2>2. CASE t + e >= MsModulus
    <3>1. t + e \in MsModulus .. 2 * MsModulus - 1
      BY <1>1, <2>2
    <3>2. (t + e) % MsModulus = t + e - MsModulus
      BY <1>1, <3>1
    <3> QED
      BY <1>1, <2>2, <3>2
  <2> QED
    BY <1>1, <2>1, <2>2
<1> HIDE DEF u
<1>3. u \in Times
  BY <1>1, <1>2 DEF Times
<1>4. (u + MsModulus - t) % MsModulus = e
  <2>1. CASE t + e < MsModulus
    <3>1. u + MsModulus - t = e + MsModulus /\ e + MsModulus \in MsModulus .. 2 * MsModulus - 1
      BY <1>1, <1>2, <2>1
    <3> QED
      BY <1>1, <3>1
  <2>2. CASE t + e >= MsModulus
    <3>1. u + MsModulus - t = e /\ e \in 0 .. MsModulus - 1
      BY <1>1, <1>2, <2>2
    <3> QED
      BY <1>1, <3>1, ModuloSmall
  <2> QED
    BY <1>1, <2>1, <2>2
<1>5. Age(b, u) = Age(b, t) + e
  <2>1. Age(b, t) = IF t < b.phase_start_ms THEN t + MsModulus - b.phase_start_ms
                    ELSE t - b.phase_start_ms
    BY AgeIs
  <2>2. Age(b, u) = IF u < b.phase_start_ms THEN u + MsModulus - b.phase_start_ms
                    ELSE u - b.phase_start_ms
    BY <1>3, AgeIs
  <2> QED
    BY <1>1, <1>2, <2>1, <2>2
<1> QED
  BY <1>3, <1>4, <1>5 DEF u

-----------------------------------------------------------------------------
(* One tick of a blink. *)

LEMMA BlinkedType ==
  ASSUME NEW b \in Blink, NEW t \in Times
  PROVE  Blinked(b, t) \in Blink
  BY DEF Blinked, Flipped, Blink

\* Whatever state a blink was left in, its phase is not over after its tick.
LEMMA BlinkedFresh ==
  ASSUME NEW b \in Blink, NEW t \in Times
  PROVE  /\ Blinked(b, t).was_active
         /\ Age(Blinked(b, t), t) < Period
<1>1. Period \in Nat \ {0}
  BY TimeAssumption
<1>2. CASE b.was_active /\ ~PhaseIsOver(b, t)
  <2>1. Blinked(b, t) = b
    BY <1>2 DEF Blinked
  <2>2. Age(b, t) \in Nat
    BY AgeIs, TimeAssumption DEF Times, Blink
  <2>3. Age(b, t) < Period
    BY <1>1, <1>2, <2>2 DEF PhaseIsOver, Age
  <2> QED
    BY <1>2, <2>1, <2>3
<1>3. CASE ~b.was_active \/ PhaseIsOver(b, t)
  <2>1. Blinked(b, t).was_active /\ Blinked(b, t).phase_start_ms = t
    BY <1>3 DEF Blinked, Flipped, Blink
  <2>2. Age(Blinked(b, t), t) = 0
    BY <2>1, BlinkedType, AgeIs DEF Times
  <2> QED
    BY <1>1, <2>1, <2>2
<1> QED
  BY <1>2, <1>3

\* An active blink flips exactly when its phase is over, and then starts anew.
LEMMA BlinkedActive ==
  ASSUME NEW b \in Blink, NEW t \in Times, b.was_active
  PROVE  /\ Age(b, t) < Period => Blinked(b, t) = b
         /\ Age(b, t) >= Period => /\ Blinked(b, t).phase_on # b.phase_on
                                   /\ Age(Blinked(b, t), t) = 0
<1>1. Age(b, t) \in Nat /\ Period \in Nat
  BY AgeIs, TimeAssumption DEF Times, Blink
<1>2. PhaseIsOver(b, t) <=> Age(b, t) >= Period
  BY DEF PhaseIsOver, Age
<1>3. CASE Age(b, t) < Period
  BY <1>1, <1>2, <1>3 DEF Blinked
<1>4. CASE Age(b, t) >= Period
  <2>1. Blinked(b, t) = Flipped(b, t)
    BY <1>2, <1>4 DEF Blinked
  <2>2. Flipped(b, t).phase_on = ~b.phase_on /\ Flipped(b, t).phase_start_ms = t
    BY DEF Flipped, Blink
  <2>3. Age(Flipped(b, t), t) = 0
    BY <2>1, <2>2, BlinkedType, AgeIs DEF Times
  <2>4. Flipped(b, t).phase_on # b.phase_on
    BY <2>2 DEF Blink
  <2> QED
    BY <1>1, <1>4, <2>1, <2>3, <2>4
<1> QED
  BY <1>1, <1>3, <1>4

-----------------------------------------------------------------------------
(* One pass of the loop. *)

LEMMA TurnLampsAre ==
  /\ TurnLamps = {"kLeftIndicator", "kRightIndicator", "kHazardLamp"}
  /\ TurnLamps \subseteq LampFunctions
  BY DEF TurnLamps, Indicators, LampFunctions

\* The clock, the blinks and the pins keep their types.
LEMMA TickTypes ==
  ASSUME LoopInv, NEW e \in 0 .. MaxElapsed, ProcessMainLoop(e)
  PROVE  LoopTypeOK' /\ now' \in Times
<1>1. now' \in Times
  BY TimeAssumption DEF LoopInv, LoopTypeOK, ProcessMainLoop, Times
<1>2. ASSUME NEW f \in TurnLamps PROVE BlinkAt(now', f) \in Blink
  <2>1. blink[f] \in Blink
    BY DEF LoopInv, LoopTypeOK, Blink, Times
  <2>2. Inactive \in Blink
    BY TimeAssumption DEF Inactive, Blink, Times
  <2>3. Blinked(blink[f], now') \in Blink
    BY <1>1, <2>1, BlinkedType
  <2> QED
    BY <2>1, <2>2, <2>3 DEF BlinkAt, TurnLamps
<1>3. blink' \in [TurnLamps -> Blink]
  BY <1>2 DEF ProcessMainLoop
<1>4. ASSUME NEW f \in LampFunctions PROVE PinAt(blink', f) \in BOOLEAN
  <2>1. \A g \in TurnLamps : blink'[g].phase_on \in BOOLEAN
    BY <1>3 DEF Blink
  <2> QED
    BY <2>1, TurnLampsAre DEF PinAt, IsOn
<1>5. pin' \in [LampFunctions -> BOOLEAN]
  BY <1>4 DEF ProcessMainLoop
<1> QED
  BY <1>1, <1>3, <1>5 DEF LoopTypeOK, Blink, Times

\* The lamp that drives a pin after the tick is on, its blink has ticked, and the
\* pin shows that blink.
LEMMA TickDriver ==
  ASSUME LoopInv, NEW e \in 0 .. MaxElapsed, ProcessMainLoop(e),
         NEW f \in TurnLamps, Driver(seen', f) # "kUnknown"
  PROVE  LET d == Driver(seen', f) IN
           /\ d \in TurnLamps
           /\ blink'[d] = Blinked(blink[d], now')
           /\ pin'[f] = blink'[d].phase_on
<1> DEFINE d == Driver(seen', f)
<1>1. seen' = {g \in LampFunctions : IsOn(g)}
  BY DEF ProcessMainLoop
<1>2. CASE IsOn("kHazardLamp")
  <2>1. d = "kHazardLamp"
    BY <1>1, <1>2, TurnLampsAre DEF Driver
  <2>2. BlinkAt(now', "kHazardLamp") = Blinked(blink["kHazardLamp"], now')
    BY <1>2 DEF BlinkAt, Indicators
  <2>3. PinAt(blink', f) = blink'["kHazardLamp"].phase_on
    BY <1>2 DEF PinAt
  <2> QED
    BY <2>1, <2>2, <2>3, TurnLampsAre DEF ProcessMainLoop
<1>3. CASE ~IsOn("kHazardLamp")
  <2>1. d = f /\ IsOn(f)
    BY <1>1, <1>3 DEF Driver
  <2>2. f \in Indicators
    BY <1>3, <2>1 DEF TurnLamps
  <2>3. BlinkAt(now', f) = Blinked(blink[f], now')
    BY <1>3, <2>1, <2>2 DEF BlinkAt, Indicators
  <2>4. PinAt(blink', f) = blink'[f].phase_on
    BY <1>3 DEF PinAt
  <2> QED
    BY <2>1, <2>3, <2>4, TurnLampsAre DEF ProcessMainLoop
<1> QED
  BY <1>2, <1>3

\* The time a pin has kept its level, when its driver has not changed.
LEMMA TickHeld ==
  ASSUME LoopInv, NEW e \in 0 .. MaxElapsed, ProcessMainLoop(e), NEW f \in TurnLamps
  PROVE  /\ held'[f] \in Nat
         /\ \/ pin'[f] # pin[f] \/ Driver(seen', f) # Driver(seen, f)
            \/ Driver(seen', f) = "kUnknown"
            => held'[f] = 0
         /\ pin'[f] = pin[f] /\ Driver(seen', f) = Driver(seen, f)
              /\ Driver(seen', f) # "kUnknown" /\ held[f] + e < 2 * Period
            => held'[f] = held[f] + e
<1>1. /\ held[f] \in Nat /\ e \in Nat /\ Period \in Nat
  BY TimeAssumption DEF LoopInv, PinInv
<1>2. held'[f] = IF pin'[f] # pin[f] \/ Driver(seen', f) # Driver(seen, f) \/
                    Driver(seen', f) = "kUnknown"
                 THEN 0
                 ELSE IF held[f] + e < 2 * Period THEN held[f] + e ELSE 2 * Period
  BY DEF ProcessMainLoop
<1> QED
  BY <1>1, <1>2

\* The key step: what PinInv says of a driven pin holds after every tick; and if the
\* driver stays, its phase has run out exactly when the pin changes.
LEMMA TickShows ==
  ASSUME LoopInv, NEW e \in 0 .. MaxElapsed, ProcessMainLoop(e),
         NEW f \in TurnLamps, Driver(seen', f) # "kUnknown"
  PROVE  /\ Shows(f, blink[Driver(seen, f)])'
         /\ Driver(seen, f) = Driver(seen', f) /\ pin'[f] # pin[f]
              => Age(blink[Driver(seen, f)], now) + e >= Period
<1> DEFINE d == Driver(seen', f)
           b == blink[d]
           c == Blinked(b, now')
<1>1. d \in TurnLamps /\ blink'[d] = c /\ pin'[f] = c.phase_on
  BY TickDriver
<1>2. b \in Blink /\ now \in Times /\ now' \in Times /\ Period \in Nat /\ e \in Nat
  <2>1. d \in TurnLamps
    BY <1>1
  <2> HIDE DEF d
  <2> QED
    BY <2>1, TickTypes, TimeAssumption DEF LoopInv, LoopTypeOK, Blink, Times
<1>3. c.was_active /\ Age(c, now') < Period /\ Age(c, now') \in Nat
  <2> HIDE DEF b
  <2>1. c \in Blink
    BY <1>2, BlinkedType
  <2>2. Age(c, now') \in Nat
    BY <1>2, <2>1, AgeIs, TimeAssumption DEF Times, Blink
  <2> QED
    BY <1>2, <2>2, BlinkedFresh
<1> HIDE DEF c
<1>4. CASE d # Driver(seen, f)
  <2>1. held'[f] = 0
    BY <1>4, TickHeld
  <2>2. ASSUME InFullPhase(f)' PROVE Age(c, now') = 0
    <3>1. CASE ~b.was_active
      <4>1. c.phase_start_ms = now'
        BY <3>1 DEF c, Blinked
      <4>2. c \in Blink
        BY <1>2, BlinkedType DEF c
      <4> QED
        BY <1>2, <4>1, <4>2, AgeIs DEF Times
    <3>2. CASE b.was_active
      <4>1. f # "kHazardLamp"
        <5>1. SUFFICES ASSUME f = "kHazardLamp" PROVE FALSE
          OBVIOUS
        <5>2. d = "kHazardLamp" /\ "kHazardLamp" \notin seen
          BY <1>4, <5>1 DEF Driver
        <5> QED
          BY <3>2, <5>2 DEF LoopInv, PinInv
      <4>2. f \in Indicators /\ "kHazardLamp" \notin seen' /\ f \notin resumed'
        BY <2>2, <4>1 DEF InFullPhase, TurnLamps
      <4>3. d = f
        BY <4>2 DEF Driver
      <4>4. "kHazardLamp" \in seen /\ f \in resumed
        BY <1>4, <3>2, <4>2, <4>3 DEF LoopInv, BlinksInv, Driver
      <4>5. c # b
        <5>1. ~(b.was_active /\ blink'[f] = blink[f])
          BY <4>2, <4>3, <4>4 DEF ProcessMainLoop
        <5> QED
          BY <1>1, <3>2, <4>3, <5>1
      <4> HIDE DEF b
      <4>6. Age(b, now') \in Nat
        BY <1>2, AgeIs, TimeAssumption DEF Times, Blink
      <4> QED
        BY <1>2, <3>2, <4>5, <4>6, BlinkedActive DEF c
    <3> QED
      BY <3>1, <3>2
  <2> QED
    BY <1>1, <1>3, <1>4, <2>1, <2>2 DEF Shows
<1>5. CASE d = Driver(seen, f)
  <2>1. Shows(f, b)
    BY <1>5 DEF LoopInv, PinInv
  <2>2. held[f] \in Nat /\ Age(b, now) \in Nat
    BY <1>2, AgeIs, TimeAssumption DEF LoopInv, PinInv, Times, Blink
  <2>3. Age(b, now') = Age(b, now) + e
    <3> HIDE DEF b
    <3>1. Age(b, now) < Period
      BY <2>1 DEF Shows
    <3> QED
      BY <1>2, <3>1, Ages DEF ProcessMainLoop
  <2>4. /\ Age(b, now') < Period => c = b
        /\ Age(b, now') >= Period => c.phase_on # b.phase_on /\ Age(c, now') = 0
    <3> HIDE DEF b
    <3> QED
      BY <1>2, <2>1, BlinkedActive DEF c, Shows
  <2>5. CASE Age(b, now') < Period
    <3>1. pin'[f] = pin[f]
      BY <1>1, <2>1, <2>4, <2>5 DEF Shows
    <3>2. held[f] + e < 2 * Period
      BY <1>2, <2>1, <2>2, <2>3, <2>5 DEF Shows
    <3>3. held'[f] = held[f] + e
      BY <1>5, <3>1, <3>2, TickHeld
    <3>4. InFullPhase(f)' => InFullPhase(f)
      <4>1. SUFFICES ASSUME InFullPhase(f)', f # "kHazardLamp" PROVE InFullPhase(f)
        BY DEF InFullPhase
      <4>2. f \in Indicators /\ "kHazardLamp" \notin seen' /\ f \notin resumed'
        BY <4>1 DEF InFullPhase, TurnLamps
      <4>3. d = f /\ "kHazardLamp" \notin seen
        BY <1>5, <4>2 DEF Driver
      <4>4. blink[f].was_active /\ blink'[f] = blink[f]
        BY <1>1, <2>1, <2>4, <2>5, <4>3 DEF Shows
      <4> QED
        BY <4>2, <4>3, <4>4 DEF InFullPhase, ProcessMainLoop
    <3>5. Shows(f, blink[Driver(seen, f)])'
      BY <1>1, <1>2, <1>3, <2>1, <2>2, <2>3, <2>4, <2>5, <3>3, <3>4 DEF Shows
    <3> QED
      BY <1>5, <3>1, <3>5
  <2>6. CASE Age(b, now') >= Period
    <3>1. pin'[f] # pin[f]
      BY <1>1, <2>1, <2>4, <2>6 DEF Shows
    <3>2. held'[f] = 0
      BY <3>1, TickHeld
    <3>3. Shows(f, blink[Driver(seen, f)])'
      BY <1>1, <1>2, <1>3, <2>4, <2>6, <3>2 DEF Shows
    <3> QED
      BY <1>5, <2>3, <2>6, <3>3
  <2> QED
    BY <1>2, <2>2, <2>3, <2>5, <2>6
<1> QED
  BY <1>4, <1>5

\* A tick, and every conjunct of the invariant that it can disturb.
LEMMA TickSafe ==
  ASSUME LoopInv, NEW e \in 0 .. MaxElapsed, ProcessMainLoop(e)
  PROVE  LoopInv' /\ PolicyStep
<1>1. /\ UNCHANGED <<lamp_output, faulted, last_hazard_sequence,
                      active_indicator_before_hazard>>
      /\ sent' = << >>
      /\ seen' = {f \in LampFunctions : IsOn(f)}
      /\ pin' = [f \in LampFunctions |-> PinAt(blink', f)]
      /\ blink' = [f \in TurnLamps |-> BlinkAt(now', f)]
  BY DEF ProcessMainLoop
<1>2. IInv'
  BY <1>1 DEF LoopInv, IInv, TypeOK, OutputsAreSafe, IsOn
<1>3. PolicyStep
  BY <1>1, Invisible DEF Lit, IsOn, Remembered
<1>4. LoopTypeOK'
  BY TickTypes
<1>5. NoPinWithoutLamp'
  <2>1. ASSUME NEW f \in LampFunctions, pin'[f], f \notin seen'
        PROVE  f \in Indicators /\ "kHazardLamp" \in seen'
    <3>1. ~IsOn(f) /\ PinAt(blink', f)
      BY <1>1, <2>1
    <3>2. f \in TurnLamps
      BY <3>1 DEF PinAt
    <3>3. IsOn("kHazardLamp")
      <4>1. SUFFICES ASSUME ~IsOn("kHazardLamp") PROVE FALSE
        OBVIOUS
      <4>2. BlinkAt(now', f) = Inactive
        BY <3>1, <3>2, <4>1 DEF BlinkAt, TurnLamps, Indicators
      <4>3. PinAt(blink', f) = Inactive.phase_on
        BY <1>1, <3>2, <4>1, <4>2 DEF PinAt
      <4> QED
        BY <3>1, <4>3 DEF Inactive
    <3> QED
      BY <1>1, <3>1, <3>2, <3>3, TurnLampsAre DEF TurnLamps
  <2> QED
    BY <2>1 DEF NoPinWithoutLamp
<1>6. BlinksInv'
  <2>1. SUFFICES ASSUME NEW f \in Indicators, blink'[f].was_active
                 PROVE  /\ {f, "kHazardLamp"} \cap seen' # {}
                        /\ "kHazardLamp" \in seen' => f \in resumed'
    BY DEF BlinksInv
  <2>2. f \in TurnLamps /\ f \in LampFunctions /\ "kHazardLamp" \in LampFunctions
    BY TurnLampsAre DEF TurnLamps
  <2>3. blink'[f] = BlinkAt(now', f)
    BY <1>1, <2>2
  <2>4. CASE "kHazardLamp" \in seen'
    <3>1. blink'[f] = blink[f]
      BY <1>1, <2>3, <2>4 DEF BlinkAt, Indicators
    <3> QED
      BY <2>1, <2>4, <3>1 DEF ProcessMainLoop
  <2>5. CASE "kHazardLamp" \notin seen'
    <3>1. ~IsOn("kHazardLamp")
      BY <1>1, <2>2, <2>5
    <3>2. f \in seen'
      BY <1>1, <2>1, <2>2, <2>3, <3>1 DEF BlinkAt, Indicators, Inactive
    <3> QED
      BY <2>5, <3>2
  <2> QED
    BY <2>4, <2>5
<1>7. PinInv'
  <2>1. seen' \subseteq LampFunctions
    BY <1>1
  <2>2. held' \in [TurnLamps -> Nat]
    <3>1. DOMAIN held' = TurnLamps /\ held' = [f \in TurnLamps |-> held'[f]]
      BY DEF ProcessMainLoop
    <3>2. \A f \in TurnLamps : held'[f] \in Nat
      BY TickHeld
    <3> QED
      BY <3>1, <3>2
  <2>3. ASSUME NEW f \in TurnLamps
        PROVE  IF Driver(seen', f) = "kUnknown" THEN held'[f] = 0
               ELSE Shows(f, blink[Driver(seen, f)])'
    BY TickHeld, TickShows
  <2>4. ASSUME "kHazardLamp" \notin seen' PROVE ~blink'["kHazardLamp"].was_active
    <3>1. ~IsOn("kHazardLamp")
      BY <1>1, <2>4, TurnLampsAre
    <3>2. BlinkAt(now', "kHazardLamp") = Inactive
      BY <3>1 DEF BlinkAt
    <3> QED
      BY <1>1, <3>2, TurnLampsAre DEF Inactive
  <2> QED
    BY <2>1, <2>2, <2>3, <2>4 DEF PinInv
<1> QED
  BY <1>2, <1>3, <1>4, <1>5, <1>6, <1>7 DEF LoopInv

\* Nothing but a tick looks at the outputs, so what it last saw stays true.
LEMMA HandleSafe ==
  ASSUME LoopInv, [Next]_vars, UNCHANGED <<now, blink, pin, seen, held, resumed>>
  PROVE  LoopInv' /\ PolicyStep
<1>1. IInv' /\ PolicyStep
  BY EveryStep DEF LoopInv
<1>2. LoopTypeOK' /\ NoPinWithoutLamp' /\ BlinksInv'
  BY DEF LoopInv, LoopTypeOK, NoPinWithoutLamp, BlinksInv
<1>3. PinInv'
  BY DEF LoopInv, PinInv, Shows, InFullPhase, Age
<1> QED
  BY <1>1, <1>2, <1>3 DEF LoopInv

LEMMA LoopInitInv == LoopInit => LoopInv
<1> SUFFICES ASSUME LoopInit PROVE LoopInv
  OBVIOUS
<1>1. IInv
  BY InitInv DEF LoopInit
<1>2. LoopTypeOK
  BY TimeAssumption DEF LoopInit, LoopTypeOK, Inactive
<1>3. NoPinWithoutLamp /\ BlinksInv
  BY DEF LoopInit, NoPinWithoutLamp, BlinksInv, Inactive, TurnLamps
<1>4. PinInv
  BY DEF LoopInit, PinInv, Driver, Inactive, TurnLamps
<1> QED
  BY <1>1, <1>2, <1>3, <1>4 DEF LoopInv

LEMMA LoopStep == LoopInv /\ [LoopNext]_loop_vars => LoopInv' /\ PolicyStep
<1> SUFFICES ASSUME LoopInv, [LoopNext]_loop_vars PROVE LoopInv' /\ PolicyStep
  OBVIOUS
<1>1. CASE Handle
  BY <1>1, HandleSafe DEF Handle
<1>2. CASE \E e \in 0 .. MaxElapsed : ProcessMainLoop(e)
  BY <1>2, TickSafe
<1>3. CASE UNCHANGED loop_vars
  BY <1>3, HandleSafe DEF loop_vars
<1> QED
  BY <1>1, <1>2, <1>3 DEF LoopNext

LEMMA LoopInvariance == LoopSpec => []LoopInv
  BY LoopInitInv, LoopStep, PTL DEF LoopSpec

\* The clock, the blinks and the pins keep their types whenever the clock wraps.
THEOREM LoopTypeCorrect == LoopSpec => []LoopTypeOK
<1>1. LoopInv => LoopTypeOK
  BY DEF LoopInv
<1> QED
  BY <1>1, LoopInvariance, PTL

\* No phase carries a pin on after its lamp has gone off.
THEOREM PinsTrue == LoopSpec => []NoPinWithoutLamp
<1>1. LoopInv => NoPinWithoutLamp
  BY DEF LoopInv
<1> QED
  BY <1>1, LoopInvariance, PTL

\* No driven pin stands still for a period, for any width of the clock.
THEOREM NeverSticks == LoopSpec => []BlinkNeverSticks
<1>1. ASSUME LoopInv PROVE BlinkNeverSticks
  <2>1. SUFFICES ASSUME NEW f \in TurnLamps PROVE held[f] < Period
    BY DEF BlinkNeverSticks
  <2>2. CASE Driver(seen, f) = "kUnknown"
    BY <1>1, <2>2, TimeAssumption DEF LoopInv, PinInv
  <2>3. CASE Driver(seen, f) # "kUnknown"
    <3> DEFINE b == blink[Driver(seen, f)]
    <3>1. Driver(seen, f) \in TurnLamps
      BY <2>3 DEF Driver, TurnLamps
    <3>2. Shows(f, b)
      BY <1>1, <2>3 DEF LoopInv, PinInv
    <3>3. b \in Blink /\ now \in Times
      BY <1>1, <3>1 DEF LoopInv, LoopTypeOK, Blink, Times
    <3>4. Age(b, now) \in Nat /\ held[f] \in Nat /\ Period \in Nat
      BY <1>1, <3>3, AgeIs, TimeAssumption DEF LoopInv, PinInv, Times, Blink
    <3> QED
      BY <3>2, <3>4 DEF Shows
  <2> QED
    BY <2>2, <2>3
<1> QED
  BY <1>1, LoopInvariance, PTL

\* While the hazard lamp blinks, no level of it is shorter than a period, although the
\* clock may wrap in the middle of it.
THEOREM PulsesFull == LoopSpec => HazardPulsesAreFull
<1> DEFINE Full == "kHazardLamp" \in seen \cap seen' /\ pin'["kHazardLamp"] # pin["kHazardLamp"]
                     => held["kHazardLamp"] + ((now' + MsModulus - now) % MsModulus) >= Period
<1>1. LoopInv /\ [LoopNext]_loop_vars => [Full]_loop_vars
  <2> SUFFICES ASSUME LoopInv, LoopNext PROVE Full
    OBVIOUS
  <2>1. CASE Handle
    BY <2>1 DEF Handle
  <2>2. ASSUME NEW e \in 0 .. MaxElapsed, ProcessMainLoop(e) PROVE Full
    <3> SUFFICES ASSUME "kHazardLamp" \in seen \cap seen',
                        pin'["kHazardLamp"] # pin["kHazardLamp"]
                 PROVE  held["kHazardLamp"] + ((now' + MsModulus - now) % MsModulus) >= Period
      OBVIOUS
    <3> DEFINE b == blink["kHazardLamp"]
    <3>1. /\ "kHazardLamp" \in TurnLamps
          /\ Driver(seen, "kHazardLamp") = "kHazardLamp"
          /\ Driver(seen', "kHazardLamp") = "kHazardLamp"
      BY DEF Driver, TurnLamps
    <3>2. Age(b, now) + e >= Period
      BY <2>2, <3>1, TickShows
    <3>3. Age(b, now) < Period /\ held["kHazardLamp"] = Age(b, now)
      BY <3>1 DEF LoopInv, PinInv, Shows, InFullPhase
    <3>4. b \in Blink /\ now \in Times
      BY <3>1 DEF LoopInv, LoopTypeOK, Blink, Times
    <3>5. (now' + MsModulus - now) % MsModulus = e
      <4> HIDE DEF b
      <4> QED
        BY <2>2, <3>3, <3>4, Ages DEF ProcessMainLoop
    <3> QED
      BY <3>2, <3>3, <3>5
  <2> QED
    BY <2>1, <2>2 DEF LoopNext
<1> QED
  BY <1>1, LoopInvariance, PTL DEF LoopSpec, HazardPulsesAreFull

\* A newly lit indicator shows its pin high at once, and no level of it is shorter than
\* a period unless hazard has interrupted the phase, whatever the clock and the loop do.
THEOREM IndicatorPulses == LoopSpec => IndicatorPulsesAreFull
<1> DEFINE Full == \A f \in Indicators : "kHazardLamp" \notin seen \cup seen' =>
                     /\ f \in seen' \ seen => pin'[f]
                     /\ f \in (seen \cap seen') \ resumed /\ pin'[f] # pin[f] =>
                          held[f] + ((now' + MsModulus - now) % MsModulus) >= Period
<1>1. LoopInv /\ [LoopNext]_loop_vars => [Full]_loop_vars
  <2> SUFFICES ASSUME LoopInv, LoopNext PROVE Full
    OBVIOUS
  <2>1. CASE Handle
    BY <2>1 DEF Handle
  <2>2. ASSUME NEW e \in 0 .. MaxElapsed, ProcessMainLoop(e) PROVE Full
    <3> SUFFICES ASSUME NEW f \in Indicators, "kHazardLamp" \notin seen \cup seen',
                        f \in seen'
                 PROVE  /\ f \notin seen => pin'[f]
                        /\ f \in seen \ resumed /\ pin'[f] # pin[f] =>
                             held[f] + ((now' + MsModulus - now) % MsModulus) >= Period
      OBVIOUS
    <3> DEFINE b == blink[f]
    <3>1. f \in TurnLamps /\ Driver(seen', f) = f /\ f # "kUnknown" /\ f # "kHazardLamp"
      BY DEF Driver, TurnLamps, Indicators
    <3>2. ASSUME f \notin seen PROVE pin'[f]
      <4>1. ~b.was_active
        BY <3>2 DEF LoopInv, BlinksInv
      <4>2. pin'[f] = Blinked(b, now').phase_on
        BY <2>2, <3>1, TickDriver
      <4> QED
        BY <4>1, <4>2 DEF Blinked
    <3>3. ASSUME f \in seen, f \notin resumed, pin'[f] # pin[f]
          PROVE  held[f] + ((now' + MsModulus - now) % MsModulus) >= Period
      <4>1. Driver(seen, f) = f
        BY <3>3 DEF Driver
      <4>2. Age(b, now) + e >= Period
        BY <2>2, <3>1, <3>3, <4>1, TickShows
      <4>3. Age(b, now) < Period /\ held[f] = Age(b, now)
        BY <3>1, <3>3, <4>1 DEF LoopInv, PinInv, Shows, InFullPhase
      <4>4. b \in Blink /\ now \in Times
        BY <3>1 DEF LoopInv, LoopTypeOK, Blink, Times
      <4>5. (now' + MsModulus - now) % MsModulus = e
        <5> HIDE DEF b
        <5> QED
          BY <2>2, <4>3, <4>4, Ages DEF ProcessMainLoop
      <4> QED
        BY <4>2, <4>3, <4>5
    <3> QED
      BY <3>2, <3>3
  <2> QED
    BY <2>1, <2>2 DEF LoopNext
<1> QED
  BY <1>1, LoopInvariance, PTL DEF LoopSpec, IndicatorPulsesAreFull

\* Between two passes of the loop no faulted lamp is on, and never both indicators.
THEOREM LoopOutputsSafe == LoopSpec => []OutputsAreSafe
<1>1. LoopInv => OutputsAreSafe
  BY DEF LoopInv, IInv
<1> QED
  BY <1>1, LoopInvariance, PTL

\* The node with its loop keeps the turn-signal policy.
THEOREM LoopRefinement == LoopSpec => ImplementsPolicy
<1>1. LoopInit => Policy!Init
  BY DEF LoopInit, Init, Policy!Init, Lit, IsOn, Indicators, LampFunctions
<1>2. LoopInv /\ [LoopNext]_loop_vars => [Policy!Next]_(Policy!vars)
  BY LoopStep DEF PolicyStep
<1> QED
  BY <1>1, <1>2, LoopInvariance, PTL DEF LoopSpec, ImplementsPolicy, Policy!Spec
=============================================================================
