------------------------------ MODULE Stm32Loop ------------------------------
(***************************************************************************)
(* The main loop of the bare-metal node: datagrams and diagnostic requests *)
(* are handled as they arrive (Stm32Node), then BlinkManager drives the    *)
(* five output pins from the lamp outputs and the millisecond tick.  The   *)
(* Zephyr build runs the same BlinkManager in a thread of its own.         *)
(*                                                                         *)
(* Time is the uint32_t tick of the HAL, modulo MsModulus.  seen, held and *)
(* resumed are history: what the last tick saw of the outputs, for how     *)
(* long a pin has kept its level, and which phases hazard interrupted.     *)
(***************************************************************************)
EXTENDS Stm32Node

CONSTANTS
  MsModulus,    \* 2^32
  Period,       \* kIndicatorOnTime and kIndicatorOffTime, 500 ms each
  MaxElapsed    \* the longest the loop takes

ASSUME TimeAssumption ==
  /\ Period \in Nat \ {0} /\ MaxElapsed \in Nat \ {0}
  /\ MsModulus \in Nat /\ MsModulus > Period + MaxElapsed

VARIABLES
  now,      \* HAL_GetTick at the last call of BlinkManager
  blink,    \* left_blink_, right_blink_ and hazard_blink_
  pin,      \* the level of each output pin
  seen,     \* the lamps that were on at the last tick
  held,     \* the time since the pin, or what drives it, last changed
  resumed   \* the indicators whose phase began before the last hazard

loop_vars == <<vars, now, blink, pin, seen, held, resumed>>

TurnLamps == Indicators \cup {"kHazardLamp"}
Inactive == [phase_on |-> FALSE, phase_start_ms |-> 0, was_active |-> FALSE]

LoopInit ==
  /\ Init
  /\ now = 0
  /\ blink = [f \in TurnLamps |-> Inactive]
  /\ pin = [f \in LampFunctions |-> FALSE]
  /\ seen = {}
  /\ held = [f \in TurnLamps |-> 0]
  /\ resumed = {}

-----------------------------------------------------------------------------
(* BlinkManager *)

\* Mutation of PhaseIsOver: the deadline is compared with the clock.
PhaseIsOverByDeadline(b, t) == t >= b.phase_start_ms + Period

\* Unsigned subtraction: right across a wrap of the tick.
PhaseIsOver(b, t) == (t + MsModulus - b.phase_start_ms) % MsModulus >= Period

\* Mutation of Flipped: the start of the phase is not moved.
FlippedOnly(b, t) == [b EXCEPT !.phase_on = ~@]

Flipped(b, t) == [b EXCEPT !.phase_on = ~@, !.phase_start_ms = t]

\* Tick, or the start of a blink: with the phase on.
Blinked(b, t) ==
  CASE ~b.was_active -> [phase_on |-> TRUE, phase_start_ms |-> t, was_active |-> TRUE]
    [] b.was_active /\ PhaseIsOver(b, t)  -> Flipped(b, t)
    [] b.was_active /\ ~PhaseIsOver(b, t) -> b

\* Mutation of BlinkAt: the blink of an indicator that goes off is kept.
BlinkAtKept(t, f) ==
  CASE f = "kHazardLamp" -> IF IsOn(f) THEN Blinked(blink[f], t) ELSE Inactive
    [] f \in Indicators /\ IsOn("kHazardLamp") -> blink[f]
    [] f \in Indicators /\ ~IsOn("kHazardLamp") ->
         IF IsOn(f) THEN Blinked(blink[f], t) ELSE [blink[f] EXCEPT !.phase_on = FALSE]

\* While the hazard lamp is on its phase drives all three pins, and the blinks of
\* the indicators are left as they are; else each indicator has its own.
BlinkAt(t, f) ==
  CASE f = "kHazardLamp" -> IF IsOn(f) THEN Blinked(blink[f], t) ELSE Inactive
    [] f \in Indicators /\ IsOn("kHazardLamp") -> blink[f]
    [] f \in Indicators /\ ~IsOn("kHazardLamp") ->
         IF IsOn(f) THEN Blinked(blink[f], t) ELSE Inactive

\* Mutation of PinAt: an indicator that goes off keeps its level.
PinAtKeepsLevel(blinks, f) ==
  CASE f \notin TurnLamps -> IsOn(f)
    [] f \in TurnLamps /\ IsOn("kHazardLamp") -> blinks["kHazardLamp"].phase_on
    [] f \in TurnLamps /\ ~IsOn("kHazardLamp") ->
         IF IsOn(f) THEN blinks[f].phase_on ELSE pin[f]

PinAt(blinks, f) ==
  CASE f \notin TurnLamps -> IsOn(f)
    [] f \in TurnLamps /\ IsOn("kHazardLamp") -> blinks["kHazardLamp"].phase_on
    [] f \in TurnLamps /\ ~IsOn("kHazardLamp") -> blinks[f].phase_on

\* What drives the pin of f when the lamps of on are on.
Driver(on, f) == IF "kHazardLamp" \in on THEN "kHazardLamp"
                 ELSE IF f \in on THEN f ELSE "kUnknown"

ProcessMainLoop(elapsed) ==
  /\ now' = (now + elapsed) % MsModulus
  /\ blink' = [f \in TurnLamps |-> BlinkAt(now', f)]
  /\ pin' = [f \in LampFunctions |-> PinAt(blink', f)]
  /\ seen' = {f \in LampFunctions : IsOn(f)}
  /\ held' = [f \in TurnLamps |->
                IF pin'[f] # pin[f] \/ Driver(seen', f) # Driver(seen, f) \/
                   Driver(seen', f) = "kUnknown"
                THEN 0
                ELSE IF held[f] + elapsed < 2 * Period THEN held[f] + elapsed
                                                       ELSE 2 * Period]
  /\ resumed' = {f \in Indicators : blink[f].was_active /\ blink'[f] = blink[f] /\
                                     ("kHazardLamp" \in seen' \/ f \in resumed)}
  /\ sent' = << >>
  /\ UNCHANGED <<lamp_output, faulted, last_hazard_sequence,
                 active_indicator_before_hazard>>

Handle ==
  /\ Next
  /\ UNCHANGED <<now, blink, pin, seen, held, resumed>>

LoopNext == Handle \/ \E elapsed \in 0 .. MaxElapsed : ProcessMainLoop(elapsed)

LoopSpec == LoopInit /\ [][LoopNext]_loop_vars
-----------------------------------------------------------------------------
LoopTypeOK ==
  /\ now \in 0 .. MsModulus - 1
  /\ blink \in [TurnLamps -> [phase_on : BOOLEAN,
                              phase_start_ms : 0 .. MsModulus - 1,
                              was_active : BOOLEAN]]
  /\ pin \in [LampFunctions -> BOOLEAN]

\* A pin is high only for a lamp that the last tick saw on, or for the hazard lamp:
\* no phase carries it on after its lamp has gone off (fault tree FT-02, B-23).
NoPinWithoutLamp ==
  \A f \in LampFunctions : pin[f] => f \in seen \/ (f \in Indicators /\ "kHazardLamp" \in seen)

\* A pin that is driven never keeps its level for a whole period at the end of a
\* tick, not even across a wrap of the clock or after an interruption by hazard.
BlinkNeverSticks == \A f \in TurnLamps : held[f] < Period

\* While the hazard lamp blinks its pulses are full: no level lasts less than a period.
HazardPulsesAreFull ==
  [][ "kHazardLamp" \in seen \cap seen' /\ pin'["kHazardLamp"] # pin["kHazardLamp"]
        => held["kHazardLamp"] + ((now' + MsModulus - now) % MsModulus) >= Period ]_loop_vars

\* An indicator that the tick finds lit where the last one saw neither it nor hazard
\* begins with its pin high, and from then on no level is shorter than a period: the
\* first visible edge is an ON pulse of full length.  Only the phase that hazard has
\* interrupted and that is resumed after it may be cut, and it is left out.
IndicatorPulsesAreFull ==
  [][ \A f \in Indicators : "kHazardLamp" \notin seen \cup seen' =>
        /\ f \in seen' \ seen => pin'[f]
        /\ f \in (seen \cap seen') \ resumed /\ pin'[f] # pin[f] =>
             held[f] + ((now' + MsModulus - now) % MsModulus) >= Period ]_loop_vars
=============================================================================
