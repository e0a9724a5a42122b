------------------------------- MODULE Cooling -------------------------------
(***************************************************************************)
(* Temperature and fan control of one GPU: nvidia/NvmlUtils.cpp, as built  *)
(* for Linux, run by the GPU's own thread before every batch of hashes.    *)
(*                                                                         *)
(* `cool' is the CoolingContext of the thread; its CurrentTemp and         *)
(* CurrentFanLevel are read afresh by every call and are no state here.    *)
(* `gpu' is the card behind the X server: its temperature, whether its fan *)
(* is under automatic control, and the level in percent it was told to     *)
(* run at; while it is automatic the card chooses the level itself.  An    *)
(* attribute of the X server answers every request of one call of the code *)
(* alike: `bad' holds those that refuse.                                   *)
(***************************************************************************)
EXTENDS Integers

CONSTANTS
    maxtemp, falloff,   \* --max-gpu-temp and --gpu-temp-falloff
    FanLevels,          \* values of --gpu-fan-level to look at
    Temps,              \* temperatures the card can have
    AutoLevels,         \* fan levels the card may choose for itself
    MaxSleepFactor,     \* cap on the sleep in ms, 9999 in the code
    XMayFail            \* the X server may refuse a request

ASSUME CoolingAssumption ==
    /\ maxtemp \in 1..100 /\ falloff \in 1..100
    /\ FanLevels \subseteq -1..100
    /\ Temps \subseteq Nat
    /\ AutoLevels \subseteq 0..100 /\ AutoLevels # {}
    /\ MaxSleepFactor \in Nat /\ MaxSleepFactor >= 100
    /\ XMayFail \in BOOLEAN

VARIABLES
    phase,      \* "start", then "cool" and "hash" in turn, then "closed"
    fanlevel,   \* Workers::fanlevel(), fixed when the program starts
    cool, gpu,
    startAuto,  \* history: the fan was automatic before the program came
    ticked,     \* history: the last DoCooling ended "early", was "blind" as
                \* it could not read the fan, or was a "full" pass
    slept,      \* history: that pass put the thread to sleep
    refused     \* history: a request for the fan's mode may have been refused

coolingVars == <<phase, fanlevel, cool, gpu, startAuto, ticked, slept, refused>>

StartSleepFactor == 100
FanFactor        == 2
FanAutoDefault   == 50
Low == maxtemp - falloff

Attributes == {"query", "mode", "level", "read", "sensor"}
Refusals == IF XMayFail THEN SUBSET Attributes ELSE {{}}

Contexts == [SleepFactor : 0..MaxSleepFactor, LastTemp : Nat, NeedsCooling : BOOLEAN,
             FanIsAutomatic : BOOLEAN, IsFanControlEnabled : BOOLEAN, Card : {-1, 0}]

CoolingInit ==
    /\ phase = "start"
    /\ fanlevel \in FanLevels
    /\ cool = [SleepFactor |-> 0, LastTemp |-> 0, NeedsCooling |-> FALSE,
               FanIsAutomatic |-> FALSE, IsFanControlEnabled |-> FALSE, Card |-> -1]
    /\ gpu \in [temp : Temps, auto : BOOLEAN, level : AutoLevels]
    /\ startAuto = gpu.auto
    /\ ticked = "early" /\ slept = FALSE /\ refused = FALSE

-----------------------------------------------------------------------------
(* The X server.                                                            *)

Modal(bad) == bad \cap {"query", "mode"} # {}

SetMode(g, auto, bad)  == IF "mode" \in bad THEN g ELSE [g EXCEPT !.auto = auto]
SetLevel(g, level, bad) ==
    IF "level" \in bad \/ g.auto THEN g ELSE [g EXCEPT !.level = level]

Clamped(percent) == IF percent < 0 THEN 0 ELSE IF percent > 100 THEN 100 ELSE percent

(* SetFanPercent: 0 hands the fan back to the card, anything else takes it  *)
(* over if the code believes it automatic, and sets the level.              *)
FanContext(c, percent) ==
    IF c.IsFanControlEnabled
    THEN [c EXCEPT !.FanIsAutomatic = (Clamped(percent) = 0)]
    ELSE c
FanCard(c, g, percent, bad) ==
    IF ~c.IsFanControlEnabled THEN g
    ELSE IF Clamped(percent) = 0 THEN SetMode(g, TRUE, bad)
    ELSE SetLevel(IF c.FanIsAutomatic THEN SetMode(g, FALSE, bad) ELSE g,
                  Clamped(percent), bad)

-----------------------------------------------------------------------------
(* NVCtrlInit: no display, no NV-CONTROL or no card with this PCI address   *)
(* leave the context as it is.                                              *)
NoControl ==
    /\ phase = "start"
    /\ XMayFail
    /\ phase' = "cool"
    /\ UNCHANGED <<fanlevel, cool, gpu, startAuto, ticked, slept, refused>>

(* NVCtrlInit to its end: ask for the fan's mode, try manual control, give  *)
(* it back if it was automatic.  The status of the last request decides     *)
(* whether fan control is enabled.                                          *)
NVCtrlInit ==
    /\ phase = "start"
    /\ \E bad \in Refusals :
          LET auto == "query" \notin bad /\ gpu.auto
              manual == SetMode(gpu, FALSE, bad)
          IN  /\ cool' = [cool EXCEPT !.Card = 0, !.FanIsAutomatic = auto,
                                      !.IsFanControlEnabled = "mode" \notin bad]
              /\ gpu' = IF auto THEN SetMode(manual, TRUE, bad) ELSE manual
              /\ refused' = Modal(bad)
    /\ phase' = "cool"
    /\ UNCHANGED <<fanlevel, startAuto, ticked, slept>>

-----------------------------------------------------------------------------
(* DoCooling.                                                               *)

(* Mutant of Judge: the temperature of the pass before is judged.           *)
JudgePrevious(c, temp) ==
    IF c.LastTemp > maxtemp
    THEN [c EXCEPT !.NeedsCooling = TRUE,
                   !.SleepFactor = IF c.NeedsCooling THEN @ ELSE StartSleepFactor]
    ELSE c

(* Too hot: throttling begins.                                              *)
Judge(c, temp) ==
    IF temp > maxtemp
    THEN [c EXCEPT !.NeedsCooling = TRUE,
                   !.SleepFactor = IF c.NeedsCooling THEN @ ELSE StartSleepFactor]
    ELSE c

(* Mutant of Cooled: the falloff is not taken off the limit.                *)
CooledAtLimit(c, temp) == c.NeedsCooling /\ temp < maxtemp

Cooled(c, temp)  == c.NeedsCooling /\ temp < Low
Heating(c, temp) == c.NeedsCooling /\ c.LastTemp < temp /\ temp > Low
Dropping(c, temp) == ~c.NeedsCooling /\ c.LastTemp > temp /\ ~c.FanIsAutomatic

(* Mutant of Relax: the sleep must be below its first value for an end.     *)
RelaxNeverEnds(c) ==
    [c EXCEPT !.NeedsCooling = c.SleepFactor >= StartSleepFactor,
              !.SleepFactor = IF c.SleepFactor < StartSleepFactor THEN 0
                              ELSE IF c.SleepFactor = StartSleepFactor THEN @
                              ELSE (@ * 2) \div 3]

(* Cooled off: sleep less, or end the throttling.                           *)
Relax(c) ==
    [c EXCEPT !.NeedsCooling = c.SleepFactor > StartSleepFactor,
              !.SleepFactor = IF c.SleepFactor <= StartSleepFactor
                              THEN 0 ELSE (@ * 2) \div 3]

(* Still getting hotter: sleep half as long again.                          *)
Tighten(c) ==
    [c EXCEPT !.SleepFactor = IF (@ * 3) \div 2 > MaxSleepFactor
                              THEN MaxSleepFactor ELSE (@ * 3) \div 2]

(* The levels the fan is told: slower on a card that cooled off ...         *)
Slower(level) == IF level > 0 THEN level - FanFactor ELSE level

(* ... faster on a throttled card ...                                       *)
Raised(level) == IF level < 100 THEN level + FanFactor * 5 ELSE level

(* ... and slower down to the default, then automatic, on a card that gets  *)
(* colder and needs no cooling.                                             *)
Settled(level) == IF level > FanAutoDefault THEN level - FanFactor
                  ELSE IF level < FanAutoDefault THEN 0 ELSE level

(* A fan order, if it is given: the context, the card and the level.        *)
Order(s, given, level, bad) ==
    IF ~given THEN s
    ELSE [c |-> FanContext(s.c, level), g |-> FanCard(s.c, s.g, level, bad),
          level |-> level]

(* The fan's level as the card reports it: its own choice if automatic.     *)
Reported(g, auto) == IF g.auto THEN auto ELSE g.level

(* DoCooling less than a second after the last full pass, or without a      *)
(* temperature: the temperature is read, if it can be, and that is all.     *)
CoolEarly ==
    /\ phase = "cool"
    /\ ticked' = "early" /\ slept' = FALSE
    /\ phase' = "hash"
    /\ UNCHANGED <<fanlevel, cool, gpu, startAuto, refused>>

(* The judgement of a pass that has both readings, in the code's order.     *)
Pass(s, bad) ==
    LET temp == s.g.temp
        free == fanlevel = 0
        c1 == Judge(s.c, temp)
        c2 == IF Cooled(c1, temp) THEN Relax(c1)
              ELSE IF Heating(c1, temp) THEN Tighten(c1) ELSE c1
        s2 == Order([s EXCEPT !.c = c2], free /\ Cooled(c1, temp), Slower(s.level), bad)
        s3 == Order(s2, free /\ c2.NeedsCooling, Raised(s2.level), bad)
    IN  Order(s3, free /\ Dropping(s3.c, temp) /\ s3.level # FanAutoDefault,
              Settled(s3.level), bad)

(* DoCooling, a full pass.  Without the fan's level it ends before the      *)
(* temperature is looked at.                                                *)
CoolTick ==
    /\ phase = "cool"
    /\ cool.Card >= 0
    /\ \E bad \in Refusals, auto \in AutoLevels :
          /\ "sensor" \notin bad
          /\ LET s1 == Order([c |-> cool, g |-> gpu, level |-> 0],
                             fanlevel > 0, fanlevel, bad)
                 s2 == [s1 EXCEPT !.level = Reported(s1.g, auto)]
                 s3 == Pass(s2, bad)
             IN  IF s1.c.IsFanControlEnabled /\ "read" \notin bad
                 THEN /\ cool' = [s3.c EXCEPT !.LastTemp = gpu.temp]
                      /\ gpu' = s3.g
                      /\ ticked' = "full" /\ slept' = s3.c.NeedsCooling
                 ELSE /\ cool' = s1.c /\ gpu' = s1.g
                      /\ ticked' = "blind" /\ slept' = FALSE
          /\ refused' = (refused \/ Modal(bad))
    /\ phase' = "hash"
    /\ UNCHANGED <<fanlevel, startAuto>>

(* One batch; the card's temperature goes where it likes.                   *)
BatchRuns ==
    /\ phase = "hash"
    /\ \E t \in Temps : gpu' = [gpu EXCEPT !.temp = t]
    /\ phase' = "cool"
    /\ UNCHANGED <<fanlevel, cool, startAuto, ticked, slept, refused>>

(* Mutant of NVCtrlClose: the fan stays as it is.                           *)
NVCtrlCloseForgets ==
    /\ phase = "cool"
    /\ phase' = "closed"
    /\ UNCHANGED <<fanlevel, cool, gpu, startAuto, ticked, slept, refused>>

(* NVCtrlClose: a fan taken over is handed back.                            *)
NVCtrlClose ==
    /\ phase = "cool"
    /\ \E bad \in Refusals :
          IF cool.FanIsAutomatic THEN UNCHANGED <<cool, gpu, refused>>
          ELSE /\ cool' = FanContext(cool, 0)
               /\ gpu' = FanCard(cool, gpu, 0, bad)
               /\ refused' = (refused \/ Modal(bad))
    /\ phase' = "closed"
    /\ UNCHANGED <<fanlevel, startAuto, ticked, slept>>

Closed == phase = "closed" /\ UNCHANGED coolingVars

CoolingNext == NoControl \/ NVCtrlInit \/ CoolEarly \/ CoolTick \/ BatchRuns
        \/ NVCtrlClose \/ Closed

CoolingSpec == CoolingInit /\ [][CoolingNext]_coolingVars

(* The thread keeps running until it closes, and over a second passes again *)
(* and again, so full passes recur.                                         *)
CoolingFairSpec == CoolingSpec /\ WF_coolingVars(BatchRuns) /\ WF_coolingVars(CoolEarly) /\ SF_coolingVars(CoolTick)

-----------------------------------------------------------------------------
(* Properties.                                                              *)

CoolingTypeOK ==
    /\ phase \in {"start", "cool", "hash", "closed"}
    /\ fanlevel \in FanLevels
    /\ cool \in Contexts
    /\ gpu \in [temp : Temps, auto : BOOLEAN, level : 0..100]
    /\ startAuto \in BOOLEAN /\ slept \in BOOLEAN /\ refused \in BOOLEAN
    /\ ticked \in {"early", "blind", "full"}

(* Throttling is never an empty word and never outlives its reason: a card  *)
(* that needs cooling sleeps 66 ms or more, but no longer than the cap, and *)
(* any other card not at all.                                               *)
SleepsIffCooling ==
    /\ cool.NeedsCooling => cool.SleepFactor \in 66..MaxSleepFactor
    /\ ~cool.NeedsCooling => cool.SleepFactor = 0

(* A pass that can read the fan and finds the card above the limit          *)
(* throttles it.                                                            *)
HotIsThrottled ==
    (phase = "hash" /\ ticked = "full" /\ gpu.temp > maxtemp) => slept

(* A card sleeps exactly when it is to be cooled, which it is when it is hot.*)
Throttled == SleepsIffCooling /\ HotIsThrottled

(* Throttling, once begun, lasts until the card is falloff below the limit. *)
Hysteresis ==
    [][cool.NeedsCooling /\ ~cool'.NeedsCooling => gpu.temp < Low]_coolingVars

(* Unless a request for its mode was refused, a fan that was automatic      *)
(* before the program is automatic after it, and meanwhile the code knows   *)
(* which of the two it is.                                                  *)
FanGivenBack ==
    ~refused => /\ phase = "closed" /\ startAuto => gpu.auto
                /\ cool.IsFanControlEnabled => (cool.FanIsAutomatic <=> gpu.auto)

(* A throttled card that stays cool is released.                            *)
Released == cool.NeedsCooling ~>
                (~cool.NeedsCooling \/ gpu.temp >= Low \/ phase = "closed")

(* The fan of a card that stays throttled comes to run at full speed.       *)
FanReachesFull == (cool.NeedsCooling /\ fanlevel = 0) ~>
                      ((gpu.level = 100 /\ ~gpu.auto) \/ ~cool.NeedsCooling \/ phase = "closed")

(* "Decrease fan speed if temp keeps dropping": every full pass does, or    *)
(* hands the fan back, but for a fan that runs at exactly the default.      *)
DroppingSlowsFan ==
    [][(phase = "cool" /\ ticked' = "full" /\ fanlevel = 0
          /\ ~cool.NeedsCooling /\ ~cool'.NeedsCooling /\ ~gpu.auto
          /\ cool.LastTemp > gpu.temp /\ gpu.level # FanAutoDefault)
        => (gpu'.auto \/ gpu'.level < gpu.level)]_coolingVars

(* A card that stays cool is released, the fan of one that stays hot comes   *)
(* to full speed, and the fan of one that cools down slows.                  *)
FollowsTemperature == Released /\ FanReachesFull /\ DroppingSlowsFan
=============================================================================
