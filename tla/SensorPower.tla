----------------------------- MODULE SensorPower -----------------------------
(***************************************************************************)
(* Which chips the sensors HAL keeps switched on, and at what rate the     *)
(* compass works: activate and setDelay of sensors/nusensors.cpp with the  *)
(* enable of every driver.  The caller makes one call at a time; any open  *)
(* and any ioctl may fail.  The accelerometer chip serves two sensors: the *)
(* compass driver's daemon computes the orientation from its data.         *)
(*                                                                         *)
(* A driver operator maps the state of its driver to the set of outcomes   *)
(* [state, err].                                                           *)
(***************************************************************************)
EXTENDS Integers, FiniteSetsExt

CONSTANTS
    Singles,    \* sensors with a driver and a chip of their own: ID_G, ID_B, ID_L
    Delays,     \* periods setDelay is called with, in milliseconds
    ShortMax    \* the largest value of a short

DefaultDelay == 200     \* mDelays of a new AkmSensor

ASSUME DelaysAssumption ==
    /\ Singles \subseteq {"ID_G", "ID_B", "ID_L"}
    /\ Delays \subseteq Nat /\ ShortMax \in Nat /\ DefaultDelay <= ShortMax

CompassSensors == {"ID_M", "ID_O"}

\* The entries of mEnabled and mDelays: the compass driver has one for the
\* accelerometer too, which activate and setDelay leave to the driver of its own.
CompassFlags == {"ID_A"} \cup CompassSensors

Reporting == {"ID_A"} \cup CompassSensors \cup (Singles \ {"ID_L"})

VARIABLES
    accel,      \* [uses, open, on, offFailed, missed]: uses is the set of the flags
                \* of the driver that are set, and on is the kernel's; auxiliary:
                \* a disabling ioctl failed, and the chip was on at the start, which
                \* the constructor did not learn, and was not switched since
    compass,    \* [mEnabled, mDelays, open, flags, delay, rateSet, missed]: flags
                \* and delay are the kernel's; auxiliary: the last ioctl for the
                \* delay succeeded, and the flags that are missed in this sense
    single,     \* the same of each other driver
    said        \* auxiliary: what the last activate of each sensor did, if it
                \* reported success: "on" or "off", and else "nothing".  The light
                \* sensor's reports success always and is left out.

vars == <<accel, compass, single, said>>

\* open_device: dev_fd is open afterwards, unless the open fails.
Opened(open) == {TRUE, open}

\* An ioctl may fail, and fails if dev_fd is closed.
Ioctl(open) == {FALSE, open}

Outcome(s, ok) == [state |-> s, err |-> ~ok]

With(set, x, en) == IF en THEN set \cup {x} ELSE set \ {x}

\* The chip is switched for a use: open_device to enable it, the ioctl, and
\* close_device to disable it, whether or not the ioctl succeeded.
SwitchedChip(d, use, en) ==
    UNION {{Outcome([uses |-> IF ok THEN With(d.uses, use, en) ELSE d.uses,
                     open |-> en /\ o,
                     on |-> IF ok THEN en ELSE d.on,
                     offFailed |-> d.offFailed \/ (~en /\ ~ok),
                     missed |-> d.missed /\ ~ok], ok)
            : ok \in Ioctl(o)}
           : o \in IF en THEN Opened(d.open) ELSE {d.open}}

\* GyroSensor, PressureSensor and LightSensor: enable.
SingleEnable(d, en) ==
    IF ("mEnabled" \in d.uses) = en THEN {Outcome(d, TRUE)}
    ELSE SwitchedChip(d, "mEnabled", en)

\* Mutant of AccelSwitch: the other use is not considered.
AccelSwitchAlone(a, use, other, en) ==
    IF (use \in a.uses) = en THEN {Outcome(a, TRUE)}
    ELSE SwitchedChip(a, use, en)

\* Mutant of AccelSwitch: the device is closed although the other use goes on.
AccelSwitchCloses(a, use, other, en) ==
    IF (use \in a.uses) # en /\ other \in a.uses /\ ~en
    THEN {Outcome([uses |-> {other}, open |-> FALSE, on |-> a.on,
                   offFailed |-> a.offFailed, missed |-> a.missed], TRUE)}
    ELSE AccelSwitchAlone(a, use, other, en)

\* The part AccelerationSensor's enable and enableOrientation share: the chip is
\* switched for one of its two uses, unless the use is ended while there is the
\* other.
AccelSwitch(a, use, other, en) ==
    IF (use \in a.uses) = en THEN {Outcome(a, TRUE)}
    ELSE IF other \in a.uses /\ ~en
    THEN {Outcome([uses |-> a.uses \ {use}, open |-> a.open, on |-> a.on,
                   offFailed |-> a.offFailed, missed |-> a.missed], TRUE)}
    ELSE SwitchedChip(a, use, en)

AccelEnable(a, en) == AccelSwitch(a, "mEnabled", "mOrientationEnabled", en)
AccelEnableOrientation(a, en) == AccelSwitch(a, "mOrientationEnabled", "mEnabled", en)

\* The conversion of a number of milliseconds to a short.
Short(ms) == ((ms + ShortMax + 1) % (2 * (ShortMax + 1))) - (ShortMax + 1)

Wanted(c) == Min({c.mDelays[s] : s \in c.mEnabled})

Compass(mEnabled, mDelays, open, flags, delay, rateSet, missed) ==
    [mEnabled |-> mEnabled, mDelays |-> mDelays, open |-> open, flags |-> flags,
     delay |-> delay, rateSet |-> rateSet, missed |-> missed]

\* Mutant of UpdateDelay: the delays of sensors that are disabled count too.
UpdateDelayAll(c) ==
    IF c.mEnabled = {} THEN {c}
    ELSE LET all == Min({c.mDelays[s] : s \in CompassFlags})
         IN {Compass(c.mEnabled, c.mDelays, c.open, c.flags,
                     IF ok THEN Short(all) ELSE c.delay, ok, c.missed)
             : ok \in Ioctl(c.open)}

\* AkmSensor: update_delay.
UpdateDelay(c) ==
    IF c.mEnabled = {} THEN {c}
    ELSE {Compass(c.mEnabled, c.mDelays, c.open, c.flags,
                  IF ok THEN Short(Wanted(c)) ELSE c.delay, ok, c.missed)
          : ok \in Ioctl(c.open)}

\* Mutant of Closed: the device stays open.
ClosedNever(c) == c

\* AkmSensor's enable after its ioctl succeeded, and its end: the device is
\* closed once nothing is enabled.
Switched(c, s, en) ==
    Compass(With(c.mEnabled, s, en), c.mDelays, c.open, With(c.flags, s, en), c.delay,
            c.rateSet, c.missed \ {s})

Closed(c) ==
    Compass(c.mEnabled, c.mDelays, c.open /\ c.mEnabled # {}, c.flags, c.delay,
            c.rateSet, c.missed)

\* What update_delay returns is ignored.
CompassEnable(c, s, en) ==
    IF (s \in c.mEnabled) = en THEN {Outcome(c, TRUE)}
    ELSE UNION {LET opened == Compass(c.mEnabled, c.mDelays, o, c.flags, c.delay, c.rateSet,
                                       c.missed)
                IN {Outcome(Closed(opened), FALSE)}
                   \cup {Outcome(Closed(u), TRUE) : u \in
                            IF o THEN UpdateDelay(Switched(opened, s, en)) ELSE {}}
                : o \in IF c.mEnabled = {} THEN Opened(c.open) ELSE {c.open}}

\* A constructor opens the device and asks the kernel whether the chip is on; if
\* either fails it takes the chip to be off.  The light sensor's does not ask.
Found(on, asked) ==
    [uses |-> IF on /\ asked THEN {"mEnabled"} ELSE {}, open |-> on /\ asked, on |-> on,
     offFailed |-> FALSE, missed |-> on /\ ~asked]

\* The compass driver asks for its three flags, one after the other.
FoundCompass(flags, asked) ==
    Compass(flags \cap asked, [s \in CompassFlags |-> DefaultDelay],
            flags \cap asked # {}, flags, 0, FALSE, flags \ asked)

Init ==
    /\ \E on, asked \in BOOLEAN : accel = Found(on, asked)
    /\ \E flags, asked \in SUBSET CompassFlags : compass = FoundCompass(flags, asked)
    /\ \E on, asked \in [Singles -> BOOLEAN] :
          single = [h \in Singles |-> Found(on[h], asked[h] /\ h # "ID_L")]
    /\ said = [h \in Reporting |-> "nothing"]

-----------------------------------------------------------------------------
\* What activate tells its caller.
Say(h, en, err) ==
    said' = [said EXCEPT ![h] = IF err THEN "nothing" ELSE IF en THEN "on" ELSE "off"]

\* LightSensor::enable returns 0 whatever its ioctl did.
ActivateSingle(h, en) ==
    /\ \E r \in SingleEnable(single[h], en) :
          /\ single' = [single EXCEPT ![h] = r.state]
          /\ IF h = "ID_L" THEN UNCHANGED said ELSE Say(h, en, r.err)
    /\ UNCHANGED <<accel, compass>>

ActivateAccel(en) ==
    /\ \E r \in AccelEnable(accel, en) : accel' = r.state /\ Say("ID_A", en, r.err)
    /\ UNCHANGED <<compass, single>>

ActivateMagnetic(en) ==
    /\ \E r \in CompassEnable(compass, "ID_M", en) :
          compass' = r.state /\ Say("ID_M", en, r.err)
    /\ UNCHANGED <<accel, single>>

\* The orientation needs the compass and, if that was enabled or disabled, the
\* accelerometer; nothing is undone when the second fails.
\* Mutant of ActivateOrientation: what the accelerometer's driver says is ignored.
ActivateOrientationDeaf(en) ==
    /\ \E r \in CompassEnable(compass, "ID_O", en) :
          /\ compass' = r.state /\ Say("ID_O", en, r.err)
          /\ IF r.err THEN UNCHANGED accel
             ELSE \E q \in AccelEnableOrientation(accel, en) : accel' = q.state
    /\ UNCHANGED single

ActivateOrientation(en) ==
    /\ \E r \in CompassEnable(compass, "ID_O", en) :
          /\ compass' = r.state
          /\ IF r.err THEN Say("ID_O", en, TRUE) /\ UNCHANGED accel
             ELSE \E q \in AccelEnableOrientation(accel, en) :
                     accel' = q.state /\ Say("ID_O", en, q.err)
    /\ UNCHANGED single

\* setDelay of the compass driver.
SetDelayCompass(s, ms) ==
    /\ LET delays == [compass.mDelays EXCEPT ![s] = ms]
       IN compass' \in UpdateDelay(Compass(compass.mEnabled, delays, compass.open,
                                           compass.flags, compass.delay, compass.rateSet,
                                           compass.missed))
    /\ UNCHANGED <<accel, single, said>>

Next ==
    \/ \E en \in BOOLEAN :
          \/ ActivateAccel(en) \/ ActivateMagnetic(en) \/ ActivateOrientation(en)
          \/ \E h \in Singles : ActivateSingle(h, en)
    \/ \E s \in CompassSensors, ms \in Delays : SetDelayCompass(s, ms)

Spec == Init /\ [][Next]_vars

-----------------------------------------------------------------------------
(* Properties.                                                             *)

\* Types; the compass driver has its device open exactly while it has something
\* enabled, and the kernel's flags are those it has enabled and those it missed.
Drivers(uses) ==
    [uses : SUBSET uses, open : BOOLEAN, on : BOOLEAN, offFailed : BOOLEAN, missed : BOOLEAN]
AccelUses == {"mEnabled", "mOrientationEnabled"}

TypeOK ==
    /\ accel \in Drivers(AccelUses)
    /\ single \in [Singles -> Drivers({"mEnabled"})]
    /\ compass.mEnabled \subseteq CompassFlags /\ compass.missed \subseteq CompassFlags
    /\ compass.flags = compass.mEnabled \cup compass.missed
    /\ compass.open \in BOOLEAN /\ (compass.open <=> compass.mEnabled # {})
    /\ compass.mDelays \in [CompassFlags -> Delays \cup {DefaultDelay}]
    /\ compass.delay \in -(ShortMax + 1)..ShortMax /\ compass.rateSet \in BOOLEAN
    /\ said \in [Reporting -> {"on", "off", "nothing"}]

\* The accelerometer is on for as long as one of its two uses goes on, and no
\* longer: "don't turn the accelerometer off, if the orientation sensor is
\* enabled" (AccelerationSensor.cpp:66), "if the user has requested it" (93).
\* Only a chip the constructor failed to find on stays on unused until it is
\* switched.
AccelOnWhileUsed == accel.on <=> accel.uses # {} \/ accel.missed

\* What activate last reported as done for a sensor is still so, whatever was
\* done for other sensors since and failed: the chips the sensor needs are on, and
\* those nobody needs off, but for one that a constructor failed to find on: of
\* that activate says that it is off without switching it.
On(h) ==
    /\ h = "ID_A" => "mEnabled" \in accel.uses /\ accel.on
    /\ h = "ID_M" => "ID_M" \in compass.flags
    /\ h = "ID_O" => "ID_O" \in compass.flags /\ accel.on
    /\ h \in Singles => single[h].on

IsOff(d) == d.on => d.missed
FlagIsOff(s) == s \in compass.flags => s \in compass.missed

Off(h) ==
    /\ h = "ID_A" /\ said["ID_O"] = "off" => IsOff(accel)
    /\ h = "ID_M" => FlagIsOff("ID_M")
    /\ h = "ID_O" => FlagIsOff("ID_O")
    /\ h = "ID_O" /\ said["ID_A"] = "off" => IsOff(accel)
    /\ h \in Singles => IsOff(single[h])

SuccessIsLasting ==
    \A h \in Reporting :
        (said[h] = "on" => On(h)) /\ (said[h] = "off" => Off(h))

\* A driver that has something enabled can still reach its device, unless a
\* disabling ioctl failed: after that the device is closed, and further attempts
\* to disable it fail as well.
EnabledIsReachable ==
    \A d \in {accel} \cup {single[h] : h \in Singles} :
        d.uses # {} => d.open \/ d.offFailed

\* The compass works at the rate of the most demanding sensor that is enabled,
\* whenever the delays were given, unless the ioctl failed or the delay does not
\* fit a short.
RateIsWanted ==
    compass.mEnabled # {} /\ compass.rateSet /\ Wanted(compass) <= ShortMax
        => compass.delay = Wanted(compass)
=============================================================================
