------------------------- MODULE SensorPower_proofs -------------------------
(* Theorems about SensorPower, for all sets of sensors and of delays.      *)
EXTENDS SensorPower, TLAPS

USE DelaysAssumption

LEMMA NothingToDo == \A d : Outcome(d, TRUE).state = d /\ Outcome(d, TRUE).err = FALSE
BY DEF Outcome

\* A failure of the ioctl leaves the uses and the chip; a success makes both what
\* was asked for.
LEMMA ChipSwitched ==
    ASSUME NEW U, NEW d \in Drivers(U), NEW use \in U, NEW en \in BOOLEAN,
           NEW r \in SwitchedChip(d, use, en)
    PROVE  /\ r.state \in Drivers(U) /\ r.err \in BOOLEAN
           /\ r.err => r.state.uses = d.uses /\ r.state.on = d.on
           /\ ~r.err => r.state.uses = With(d.uses, use, en) /\ r.state.on = en
           /\ en /\ (d.open \/ ~r.err) => r.state.open
           /\ r.state.offFailed = (d.offFailed \/ (~en /\ r.err))
           /\ r.state.missed = (d.missed /\ r.err)
<1>a. /\ d.uses \subseteq U /\ d.open \in BOOLEAN /\ d.on \in BOOLEAN /\ d.offFailed \in BOOLEAN
      /\ d.missed \in BOOLEAN
  BY DEF Drivers
<1>1. PICK o \in BOOLEAN, ok \in BOOLEAN :
        /\ r = Outcome([uses |-> IF ok THEN With(d.uses, use, en) ELSE d.uses,
                        open |-> en /\ o,
                        on |-> IF ok THEN en ELSE d.on,
                        offFailed |-> d.offFailed \/ (~en /\ ~ok),
                        missed |-> d.missed /\ ~ok], ok)
        /\ ok => o
        /\ en /\ d.open => o
  <2>1. PICK o \in (IF en THEN Opened(d.open) ELSE {d.open}) :
          \E ok \in Ioctl(o) :
            r = Outcome([uses |-> IF ok THEN With(d.uses, use, en) ELSE d.uses,
                         open |-> en /\ o,
                         on |-> IF ok THEN en ELSE d.on,
                         offFailed |-> d.offFailed \/ (~en /\ ~ok),
                         missed |-> d.missed /\ ~ok], ok)
    BY DEF SwitchedChip
  <2>2. o \in BOOLEAN /\ (en /\ d.open => o)
    BY <1>a DEF Opened
  <2>3. CASE o = TRUE
    <3>1. \A ok \in Ioctl(o) : ok \in BOOLEAN
      BY <2>3 DEF Ioctl
    <3>. QED  BY <2>1, <2>2, <2>3, <3>1
  <2>4. CASE o = FALSE
    <3>1. \A ok \in Ioctl(o) : ok = FALSE
      BY <2>4 DEF Ioctl
    <3>. QED  BY <2>1, <2>2, <2>4, <3>1
  <2>. QED  BY <2>2, <2>3, <2>4
<1>2. /\ r.state.uses = (IF ok THEN With(d.uses, use, en) ELSE d.uses)
      /\ r.state.open = (en /\ o) /\ r.state.on = (IF ok THEN en ELSE d.on)
      /\ r.state.offFailed = (d.offFailed \/ (~en /\ ~ok)) /\ r.err = ~ok
      /\ r.state.missed = (d.missed /\ ~ok)
      /\ r.state = [uses |-> r.state.uses, open |-> r.state.open, on |-> r.state.on,
                    offFailed |-> r.state.offFailed, missed |-> r.state.missed]
  BY <1>1 DEF Outcome
<1>3. r.state.uses \subseteq U
  BY <1>2, <1>a DEF With
<1>4. /\ r.state.open \in BOOLEAN /\ r.state.on \in BOOLEAN /\ r.state.offFailed \in BOOLEAN
      /\ r.state.missed \in BOOLEAN
  BY <1>2, <1>a
<1>5. r.state \in Drivers(U)
  BY <1>2, <1>3, <1>4 DEF Drivers
<1>6. r.err \in BOOLEAN /\ (ok <=> ~r.err)
  BY <1>2
<1>7. /\ r.err => r.state.uses = d.uses /\ r.state.on = d.on
      /\ ~r.err => r.state.uses = With(d.uses, use, en) /\ r.state.on = en
  BY <1>2, <1>6
<1>8. en /\ (d.open \/ ~r.err) => r.state.open
  BY <1>1, <1>2, <1>6
<1>9. /\ r.state.offFailed = (d.offFailed \/ (~en /\ r.err))
      /\ r.state.missed = (d.missed /\ r.err)
  BY <1>2
<1>. QED  BY <1>5, <1>6, <1>7, <1>8, <1>9

-----------------------------------------------------------------------------
(* The chips with a switch.                                                *)

\* A chip is on while it is used, or missed, and while it is used it can be
\* reached.
OnWhileUsed(d) == d.on <=> d.uses # {} \/ d.missed
Reachable(d) == d.uses # {} => d.open \/ d.offFailed

\* The chip is switched off only for its last use.
LEMMA SwitchedKeeps ==
    ASSUME NEW U, NEW d \in Drivers(U), NEW use \in U, NEW en \in BOOLEAN,
           Reachable(d), ~en => d.uses \subseteq {use},
           NEW r \in SwitchedChip(d, use, en)
    PROVE  Reachable(r.state) /\ (OnWhileUsed(d) => OnWhileUsed(r.state))
<1>a. r.err \in BOOLEAN
  BY ChipSwitched
<1>1. CASE r.err
  <2>1. r.state.uses = d.uses /\ r.state.on = d.on
    BY <1>1, ChipSwitched
  <2>2. r.state.offFailed = (d.offFailed \/ ~en) /\ r.state.missed = (d.missed /\ r.err)
    BY <1>1, <1>a, ChipSwitched
  <2>3. en /\ d.open => r.state.open
    BY ChipSwitched
  <2>4. Reachable(r.state)
    BY <2>1, <2>2, <2>3 DEF Reachable
  <2>5. OnWhileUsed(d) => OnWhileUsed(r.state)
    BY <1>1, <2>1, <2>2 DEF OnWhileUsed
  <2>. QED  BY <2>4, <2>5
<1>2. CASE ~r.err
  <2>1. r.state.uses = With(d.uses, use, en) /\ r.state.on = en
    BY <1>2, ChipSwitched
  <2>2. CASE en = TRUE
    <3>1. r.state.uses # {} /\ r.state.on = TRUE
      BY <2>1, <2>2 DEF With
    <3>2. r.state.open
      BY <1>2, <2>2, ChipSwitched
    <3>. QED  BY <3>1, <3>2 DEF Reachable, OnWhileUsed
  <2>3. CASE en = FALSE
    <3>1. r.state.uses = {} /\ r.state.on = FALSE /\ ~r.state.missed
      BY <1>2, <2>1, <2>3, ChipSwitched DEF With
    <3>. QED  BY <3>1 DEF Reachable, OnWhileUsed
  <2>. QED  BY <2>2, <2>3
<1>. QED  BY <1>a, <1>1, <1>2

LEMMA SingleSwitched ==
    ASSUME NEW d \in Drivers({"mEnabled"}), NEW en \in BOOLEAN, Reachable(d),
           NEW r \in SingleEnable(d, en)
    PROVE  /\ r.state \in Drivers({"mEnabled"}) /\ r.err \in BOOLEAN /\ Reachable(r.state)
           /\ OnWhileUsed(d) => /\ OnWhileUsed(r.state)
                                /\ ~r.err /\ en => r.state.on
                                /\ ~r.err /\ ~en => IsOff(r.state)
<1>a. d.uses \subseteq {"mEnabled"} /\ d.on \in BOOLEAN
  BY DEF Drivers
<1>1. CASE ("mEnabled" \in d.uses) = en
  <2>1. r.state = d /\ r.err = FALSE
    <3>1. r = Outcome(d, TRUE)
      BY <1>1 DEF SingleEnable
    <3>. QED  BY <3>1, NothingToDo
  <2>2. OnWhileUsed(d) => (en => d.on) /\ (~en => IsOff(d))
    BY <1>1, <1>a DEF OnWhileUsed, IsOff
  <2>. QED  BY <2>1, <2>2
<1>2. CASE ("mEnabled" \in d.uses) # en
  <2>1. r \in SwitchedChip(d, "mEnabled", en)
    BY <1>2 DEF SingleEnable
  <2>2. Reachable(r.state) /\ (OnWhileUsed(d) => OnWhileUsed(r.state))
    BY <1>a, <2>1, SwitchedKeeps
  <2>3. r.state \in Drivers({"mEnabled"}) /\ r.err \in BOOLEAN /\ (~r.err => r.state.on = en)
    BY <2>1, ChipSwitched
  <2>4. (~r.err /\ en => r.state.on) /\ (~r.err /\ ~en => IsOff(r.state))
    BY <2>3 DEF IsOff
  <2>. QED  BY <2>2, <2>3, <2>4
<1>. QED  BY <1>1, <1>2

LEMMA AccelSwitched ==
    ASSUME NEW a \in Drivers(AccelUses), NEW use \in AccelUses, NEW other \in AccelUses,
           use # other, NEW en \in BOOLEAN, Reachable(a), OnWhileUsed(a),
           NEW r \in AccelSwitch(a, use, other, en)
    PROVE  /\ r.state \in Drivers(AccelUses) /\ r.err \in BOOLEAN
           /\ Reachable(r.state) /\ OnWhileUsed(r.state)
           /\ other \in r.state.uses <=> other \in a.uses
           /\ ~r.err => (use \in r.state.uses <=> en)
<1>a. /\ a.uses \subseteq {use, other} /\ a.open \in BOOLEAN /\ a.on \in BOOLEAN
      /\ a.offFailed \in BOOLEAN /\ a.missed \in BOOLEAN
  BY DEF Drivers, AccelUses
<1>1. CASE (use \in a.uses) = en
  <2>1. r.state = a /\ r.err = FALSE
    <3>1. r = Outcome(a, TRUE)
      BY <1>1 DEF AccelSwitch
    <3>. QED  BY <3>1, NothingToDo
  <2>. QED  BY <1>1, <2>1
<1>2. CASE (use \in a.uses) # en /\ other \in a.uses /\ ~en
  <2> DEFINE q == [uses |-> a.uses \ {use}, open |-> a.open, on |-> a.on,
                  offFailed |-> a.offFailed, missed |-> a.missed]
  <2>1. r.state = q /\ r.err = FALSE
    BY <1>2 DEF AccelSwitch, Outcome
  <2>2. q \in Drivers(AccelUses)
    BY <1>a DEF Drivers
  <2>3. other \in q.uses /\ use \notin q.uses /\ other \in a.uses
    BY <1>2
  <2>4. Reachable(q) /\ OnWhileUsed(q)
    BY <2>3, <1>a DEF Reachable, OnWhileUsed
  <2>. QED  BY <1>2, <2>1, <2>2, <2>3, <2>4
<1>3. CASE (use \in a.uses) # en /\ ~(other \in a.uses /\ ~en)
  <2>1. r \in SwitchedChip(a, use, en)
    BY <1>3 DEF AccelSwitch
  <2>2. Reachable(r.state) /\ OnWhileUsed(r.state)
    BY <1>a, <1>3, <2>1, SwitchedKeeps
  <2>3. /\ r.state \in Drivers(AccelUses) /\ r.err \in BOOLEAN
        /\ r.err => r.state.uses = a.uses
        /\ ~r.err => r.state.uses = With(a.uses, use, en)
    BY <2>1, ChipSwitched
  <2>4. /\ other \in With(a.uses, use, en) <=> other \in a.uses
        /\ use \in With(a.uses, use, en) <=> en
    BY DEF With
  <2>. QED  BY <2>2, <2>3, <2>4
<1>. QED  BY <1>1, <1>2, <1>3

-----------------------------------------------------------------------------
(* The compass and its rate.                                               *)

\* What TypeOK says of the compass, but for when its device is open.
CompassTypes(c) ==
    /\ c.mEnabled \subseteq CompassFlags /\ c.missed \subseteq CompassFlags
    /\ c.flags = c.mEnabled \cup c.missed /\ c.open \in BOOLEAN
    /\ c.mDelays \in [CompassFlags -> Delays \cup {DefaultDelay}]
    /\ c.delay \in -(ShortMax + 1)..ShortMax /\ c.rateSet \in BOOLEAN

RateOK(c) ==
    c.mEnabled # {} /\ c.rateSet /\ Wanted(c) <= ShortMax => c.delay = Wanted(c)

\* A number of milliseconds that fits a short survives the conversion.
LEMMA ShortFits ==
    ASSUME NEW ms \in Nat
    PROVE  /\ Short(ms) \in -(ShortMax + 1)..ShortMax
           /\ ms <= ShortMax => Short(ms) = ms
<1> DEFINE n == 2 * (ShortMax + 1)
           x == ms + ShortMax + 1
<1>1. n \in Nat /\ n > 0 /\ x \in Nat /\ n = ShortMax + ShortMax + 2
  OBVIOUS
<1>2. Short(ms) = (x % n) - (ShortMax + 1)
  BY DEF Short
<1>3. \A y \in Nat, m \in Nat : m > 0 => y % m \in 0..(m - 1) /\ (y < m => y % m = y)
  OBVIOUS
<1>4. ms <= ShortMax => x < n
  BY <1>1
<1>. HIDE DEF n, x
<1>5. x % n \in 0..(n - 1) /\ (x < n => x % n = x)
  BY <1>1, <1>3
<1>6. Short(ms) \in -(ShortMax + 1)..ShortMax
  BY <1>1, <1>2, <1>5
<1>7. ms <= ShortMax => Short(ms) = ms
  BY <1>2, <1>4, <1>5 DEF x
<1>. QED  BY <1>6, <1>7

LEMMA WantedIsNat ==
    ASSUME NEW c, CompassTypes(c), c.mEnabled # {}
    PROVE  Wanted(c) \in Nat
<1> DEFINE S == {c.mDelays[s] : s \in c.mEnabled}
<1>1. c.mEnabled \subseteq {"ID_A", "ID_M", "ID_O"} /\ c.mDelays \in [{"ID_A", "ID_M", "ID_O"} -> Nat]
  <2>1. Delays \cup {DefaultDelay} \subseteq Nat
    BY DEF DefaultDelay
  <2>2. c.mDelays \in [CompassFlags -> Nat]
    BY <2>1 DEF CompassTypes
  <2>. QED  BY <2>2 DEF CompassTypes, CompassFlags, CompassSensors
<1>2. \E x \in S : \A y \in S : x <= y
  <2>1. PICK s \in c.mEnabled : \A t \in c.mEnabled : c.mDelays[s] <= c.mDelays[t]
    BY <1>1
  <2>. QED  BY <2>1
<1>3. S \subseteq Nat
  BY <1>1
<1>. HIDE DEF S
<1>4. Min(S) \in S
  BY <1>2 DEF Min
<1>. QED  BY <1>3, <1>4 DEF Wanted, S

LEMMA CompassFields ==
    \A e, m, o, f, d, t, x :
        LET c == Compass(e, m, o, f, d, t, x)
        IN /\ c.mEnabled = e /\ c.mDelays = m /\ c.open = o /\ c.flags = f
           /\ c.delay = d /\ c.rateSet = t /\ c.missed = x /\ Wanted(c) = Min({m[s] : s \in e})
BY DEF Compass, Wanted

LEMMA DelayUpdated ==
    ASSUME NEW c, CompassTypes(c), NEW u \in UpdateDelay(c)
    PROVE  CompassTypes(u) /\ RateOK(u) /\ u.mEnabled = c.mEnabled /\ u.open = c.open
<1>1. CASE c.mEnabled = {}
  BY <1>1 DEF UpdateDelay, RateOK
<1>2. CASE c.mEnabled # {}
  <2>1. PICK ok \in Ioctl(c.open) :
           u = Compass(c.mEnabled, c.mDelays, c.open, c.flags,
                       IF ok THEN Short(Wanted(c)) ELSE c.delay, ok, c.missed)
    BY <1>2 DEF UpdateDelay
  <2>2. ok \in BOOLEAN
    BY DEF Ioctl, CompassTypes
  <2>3. /\ u.mEnabled = c.mEnabled /\ u.mDelays = c.mDelays /\ u.open = c.open
        /\ u.flags = c.flags /\ u.delay = (IF ok THEN Short(Wanted(c)) ELSE c.delay)
        /\ u.rateSet = ok /\ u.missed = c.missed
    BY <2>1, CompassFields
  <2>4. Wanted(u) = Wanted(c)
    BY <2>3 DEF Wanted
  <2>5. /\ Short(Wanted(c)) \in -(ShortMax + 1)..ShortMax
        /\ Wanted(c) <= ShortMax => Short(Wanted(c)) = Wanted(c)
    BY <1>2, WantedIsNat, ShortFits
  <2>6. CompassTypes(u)
    BY <2>2, <2>3, <2>5 DEF CompassTypes
  <2>7. RateOK(u)
    BY <2>3, <2>4, <2>5 DEF RateOK
  <2>. QED  BY <2>3, <2>6, <2>7
<1>. QED  BY <1>1, <1>2

\* AkmSensor's enable: a failure changes nothing but, perhaps, dev_fd.
LEMMA CompassEnabled ==
    ASSUME NEW c, CompassTypes(c), c.open <=> c.mEnabled # {}, RateOK(c),
           NEW s \in CompassSensors, NEW en \in BOOLEAN, NEW r \in CompassEnable(c, s, en)
    PROVE  /\ CompassTypes(r.state) /\ (r.state.open <=> r.state.mEnabled # {})
           /\ RateOK(r.state) /\ r.err \in BOOLEAN
           /\ r.err => r.state.mEnabled = c.mEnabled
           /\ ~r.err => r.state.mEnabled = With(c.mEnabled, s, en)
<1>1. CASE (s \in c.mEnabled) = en
  <2>1. r.state = c /\ r.err = FALSE
    <3>1. r = Outcome(c, TRUE)
      BY <1>1 DEF CompassEnable
    <3>. QED  BY <3>1, NothingToDo
  <2>2. With(c.mEnabled, s, en) = c.mEnabled
    BY <1>1 DEF With
  <2>. QED  BY <2>1, <2>2
<1>2. CASE (s \in c.mEnabled) # en
  <2> DEFINE opened(o) == Compass(c.mEnabled, c.mDelays, o, c.flags, c.delay, c.rateSet,
                                c.missed)
  <2>1. PICK o \in (IF c.mEnabled = {} THEN Opened(c.open) ELSE {c.open}) :
           r \in {Outcome(Closed(opened(o)), FALSE)}
                \cup {Outcome(Closed(u), TRUE) : u \in
                          IF o THEN UpdateDelay(Switched(opened(o), s, en)) ELSE {}}
    BY <1>2 DEF CompassEnable
  <2>2. o \in BOOLEAN /\ (c.mEnabled # {} => o)
    BY DEF Opened, CompassTypes
  <2>3. /\ opened(o).mEnabled = c.mEnabled /\ opened(o).mDelays = c.mDelays /\ opened(o).open = o
        /\ opened(o).flags = c.flags /\ opened(o).delay = c.delay /\ opened(o).rateSet = c.rateSet
        /\ opened(o).missed = c.missed
    BY CompassFields
  <2>. HIDE DEF opened
  <2>4. ASSUME NEW u, CompassTypes(u), RateOK(u), u.mEnabled # {} => u.open
        PROVE  /\ CompassTypes(Closed(u)) /\ RateOK(Closed(u))
               /\ Closed(u).open <=> Closed(u).mEnabled # {}
               /\ Closed(u).mEnabled = u.mEnabled
    <3>1. /\ Closed(u).mEnabled = u.mEnabled /\ Closed(u).mDelays = u.mDelays
          /\ Closed(u).open = (u.open /\ u.mEnabled # {}) /\ Closed(u).flags = u.flags
          /\ Closed(u).delay = u.delay /\ Closed(u).rateSet = u.rateSet
          /\ Closed(u).missed = u.missed
      BY CompassFields DEF Closed
    <3>2. Wanted(Closed(u)) = Wanted(u)
      BY <3>1 DEF Wanted
    <3>. QED  BY <2>4, <3>1, <3>2 DEF CompassTypes, RateOK
  <2>5. CASE r = Outcome(Closed(opened(o)), FALSE)
    <3>1. CompassTypes(opened(o)) /\ RateOK(opened(o))
      <4>1. Wanted(opened(o)) = Wanted(c)
        BY <2>3 DEF Wanted
      <4>. QED  BY <2>2, <2>3, <4>1 DEF CompassTypes, RateOK
    <3>2. r.state = Closed(opened(o)) /\ r.err = TRUE
      BY <2>5 DEF Outcome
    <3>3. opened(o).mEnabled # {} => opened(o).open
      BY <2>2, <2>3
    <3>4. /\ CompassTypes(r.state) /\ RateOK(r.state)
          /\ r.state.open <=> r.state.mEnabled # {}
          /\ r.state.mEnabled = c.mEnabled
      BY <2>3, <2>4, <3>1, <3>2, <3>3
    <3>. QED  BY <3>2, <3>4
  <2>6. ASSUME o, NEW u \in UpdateDelay(Switched(opened(o), s, en)), r = Outcome(Closed(u), TRUE)
        PROVE  /\ CompassTypes(r.state) /\ (r.state.open <=> r.state.mEnabled # {})
               /\ RateOK(r.state) /\ r.err = FALSE
               /\ r.state.mEnabled = With(c.mEnabled, s, en)
    <3> DEFINE w == Switched(opened(o), s, en)
    <3>1. /\ w.mEnabled = With(c.mEnabled, s, en) /\ w.mDelays = c.mDelays /\ w.open = o
          /\ w.flags = With(c.flags, s, en) /\ w.delay = c.delay /\ w.rateSet = c.rateSet
          /\ w.missed = c.missed \ {s}
      BY <2>3, CompassFields DEF Switched
    <3>. HIDE DEF w
    <3>2. /\ With(c.mEnabled, s, en) \subseteq CompassFlags
          /\ With(c.flags, s, en) = With(c.mEnabled, s, en) \cup (c.missed \ {s})
      BY DEF With, CompassTypes, CompassFlags
    <3>3. CompassTypes(w)
      BY <2>2, <3>1, <3>2 DEF CompassTypes
    <3>4. CompassTypes(u) /\ RateOK(u) /\ u.mEnabled = w.mEnabled /\ u.open = w.open
      BY <2>6, <3>3, DelayUpdated DEF w
    <3>5. r.state = Closed(u) /\ r.err = FALSE
      BY <2>6, NothingToDo
    <3>6. u.mEnabled # {} => u.open
      BY <2>6, <3>1, <3>4
    <3>7. /\ CompassTypes(Closed(u)) /\ RateOK(Closed(u))
          /\ Closed(u).open <=> Closed(u).mEnabled # {}
          /\ Closed(u).mEnabled = u.mEnabled
      BY <2>4, <3>4, <3>6
    <3>. QED  BY <3>1, <3>4, <3>5, <3>7
  <2>. QED  BY <2>1, <2>2, <2>5, <2>6
<1>. QED  BY <1>1, <1>2

-----------------------------------------------------------------------------
(* The inductive invariant, a part for each driver and one for what was said. *)

AccelInv == accel \in Drivers(AccelUses) /\ OnWhileUsed(accel) /\ Reachable(accel)

CompassInv ==
    CompassTypes(compass) /\ (compass.open <=> compass.mEnabled # {}) /\ RateOK(compass)

SingleInv ==
    /\ single \in [Singles -> Drivers({"mEnabled"})]
    /\ \A h \in Singles : Reachable(single[h]) /\ OnWhileUsed(single[h])

SaidType == said \in [Reporting -> {"on", "off", "nothing"}]

\* What was reported is what the drivers remember, for the orientation both.
SaidAccel ==
    /\ said["ID_A"] = "on" => "mEnabled" \in accel.uses
    /\ said["ID_A"] = "off" => "mEnabled" \notin accel.uses
SaidMagnetic ==
    /\ said["ID_M"] = "on" => "ID_M" \in compass.mEnabled
    /\ said["ID_M"] = "off" => "ID_M" \notin compass.mEnabled
SaidOrientation ==
    /\ said["ID_O"] = "on" => "ID_O" \in compass.mEnabled /\ "mOrientationEnabled" \in accel.uses
    /\ said["ID_O"] = "off" => "ID_O" \notin compass.mEnabled /\ "mOrientationEnabled" \notin accel.uses
SaidSingle ==
    \A h \in Singles \ {"ID_L"} :
        (said[h] = "on" => single[h].on) /\ (said[h] = "off" => IsOff(single[h]))

PowerInv ==
    /\ AccelInv /\ CompassInv /\ SingleInv /\ SaidType
    /\ SaidAccel /\ SaidMagnetic /\ SaidOrientation /\ SaidSingle

LEMMA SayEffect ==
    ASSUME SaidType, NEW h \in Reporting, NEW en \in BOOLEAN, NEW err \in BOOLEAN,
           Say(h, en, err)
    PROVE  /\ SaidType' /\ (\A k \in Reporting \ {h} : said'[k] = said[k])
           /\ said'[h] = "on" => ~err /\ en
           /\ said'[h] = "off" => ~err /\ ~en
<1> DEFINE v == IF err THEN "nothing" ELSE IF en THEN "on" ELSE "off"
<1>1. v \in {"on", "off", "nothing"} /\ (v = "on" => ~err /\ en) /\ (v = "off" => ~err /\ ~en)
  BY DEF v
<1>2. said' = [said EXCEPT ![h] = v]
  BY DEF Say
<1>. HIDE DEF v
<1>. QED  BY <1>1, <1>2 DEF SaidType

LEMMA ReportingIds == {"ID_A", "ID_M", "ID_O"} \subseteq Reporting /\ Singles \ {"ID_L"} \subseteq Reporting
BY DEF Reporting, CompassSensors

\* Activating a sensor with a chip of its own.
LEMMA SingleStep ==
    ASSUME PowerInv, NEW h \in Singles, NEW en \in BOOLEAN, ActivateSingle(h, en) PROVE PowerInv'
<1>1. PICK r \in SingleEnable(single[h], en) :
        /\ single' = [single EXCEPT ![h] = r.state]
        /\ IF h = "ID_L" THEN UNCHANGED said ELSE Say(h, en, r.err)
  BY DEF ActivateSingle
<1>2. UNCHANGED <<accel, compass>>
  BY DEF ActivateSingle
<1>3. /\ r.state \in Drivers({"mEnabled"}) /\ r.err \in BOOLEAN /\ Reachable(r.state)
      /\ OnWhileUsed(r.state) /\ (~r.err /\ en => r.state.on) /\ (~r.err /\ ~en => IsOff(r.state))
  BY SingleSwitched DEF PowerInv, SingleInv
<1>4. single'[h] = r.state /\ \A k \in Singles \ {h} : single'[k] = single[k]
  BY <1>1 DEF PowerInv, SingleInv
<1>5. SingleInv'
  <2>1. single' \in [Singles -> Drivers({"mEnabled"})]
    BY <1>1, <1>3 DEF PowerInv, SingleInv
  <2>2. ASSUME NEW k \in Singles
        PROVE  Reachable(single'[k]) /\ OnWhileUsed(single'[k])
    <3>1. CASE k = h
      BY <3>1, <1>3, <1>4
    <3>2. CASE k # h
      BY <3>2, <1>4 DEF PowerInv, SingleInv
    <3>. QED  BY <3>1, <3>2
  <2>. QED  BY <2>1, <2>2 DEF SingleInv
<1>6. SaidType' /\ \A k \in Reporting \ {h} : said'[k] = said[k]
  <2>1. CASE h = "ID_L"
    BY <2>1, <1>1 DEF PowerInv, SaidType
  <2>2. CASE h # "ID_L"
    <3>1. h \in Reporting /\ Say(h, en, r.err) /\ SaidType
      BY <2>2, <1>1, ReportingIds DEF PowerInv
    <3>. QED  BY <1>3, <3>1, SayEffect
  <2>. QED  BY <2>1, <2>2
<1>7. SaidSingle'
  <2>1. ASSUME NEW k \in Singles \ {"ID_L"}, k # h
        PROVE  (said'[k] = "on" => single'[k].on) /\ (said'[k] = "off" => IsOff(single'[k]))
    <3>1. said'[k] = said[k] /\ single'[k] = single[k]
      BY <2>1, <1>4, <1>6, ReportingIds
    <3>. QED  BY <3>1 DEF PowerInv, SaidSingle
  <2>2. ASSUME h # "ID_L"
        PROVE  (said'[h] = "on" => single'[h].on) /\ (said'[h] = "off" => IsOff(single'[h]))
    <3>1. (said'[h] = "on" => ~r.err /\ en) /\ (said'[h] = "off" => ~r.err /\ ~en)
      BY <2>2, <1>1, <1>3, SayEffect, ReportingIds DEF PowerInv
    <3>2. (~r.err /\ en => single'[h].on) /\ (~r.err /\ ~en => IsOff(single'[h]))
      BY <1>3, <1>4
    <3>. QED  BY <3>1, <3>2
  <2>. QED  BY <2>1, <2>2 DEF SaidSingle
<1>8. \A k \in {"ID_A", "ID_M", "ID_O"} : said'[k] = said[k]
  BY <1>6, ReportingIds
<1>9. /\ AccelInv' /\ CompassInv' /\ SaidAccel' /\ SaidMagnetic' /\ SaidOrientation'
  BY <1>2, <1>8 DEF PowerInv, AccelInv, CompassInv, SaidAccel, SaidMagnetic, SaidOrientation
<1>. QED  BY <1>5, <1>6, <1>7, <1>9 DEF PowerInv

\* Nothing that concerns a chip of its own changes.
LEMMA SinglesUntouched ==
    ASSUME PowerInv, UNCHANGED single, \A k \in Singles \ {"ID_L"} : said'[k] = said[k]
    PROVE  SingleInv' /\ SaidSingle'
BY DEF PowerInv, SingleInv, SaidSingle

LEMMA AccelStep ==
    ASSUME PowerInv, NEW en \in BOOLEAN, ActivateAccel(en) PROVE PowerInv'
<1>1. PICK r \in AccelSwitch(accel, "mEnabled", "mOrientationEnabled", en) :
        accel' = r.state /\ Say("ID_A", en, r.err)
  BY DEF ActivateAccel, AccelEnable
<1>2. UNCHANGED <<compass, single>>
  BY DEF ActivateAccel
<1>3. /\ r.err \in BOOLEAN /\ AccelInv'
      /\ "mOrientationEnabled" \in accel'.uses <=> "mOrientationEnabled" \in accel.uses
      /\ ~r.err => ("mEnabled" \in accel'.uses <=> en)
  <2>1. {"mEnabled", "mOrientationEnabled"} \subseteq AccelUses /\ "mEnabled" # "mOrientationEnabled"
    BY DEF AccelUses
  <2>. QED  BY <1>1, <2>1, AccelSwitched DEF PowerInv, AccelInv
<1>4. /\ SaidType' /\ (\A k \in Reporting \ {"ID_A"} : said'[k] = said[k])
      /\ said'["ID_A"] = "on" => ~r.err /\ en
      /\ said'["ID_A"] = "off" => ~r.err /\ ~en
  BY <1>1, <1>3, SayEffect, ReportingIds DEF PowerInv
<1>5. SaidAccel'
  BY <1>3, <1>4 DEF SaidAccel
<1>6. said'["ID_M"] = said["ID_M"] /\ said'["ID_O"] = said["ID_O"]
  BY <1>4, ReportingIds
<1>7. CompassInv' /\ SaidMagnetic' /\ SaidOrientation'
  BY <1>2, <1>3, <1>6 DEF PowerInv, CompassInv, SaidMagnetic, SaidOrientation
<1>8. \A k \in Singles \ {"ID_L"} : said'[k] = said[k]
  BY <1>4, ReportingIds
<1>. QED  BY <1>2, <1>3, <1>4, <1>5, <1>7, <1>8, SinglesUntouched DEF PowerInv

\* What a call of the compass driver does to the compass.
LEMMA CompassCall ==
    ASSUME PowerInv, NEW s \in CompassSensors, NEW en \in BOOLEAN,
           NEW r \in CompassEnable(compass, s, en), compass' = r.state
    PROVE  /\ CompassInv' /\ r.err \in BOOLEAN
           /\ \A t \in CompassSensors \ {s} : t \in compass'.mEnabled <=> t \in compass.mEnabled
           /\ ~r.err => (s \in compass'.mEnabled <=> en)
<1>1. /\ CompassTypes(r.state) /\ (r.state.open <=> r.state.mEnabled # {})
      /\ RateOK(r.state) /\ r.err \in BOOLEAN
      /\ r.err => r.state.mEnabled = compass.mEnabled
      /\ ~r.err => r.state.mEnabled = With(compass.mEnabled, s, en)
  BY CompassEnabled DEF PowerInv, CompassInv
<1>2. /\ \A t \in CompassSensors \ {s} :
            t \in With(compass.mEnabled, s, en) <=> t \in compass.mEnabled
      /\ s \in With(compass.mEnabled, s, en) <=> en
  BY DEF With
<1>. QED  BY <1>1, <1>2 DEF CompassInv

LEMMA MagneticStep ==
    ASSUME PowerInv, NEW en \in BOOLEAN, ActivateMagnetic(en) PROVE PowerInv'
<1>1. PICK r \in CompassEnable(compass, "ID_M", en) :
        compass' = r.state /\ Say("ID_M", en, r.err)
  BY DEF ActivateMagnetic
<1>2. UNCHANGED <<accel, single>>
  BY DEF ActivateMagnetic
<1>3. /\ CompassInv' /\ r.err \in BOOLEAN
      /\ "ID_O" \in compass'.mEnabled <=> "ID_O" \in compass.mEnabled
      /\ ~r.err => ("ID_M" \in compass'.mEnabled <=> en)
  <2>1. "ID_M" \in CompassSensors /\ "ID_O" \in CompassSensors \ {"ID_M"}
    BY DEF CompassSensors
  <2>. QED  BY <1>1, <2>1, CompassCall
<1>4. /\ SaidType' /\ (\A k \in Reporting \ {"ID_M"} : said'[k] = said[k])
      /\ said'["ID_M"] = "on" => ~r.err /\ en
      /\ said'["ID_M"] = "off" => ~r.err /\ ~en
  BY <1>1, <1>3, SayEffect, ReportingIds DEF PowerInv
<1>5. SaidMagnetic'
  BY <1>3, <1>4 DEF SaidMagnetic
<1>6. said'["ID_A"] = said["ID_A"] /\ said'["ID_O"] = said["ID_O"]
  BY <1>4, ReportingIds
<1>7. AccelInv' /\ SaidAccel' /\ SaidOrientation'
  BY <1>2, <1>3, <1>6 DEF PowerInv, AccelInv, SaidAccel, SaidOrientation
<1>8. \A k \in Singles \ {"ID_L"} : said'[k] = said[k]
  BY <1>4, ReportingIds DEF CompassSensors
<1>. QED  BY <1>2, <1>3, <1>4, <1>5, <1>7, <1>8, SinglesUntouched DEF PowerInv

LEMMA OrientationStep ==
    ASSUME PowerInv, NEW en \in BOOLEAN, ActivateOrientation(en) PROVE PowerInv'
<1>1. PICK r \in CompassEnable(compass, "ID_O", en) :
        /\ compass' = r.state
        /\ IF r.err THEN Say("ID_O", en, TRUE) /\ UNCHANGED accel
           ELSE \E q \in AccelSwitch(accel, "mOrientationEnabled", "mEnabled", en) :
                   accel' = q.state /\ Say("ID_O", en, q.err)
  BY DEF ActivateOrientation, AccelEnableOrientation
<1>2. UNCHANGED single
  BY DEF ActivateOrientation
<1>3. /\ CompassInv' /\ r.err \in BOOLEAN
      /\ "ID_M" \in compass'.mEnabled <=> "ID_M" \in compass.mEnabled
      /\ ~r.err => ("ID_O" \in compass'.mEnabled <=> en)
  <2>1. "ID_O" \in CompassSensors /\ "ID_M" \in CompassSensors \ {"ID_O"}
    BY DEF CompassSensors
  <2>. QED  BY <1>1, <2>1, CompassCall
<1>4. /\ AccelInv' /\ SaidType' /\ (\A k \in Reporting \ {"ID_O"} : said'[k] = said[k])
      /\ "mEnabled" \in accel'.uses <=> "mEnabled" \in accel.uses
      /\ SaidOrientation'
  <2>1. CASE r.err
    <3>1. Say("ID_O", en, TRUE) /\ UNCHANGED accel
      BY <1>1, <2>1
    <3>2. /\ SaidType' /\ (\A k \in Reporting \ {"ID_O"} : said'[k] = said[k])
          /\ said'["ID_O"] # "on" /\ said'["ID_O"] # "off"
      BY <3>1, SayEffect, ReportingIds DEF PowerInv
    <3>. QED  BY <3>1, <3>2 DEF SaidOrientation, PowerInv, AccelInv
  <2>2. CASE ~r.err
    <3>1. PICK q \in AccelSwitch(accel, "mOrientationEnabled", "mEnabled", en) :
            accel' = q.state /\ Say("ID_O", en, q.err)
      BY <1>1, <2>2
    <3>2. /\ q.err \in BOOLEAN /\ AccelInv'
          /\ "mEnabled" \in accel'.uses <=> "mEnabled" \in accel.uses
          /\ ~q.err => ("mOrientationEnabled" \in accel'.uses <=> en)
      <4>1. {"mEnabled", "mOrientationEnabled"} \subseteq AccelUses /\ "mEnabled" # "mOrientationEnabled"
        BY DEF AccelUses
      <4>. QED  BY <3>1, <4>1, AccelSwitched DEF PowerInv, AccelInv
    <3>3. /\ SaidType' /\ (\A k \in Reporting \ {"ID_O"} : said'[k] = said[k])
          /\ said'["ID_O"] = "on" => ~q.err /\ en
          /\ said'["ID_O"] = "off" => ~q.err /\ ~en
      BY <3>1, <3>2, SayEffect, ReportingIds DEF PowerInv
    <3>4. SaidOrientation'
      BY <1>3, <2>2, <3>2, <3>3 DEF SaidOrientation
    <3>. QED  BY <3>2, <3>3, <3>4
  <2>. QED  BY <1>3, <2>1, <2>2
<1>5. said'["ID_A"] = said["ID_A"] /\ said'["ID_M"] = said["ID_M"]
  BY <1>4, ReportingIds
<1>6. SaidAccel' /\ SaidMagnetic'
  BY <1>3, <1>4, <1>5 DEF PowerInv, SaidAccel, SaidMagnetic
<1>7. \A k \in Singles \ {"ID_L"} : said'[k] = said[k]
  BY <1>4, ReportingIds
<1>. QED  BY <1>2, <1>3, <1>4, <1>6, <1>7, SinglesUntouched DEF PowerInv

LEMMA SetDelayStep ==
    ASSUME PowerInv, NEW s \in CompassSensors, NEW ms \in Delays, SetDelayCompass(s, ms)
    PROVE  PowerInv'
<1> DEFINE delays == [compass.mDelays EXCEPT ![s] = ms]
           c == Compass(compass.mEnabled, delays, compass.open, compass.flags,
                        compass.delay, compass.rateSet, compass.missed)
<1>1. compass' \in UpdateDelay(c) /\ UNCHANGED <<accel, single, said>>
  BY DEF SetDelayCompass
<1>2. /\ c.mEnabled = compass.mEnabled /\ c.mDelays = delays /\ c.open = compass.open
      /\ c.flags = compass.flags /\ c.delay = compass.delay /\ c.rateSet = compass.rateSet
      /\ c.missed = compass.missed
  BY CompassFields
<1>3. delays \in [CompassFlags -> Delays \cup {DefaultDelay}]
  BY DEF PowerInv, CompassInv, CompassTypes, CompassFlags
<1>. HIDE DEF delays, c
<1>4. CompassTypes(c)
  BY <1>2, <1>3 DEF PowerInv, CompassInv, CompassTypes
<1>5. CompassTypes(compass') /\ RateOK(compass') /\ compass'.mEnabled = compass.mEnabled
      /\ compass'.open = compass.open
  BY <1>1, <1>2, <1>4, DelayUpdated
<1>6. CompassInv'
  BY <1>5 DEF PowerInv, CompassInv
<1>. QED
  BY <1>1, <1>5, <1>6 DEF PowerInv, AccelInv, SingleInv, SaidType, SaidAccel, SaidMagnetic,
       SaidOrientation, SaidSingle

LEMMA InitPower == Init => PowerInv
<1> SUFFICES ASSUME Init PROVE PowerInv
  OBVIOUS
<1>1. ASSUME NEW U, "mEnabled" \in U, NEW on \in BOOLEAN, NEW asked \in BOOLEAN
      PROVE  /\ Found(on, asked) \in Drivers(U) /\ Reachable(Found(on, asked))
             /\ OnWhileUsed(Found(on, asked))
  <2>1. /\ Found(on, asked).uses = (IF on /\ asked THEN {"mEnabled"} ELSE {})
        /\ Found(on, asked).open = (on /\ asked) /\ Found(on, asked).on = on
        /\ Found(on, asked).missed = (on /\ ~asked)
    BY DEF Found
  <2>2. Found(on, asked) \in Drivers(U)
    BY <1>1 DEF Found, Drivers
  <2>. QED  BY <2>1, <2>2 DEF Reachable, OnWhileUsed
<1>2. AccelInv
  <2>1. PICK on \in BOOLEAN, asked \in BOOLEAN : accel = Found(on, asked)
    BY DEF Init
  <2>. QED  BY <2>1, <1>1 DEF AccelInv, AccelUses
<1>3. CompassInv
  <2>1. PICK flags \in SUBSET CompassFlags, asked \in SUBSET CompassFlags :
          compass = FoundCompass(flags, asked)
    BY DEF Init
  <2>2. /\ compass.mEnabled = flags \cap asked /\ compass.open = (flags \cap asked # {})
        /\ compass.flags = flags /\ compass.missed = flags \ asked
        /\ compass.mDelays = [s \in CompassFlags |-> DefaultDelay]
        /\ compass.delay = 0 /\ compass.rateSet = FALSE
    BY <2>1 DEF Compass, FoundCompass
  <2>3. 0 \in -(ShortMax + 1)..ShortMax
    OBVIOUS
  <2>. QED  BY <2>2, <2>3 DEF CompassInv, CompassTypes, RateOK
<1>4. SingleInv
  <2>1. PICK on \in [Singles -> BOOLEAN], asked \in [Singles -> BOOLEAN] :
          single = [h \in Singles |-> Found(on[h], asked[h] /\ h # "ID_L")]
    BY DEF Init
  <2>2. ASSUME NEW h \in Singles
        PROVE  /\ single[h] \in Drivers({"mEnabled"}) /\ Reachable(single[h])
               /\ OnWhileUsed(single[h])
    <3> DEFINE a == asked[h] /\ h # "ID_L"
    <3>1. single[h] = Found(on[h], a) /\ on[h] \in BOOLEAN /\ a \in BOOLEAN
      BY <2>1
    <3>. HIDE DEF a
    <3>. QED  BY <3>1, <1>1
  <2>3. single \in [Singles -> Drivers({"mEnabled"})]
    BY <2>1, <2>2
  <2>. QED  BY <2>2, <2>3 DEF SingleInv
<1>5. said = [h \in Reporting |-> "nothing"]
  BY DEF Init
<1>6. SaidType /\ \A h \in Reporting : said[h] = "nothing"
  BY <1>5 DEF SaidType
<1>. QED
  BY <1>2, <1>3, <1>4, <1>6, ReportingIds
     DEF PowerInv, SaidAccel, SaidMagnetic, SaidOrientation, SaidSingle

LEMMA PowerStep == PowerInv /\ [Next]_vars => PowerInv'
<1> SUFFICES ASSUME PowerInv, [Next]_vars PROVE PowerInv'
  OBVIOUS
<1>1. CASE UNCHANGED vars
  BY <1>1 DEF vars, PowerInv, AccelInv, CompassInv, SingleInv, SaidType, SaidAccel,
              SaidMagnetic, SaidOrientation, SaidSingle
<1>2. ASSUME NEW en \in BOOLEAN,
             \/ ActivateAccel(en) \/ ActivateMagnetic(en) \/ ActivateOrientation(en)
             \/ \E h \in Singles : ActivateSingle(h, en)
      PROVE  PowerInv'
  BY <1>2, AccelStep, MagneticStep, OrientationStep, SingleStep
<1>3. ASSUME NEW s \in CompassSensors, NEW ms \in Delays, SetDelayCompass(s, ms) PROVE PowerInv'
  BY <1>3, SetDelayStep
<1>. QED  BY <1>1, <1>2, <1>3 DEF Next

THEOREM PowerInductive == Spec => []PowerInv
BY InitPower, PowerStep, PTL DEF Spec

\* Every variable keeps its type, and the compass's device is open while needed.
THEOREM PowerTypeCorrect == Spec => []TypeOK
<1>1. PowerInv => TypeOK
  BY DEF PowerInv, AccelInv, CompassInv, CompassTypes, SingleInv, SaidType, TypeOK
<1>. QED  BY <1>1, PowerInductive, PTL

\* The accelerometer is on exactly while one of its two uses goes on.
THEOREM AccelCorrect == Spec => []AccelOnWhileUsed
<1>1. PowerInv => AccelOnWhileUsed
  BY DEF PowerInv, AccelInv, OnWhileUsed, AccelOnWhileUsed
<1>. QED  BY <1>1, PowerInductive, PTL

\* A driver with something enabled reaches its device, unless disabling failed.
THEOREM ReachCorrect == Spec => []EnabledIsReachable
<1>1. PowerInv => EnabledIsReachable
  BY DEF PowerInv, AccelInv, SingleInv, Reachable, EnabledIsReachable
<1>. QED  BY <1>1, PowerInductive, PTL

\* The compass works at the rate of its most demanding sensor.
THEOREM RateCorrect == Spec => []RateIsWanted
<1>1. PowerInv => RateIsWanted
  BY DEF PowerInv, CompassInv, RateOK, RateIsWanted
<1>. QED  BY <1>1, PowerInductive, PTL

\* What activate last reported as done is still so.
THEOREM SuccessCorrect == Spec => []SuccessIsLasting
<1>1. PowerInv => SuccessIsLasting
  <2> SUFFICES ASSUME PowerInv, NEW h \in Reporting
               PROVE  (said[h] = "on" => On(h)) /\ (said[h] = "off" => Off(h))
    BY DEF SuccessIsLasting
  <2>a. /\ accel.on <=> accel.uses # {} \/ accel.missed
        /\ accel.uses \subseteq {"mEnabled", "mOrientationEnabled"}
        /\ compass.flags = compass.mEnabled \cup compass.missed
    BY DEF PowerInv, AccelInv, OnWhileUsed, CompassInv, CompassTypes, Drivers, AccelUses
  <2>b. Singles \cap {"ID_A", "ID_M", "ID_O"} = {}
    OBVIOUS
  <2>1. CASE h = "ID_A"
    <3>1. said["ID_A"] = "on" => "mEnabled" \in accel.uses /\ accel.on
      BY <2>a DEF PowerInv, SaidAccel
    <3>2. said["ID_A"] = "off" /\ said["ID_O"] = "off" => IsOff(accel)
      BY <2>a DEF PowerInv, SaidAccel, SaidOrientation, IsOff
    <3>. QED  BY <2>1, <2>b, <3>1, <3>2 DEF On, Off
  <2>2. CASE h = "ID_M"
    BY <2>2, <2>a, <2>b DEF PowerInv, SaidMagnetic, On, Off, FlagIsOff
  <2>3. CASE h = "ID_O"
    <3>1. said["ID_O"] = "on" => "ID_O" \in compass.flags /\ accel.on
      BY <2>a DEF PowerInv, SaidOrientation
    <3>2. said["ID_O"] = "off" =>
              FlagIsOff("ID_O") /\ (said["ID_A"] = "off" => IsOff(accel))
      BY <2>a DEF PowerInv, SaidAccel, SaidOrientation, IsOff, FlagIsOff
    <3>3. said[h] = "on" => On(h)
      BY <2>3, <2>b, <3>1 DEF On
    <3>4. said[h] = "off" => Off(h)
      BY <2>3, <2>b, <3>2 DEF Off
    <3>. QED  BY <3>3, <3>4
  <2>4. CASE h \in Singles \ {"ID_L"}
    <3>1. (said[h] = "on" => single[h].on) /\ (said[h] = "off" => IsOff(single[h]))
      BY <2>4 DEF PowerInv, SaidSingle
    <3>. QED  BY <2>4, <2>b, <3>1 DEF On, Off
  <2>. QED  BY <2>1, <2>2, <2>3, <2>4 DEF Reporting, CompassSensors
<1>. QED  BY <1>1, PowerInductive, PTL
=============================================================================
