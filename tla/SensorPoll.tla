----------------------------- MODULE SensorPoll -----------------------------
(***************************************************************************)
(* The sensors HAL at work: the thread that calls pollEvents again and     *)
(* again (sensors/nusensors.cpp), readEvents of a driver whose device      *)
(* carries several sensors (sensors/AkmSensor.cpp) and of drivers with one *)
(* (sensors/GyroSensor.cpp and its likes), and a thread that activates     *)
(* sensors.                                                                *)
(*                                                                         *)
(* The ring of a driver is the queue EventQueue, which InputEventReader    *)
(* implements.  A device numbers its samples and reports each as one       *)
(* EV_REL for every sensor it carries, then an EV_SYN.                     *)
(***************************************************************************)
EXTENDS Integers, Sequences, FiniteSets

CONSTANTS
    mSensors,       \* the drivers, each the sequence of its sensors
    akm,            \* the index of the compass driver
    numEvents,      \* size of a driver's ring
    PipeCap,        \* bytes the wake pipe holds
    Count,          \* size of the caller's array
    Errno,          \* the number of the error a failed read reports
    MaxSamples,     \* bound on the samples of a device
    MaxActivations, \* bound on activations and deactivations
    ReadFaults,     \* bound on failed reads of a device
    PollFaults      \* bound on failed polls

Drivers == DOMAIN mSensors
SensorsOf(d) == {mSensors[d][j] : j \in DOMAIN mSensors[d]}
Sensors == UNION {SensorsOf(d) : d \in Drivers}

\* handleToDriver
DriverOf(s) == CHOOSE d \in Drivers : s \in SensorsOf(d)

ASSUME DriverAssumption ==
    /\ mSensors \in Seq(Seq(Sensors)) /\ \A d \in Drivers : mSensors[d] # <<>>
    /\ mSensors # <<>> /\ akm \in Drivers
    /\ \A d, e \in Drivers : d # e => SensorsOf(d) \cap SensorsOf(e) = {}
    /\ \A d \in Drivers : \A j, k \in DOMAIN mSensors[d] :
          mSensors[d][j] = mSensors[d][k] => j = k
    /\ \A d \in Drivers \ {akm} : Len(mSensors[d]) = 1
    /\ \A b \in {Count, numEvents, Errno, PipeCap} : b \in Nat \ {0}
    /\ \A b \in {MaxSamples, MaxActivations, ReadFaults, PollFaults} : b \in Nat

VARIABLES
    \* the kernel
    produced,       \* samples the device of each driver has reported
    on,             \* sensors that are switched on in their device
    kernel,         \* events to be read from each device
    pipe,           \* bytes in the wake pipe
    \* the poll thread
    pc,
    i,              \* the driver whose turn it is
    n, count, nbEvents,
    got,            \* numEventReceived of the driver's readEvents
    revents,        \* the drivers whose revents has POLLIN
    ring,           \* events in each driver's mInputReader
    mPendingMask,   \* of the compass driver
    sample,         \* the sample in each sensor's pending event
    done,           \* auxiliary: the last sample delivered, or dropped because
                    \* its sensor was disabled
    \* shared by the threads
    mEnabled,
    \* the thread that activates sensors
    aPC, aSensor, aOn,
    \* bounds
    activations, faults

kernelVars == <<produced, on, kernel>>
scanVars   == <<i, n, count, nbEvents, got, revents>>
readVars   == <<ring, mPendingMask, sample, done>>
activeVars == <<aPC, aSensor, aOn, activations>>
vars       == <<kernelVars, pipe, pc, scanVars, readVars, mEnabled, activeVars,
                faults>>

Rel(s, k) == [type |-> "EV_REL", sensor |-> s, sample |-> k]
Syn == [type |-> "EV_SYN"]

\* The events by which the device of driver d reports its k-th sample.
Report(d, k) ==
    Append([j \in DOMAIN mSensors[d] |-> Rel(mSensors[d][j], k)], Syn)

Init ==
    /\ produced = [d \in Drivers |-> 0] /\ on = {}
    /\ kernel = [d \in Drivers |-> <<>>]
    /\ pipe = 0
    /\ pc = "idle" /\ i = 1 /\ n = 0 /\ count = 0 /\ nbEvents = 0 /\ got = 0
    /\ revents = {}
    /\ ring = [d \in Drivers |-> <<>>]
    /\ mPendingMask = {}
    /\ sample = [s \in Sensors |-> 0] /\ done = [s \in Sensors |-> 0]
    /\ mEnabled = {}
    /\ aPC = "idle" /\ aSensor = mSensors[1][1] /\ aOn = FALSE /\ activations = 0
    /\ faults = [k \in {"read", "poll"} |-> 0]

-----------------------------------------------------------------------------
\* A device reports a sample while one of its sensors is on.
Produce(d) ==
    /\ on \cap SensorsOf(d) # {} /\ produced[d] < MaxSamples
    /\ produced' = [produced EXCEPT ![d] = @ + 1]
    /\ kernel' = [kernel EXCEPT ![d] = @ \o Report(d, produced[d] + 1)]
    /\ UNCHANGED <<on, pipe, pc, scanVars, readVars, mEnabled, activeVars, faults>>

-----------------------------------------------------------------------------
(* The thread that activates sensors.                                      *)

\* activate is called; nothing is done if the driver is in that state already.
Activate(s, en) ==
    /\ aPC = "idle" /\ activations < MaxActivations
    /\ activations' = activations + 1
    /\ aSensor' = s /\ aOn' = en
    /\ aPC' = IF (s \in mEnabled) # en THEN "ioctl"
              ELSE IF en THEN "wake" ELSE "idle"
    /\ UNCHANGED <<kernelVars, pipe, pc, scanVars, readVars, mEnabled, faults>>

\* The driver's enable switches the sensor, and then says so; if the ioctl fails
\* activate returns.
SwitchSensor ==
    /\ aPC = "ioctl"
    /\ \/ aPC' = "set" /\ on' = IF aOn THEN on \cup {aSensor} ELSE on \ {aSensor}
       \/ aPC' = "idle" /\ UNCHANGED on
    /\ UNCHANGED <<produced, kernel, pipe, pc, scanVars, readVars, mEnabled,
                   aSensor, aOn, activations, faults>>

SetEnabled ==
    /\ aPC = "set" /\ aPC' = IF aOn THEN "wake" ELSE "idle"
    /\ mEnabled' = IF aOn THEN mEnabled \cup {aSensor} ELSE mEnabled \ {aSensor}
    /\ UNCHANGED <<kernelVars, pipe, pc, scanVars, readVars, aSensor, aOn,
                   activations, faults>>

\* The pipe does not block: when it is full the message is lost.
WriteWake ==
    /\ aPC = "wake" /\ aPC' = "idle"
    /\ pipe' = IF pipe < PipeCap THEN pipe + 1 ELSE pipe
    /\ UNCHANGED <<kernelVars, pc, scanVars, readVars, mEnabled, aSensor, aOn,
                   activations, faults>>

Activator == SwitchSensor \/ SetEnabled \/ WriteWake

-----------------------------------------------------------------------------
(* pollEvents.                                                             *)

CallPoll ==
    /\ pc = "idle" /\ pc' = "scan"
    /\ i' = 1 /\ count' = Count /\ nbEvents' = 0
    /\ UNCHANGED <<kernelVars, pipe, n, got, revents, readVars, mEnabled,
                   activeVars, faults>>

\* for (int i=0 ; count && i<numSensorDrivers ; i++)
Scan ==
    /\ pc = "scan"
    /\ \/ /\ count # 0 /\ i \in Drivers
          /\ IF i \in revents THEN pc' = "fill" /\ got' = 0 /\ UNCHANGED i
                              ELSE i' = i + 1 /\ UNCHANGED <<pc, got>>
       \/ /\ count = 0 \/ i \notin Drivers
          /\ pc' = IF count = 0 THEN "idle" ELSE "poll"
          /\ UNCHANGED <<i, got>>
    /\ UNCHANGED <<kernelVars, pipe, n, count, nbEvents, revents, readVars,
                   mEnabled, activeVars, faults>>

Free(d) == numEvents - Len(ring[d])

\* mInputReader.fill: the device is opened to block, and is not read when the
\* ring is full.
Fill ==
    /\ pc = "fill" /\ pc' = "read"
    /\ \/ Free(i) = 0 /\ UNCHANGED <<ring, kernel>>
       \/ \E k \in 1..Len(kernel[i]) :
             /\ k <= Free(i)
             /\ ring' = [ring EXCEPT ![i] = @ \o SubSeq(kernel[i], 1, k)]
             /\ kernel' = [kernel EXCEPT ![i] = SubSeq(@, k + 1, Len(@))]
    /\ UNCHANGED <<produced, on, pipe, scanVars, mPendingMask, sample, done,
                   mEnabled, activeVars, faults>>

\* A failed read makes readEvents return -errno, which pollEvents takes for a
\* number of events.  It also moves the pointer into the array back by as many: where
\* in memory the events of the rest of the call are written is not modelled.
FillFails ==
    /\ pc = "fill" /\ pc' = "scan" /\ Free(i) # 0
    /\ faults["read"] < ReadFaults /\ faults' = [faults EXCEPT !["read"] = @ + 1]
    /\ revents' = revents \ {i}
    /\ count' = count + Errno /\ nbEvents' = nbEvents - Errno /\ i' = i + 1
    /\ UNCHANGED <<kernelVars, pipe, n, got, readVars, mEnabled, activeVars>>

\* The event at the head of the ring is done with.
NextEvent == ring' = [ring EXCEPT ![i] = Tail(@)]

\* The pending event of sensor s is delivered, unless s is disabled.
Deliver(s) ==
    /\ done' = [done EXCEPT ![s] = sample[s]]
    /\ got' = IF s \in mEnabled THEN got + 1 ELSE got

\* processEvent
ReadRel ==
    LET e == Head(ring[i])
    IN /\ e.type = "EV_REL"
       /\ sample' = [sample EXCEPT ![e.sensor] = e.sample]
       /\ mPendingMask' = IF i = akm THEN mPendingMask \cup {e.sensor}
                                     ELSE mPendingMask
       /\ NextEvent /\ UNCHANGED <<done, got>>

\* A driver with one sensor delivers at every EV_SYN.
ReadSynSingle ==
    /\ i # akm /\ Head(ring[i]) = Syn
    /\ \E s \in SensorsOf(i) : Deliver(s)
    /\ NextEvent /\ UNCHANGED <<sample, mPendingMask>>

\* The pending event the loop over j comes to first.
FirstPending ==
    mSensors[akm][CHOOSE j \in DOMAIN mSensors[akm] :
        /\ mSensors[akm][j] \in mPendingMask
        /\ \A k \in 1..(j - 1) : mSensors[akm][k] \notin mPendingMask]

\* Mutant of ReadSynAkm: the EV_SYN is done with when the array is full.
ReadSynAkmOnce ==
    /\ i = akm /\ Head(ring[i]) = Syn
    /\ Deliver(FirstPending) /\ mPendingMask' = mPendingMask \ {FirstPending}
    /\ IF mPendingMask' = {} \/ got' = count THEN NextEvent ELSE UNCHANGED ring
    /\ UNCHANGED sample

\* The compass delivers all that is pending; the EV_SYN stays at the head of the
\* ring until everything was delivered, over several calls if need be.  (No
\* device reports an EV_SYN alone, so something is pending.)
ReadSynAkm ==
    /\ i = akm /\ Head(ring[i]) = Syn
    /\ Deliver(FirstPending) /\ mPendingMask' = mPendingMask \ {FirstPending}
    /\ IF mPendingMask' = {} THEN NextEvent ELSE UNCHANGED ring
    /\ UNCHANGED sample

\* while (count && mInputReader.readEvent(&event))
ReadEvent ==
    /\ pc = "read" /\ got < count /\ ring[i] # <<>>
    /\ ReadRel \/ ReadSynSingle \/ ReadSynAkm
    /\ UNCHANGED <<kernelVars, pipe, pc, i, n, count, nbEvents, revents,
                   mEnabled, activeVars, faults>>

\* Mutant of EndRead: POLLIN is always cleared.
EndReadClears ==
    /\ pc = "read" /\ (got = count \/ ring[i] = <<>>) /\ pc' = "scan"
    /\ revents' = revents \ {i}
    /\ count' = count - got /\ nbEvents' = nbEvents + got /\ i' = i + 1
    /\ UNCHANGED <<kernelVars, pipe, n, got, readVars, mEnabled, activeVars,
                   faults>>

\* Mutant of EndRead: the room that is left is not reduced.
EndReadKeepsCount ==
    /\ pc = "read" /\ (got = count \/ ring[i] = <<>>) /\ pc' = "scan"
    /\ revents' = IF got < count THEN revents \ {i} ELSE revents
    /\ nbEvents' = nbEvents + got /\ i' = i + 1
    /\ UNCHANGED <<kernelVars, pipe, n, count, got, readVars, mEnabled,
                   activeVars, faults>>

\* A driver that filled the room that was left keeps its POLLIN: it may have
\* more.
EndRead ==
    /\ pc = "read" /\ (got = count \/ ring[i] = <<>>) /\ pc' = "scan"
    /\ revents' = IF got < count THEN revents \ {i} ELSE revents
    /\ count' = count - got /\ nbEvents' = nbEvents + got /\ i' = i + 1
    /\ UNCHANGED <<kernelVars, pipe, n, got, readVars, mEnabled, activeVars,
                   faults>>

\* poll(mPollFds, numFds, nbEvents ? 0 : -1), which sets every revents, and the
\* read of one byte from the wake pipe.
Ready == {d \in Drivers : kernel[d] # <<>>}

\* Mutant of Poll: the byte in the wake pipe is not read.
PollLeavesWake ==
    /\ pc = "poll"
    /\ LET woken == IF pipe > 0 THEN 1 ELSE 0
           ready == Ready
       IN /\ nbEvents = 0 => ready # {} \/ woken = 1
          /\ revents' = ready /\ UNCHANGED pipe
          /\ n' = IF ready = {} THEN woken ELSE 1
    /\ pc' = IF n' # 0 THEN "scan" ELSE "idle"
    /\ i' = 1
    /\ UNCHANGED <<kernelVars, count, nbEvents, got, readVars, mEnabled,
                   activeVars, faults>>

Poll ==
    /\ pc = "poll"
    /\ LET woken == IF pipe > 0 THEN 1 ELSE 0
           ready == Ready
       IN /\ nbEvents = 0 => ready # {} \/ woken = 1
          /\ revents' = ready /\ pipe' = pipe - woken
          /\ n' = IF ready = {} THEN woken ELSE 1
    /\ pc' = IF n' # 0 THEN "scan" ELSE "idle"
    /\ i' = 1
    /\ UNCHANGED <<kernelVars, count, nbEvents, got, readVars, mEnabled,
                   activeVars, faults>>

\* A failed poll returns its error: the events read so far are not announced.
PollFails ==
    /\ pc = "poll" /\ pc' = "idle"
    /\ faults["poll"] < PollFaults /\ faults' = [faults EXCEPT !["poll"] = @ + 1]
    /\ UNCHANGED <<kernelVars, pipe, scanVars, readVars, mEnabled, activeVars>>

PollThread == CallPoll \/ Scan \/ Fill \/ ReadEvent \/ EndRead \/ Poll

Next ==
    \/ PollThread \/ FillFails \/ PollFails
    \/ Activator
    \/ \E d \in Drivers : Produce(d)
    \/ \E s \in Sensors, en \in BOOLEAN : Activate(s, en)

Spec == Init /\ [][Next]_vars

\* The poll thread calls pollEvents for ever, and an activation that was begun
\* ends; no device has to report anything.
FairSpec == Spec /\ WF_vars(PollThread) /\ WF_vars(Activator)

-----------------------------------------------------------------------------
(* Properties.                                                             *)

PCs == {"idle", "scan", "fill", "read", "poll"}

EventsOf(d) == {Rel(s, k) : s \in SensorsOf(d), k \in 1..MaxSamples} \cup {Syn}

\* Types; the room that is left and the events read are the caller's array, they
\* are not negative unless a read failed, and no ring holds more than its size.
TypeOK ==
    /\ produced \in [Drivers -> 0..MaxSamples]
    /\ on \subseteq Sensors /\ mEnabled \subseteq Sensors
    /\ DOMAIN kernel = Drivers /\ \A d \in Drivers : kernel[d] \in Seq(EventsOf(d))
    /\ DOMAIN ring = Drivers /\ \A d \in Drivers : ring[d] \in Seq(EventsOf(d))
    /\ \A d \in Drivers : Free(d) >= 0
    /\ pipe \in 0..PipeCap
    /\ pc \in PCs /\ i \in 1..(Len(mSensors) + 1) /\ n \in 0..1
    /\ pc \in {"fill", "read"} => i \in revents
    /\ count \in Nat /\ nbEvents \in Int
    /\ pc # "idle" => count + nbEvents = Count
    /\ faults["read"] = 0 => nbEvents >= 0
    /\ got \in Nat /\ (pc = "fill" => got = 0) /\ (pc = "read" => got <= count)
    /\ revents \subseteq Drivers
    /\ mPendingMask \subseteq SensorsOf(akm)
    /\ aPC \in {"idle", "ioctl", "set", "wake"} /\ aSensor \in Sensors /\ aOn \in BOOLEAN
    /\ activations \in 0..MaxActivations
    /\ faults \in [{"read", "poll"} -> Nat]

\* pollEvents keeps the promise of SampleStream: what it disposes of was
\* reported, one sample of one sensor at a time, none twice and none skipped,
\* also across calls that end in the middle of a report because the array is full.
Stream == INSTANCE SampleStream WITH
    Devices  <- {SensorsOf(d) : d \in Drivers},
    reported <- [s \in Sensors |-> produced[DriverOf(s)]]

StreamSpec == Stream!Spec

\* What driver d has yet to do for the events that were reported: to take them
\* from the kernel, from the ring, and to deliver what it made of them.
WorkOf(d) ==
    3 * Len(kernel[d]) + 2 * Len(ring[d])
        + IF d = akm THEN Cardinality(mPendingMask) ELSE 0

\* A driver that is to be read is among those the scan has yet to come to.
Ahead == \E d \in revents : d >= i

\* The steps the thread takes until it next does some of that work, or waits.
StageLeft ==
    CASE pc = "read" -> IF got < count /\ ring[i] # <<>> THEN 0 ELSE 5
      [] pc = "scan" -> IF Ahead THEN 2 ELSE 4
      [] pc = "poll" -> 3
      [] pc = "fill" -> 1
      [] OTHER       -> 0

TurnsLeft == Len(mSensors) + 1 - i

\* There is less work, or the same work and a byte less in the pipe, or the same
\* of both and the next work is nearer.
CallLess ==
    /\ \A d \in Drivers : WorkOf(d)' \in 0..WorkOf(d)
    /\ \/ \E d \in Drivers : WorkOf(d)' < WorkOf(d)
       \/ pipe' \in 0..(pipe - 1)
       \/ pipe' = pipe /\ StageLeft' \in 0..(StageLeft - 1)
       \/ /\ pipe' = pipe /\ StageLeft' = StageLeft
          /\ TurnsLeft' \in 0..(TurnsLeft - 1)

\* A call of pollEvents does not spin: whatever is switched in the meantime, each
\* of its steps brings it nearer to its return or to a wait.  Only a device that
\* reports, a wake message and a failed read give it more to do.
CallProceeds ==
    [][pc # "idle" /\ pc' # "idle" =>
          \/ CallLess
          \/ UNCHANGED <<pc, scanVars, readVars, kernel, pipe>>
          \/ produced' # produced \/ pipe' > pipe \/ faults' # faults]_vars

\* The poll thread waits in the read of a device that has nothing to say.
BlockedInFill == pc = "fill" /\ Free(i) # 0 /\ kernel[i] = <<>>

AllRead == \A d \in Drivers : kernel[d] = <<>> /\ ring[d] = <<>>

\* Whatever the devices report is in the end taken from the kernel and from the
\* rings and delivered, unless the poll thread waits in the read of a device
\* because of a POLLIN that is not true any more, or a read failed: that clears
\* the POLLIN of a driver whose ring still holds events.
AllDelivered == []<>(AllRead \/ BlockedInFill \/ faults["read"] > 0)

\* "try to see if we can get some events immediately or just wait if we don't
\* have anything to return" (nusensors.cpp:178): a call does not wait while
\* there are events it could return.
HasReport(d) ==
    \E j \in DOMAIN ring[d] :
        ring[d][j] = Syn /\ SensorsOf(d) \subseteq mEnabled

WaitsOnlyWithNothing ==
    BlockedInFill => nbEvents = 0 /\ ~\E d \in Drivers : HasReport(d)
=============================================================================
