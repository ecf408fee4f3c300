------------------------------- MODULE Lights -------------------------------
(***************************************************************************)
(* The lights HAL (liblights/lights.c): threads of the system server call   *)
(* set_light of the notification, the attention and the backlight device,  *)
(* which share two requests and a lock.  The notification LED has two      *)
(* attributes, written one after the other; either write may fail, and the *)
(* code does not look.                                                     *)
(***************************************************************************)
EXTENDS Integers, FiniteSetsExt

CONSTANTS
    Threads,    \* the callers of set_light
    Requests    \* the states set_light is called with

Devices == {"backlight", "notifications", "attention"}
FlashModes == {"LIGHT_FLASH_NONE", "LIGHT_FLASH_TIMED", "LIGHT_FLASH_HARDWARE"}

\* A colour is a triple of red, green and blue; flashOffMS is not used.
Byte == 0..255
light_state_t == [color : Byte \X Byte \X Byte, flashMode : FlashModes, flashOnMS : Nat]

ASSUME LightsAssumption == Requests \subseteq light_state_t

Dark == [color |-> <<0, 0, 0>>, flashMode |-> "LIGHT_FLASH_NONE", flashOnMS |-> 0]
NoCall == [device |-> "backlight", state |-> Dark]

VARIABLES
    g_notify, g_attention,  \* the two requests
    g_lock,                 \* the thread that holds it, or {}
    pc, call,               \* of each thread: where it is in which call of set_light
    lcd,                    \* brightness of the backlight
    brightness, blink,      \* the attributes of the notification LED
    asked,                  \* auxiliary: the last request of each device
    failed                  \* auxiliary: what the last write of an attribute did not reach

vars == <<g_notify, g_attention, g_lock, pc, call, lcd, brightness,
          blink, asked, failed>>

rgb_to_brightness(s) == Max({s.color[1], s.color[2], s.color[3]})

\* init_globals, and an LED that is off.
Init ==
    /\ g_notify = Dark /\ g_attention = Dark
    /\ g_lock = {}
    /\ pc = [t \in Threads |-> "idle"]
    /\ call = [t \in Threads |-> NoCall]
    /\ lcd = 0 /\ brightness = 0 /\ blink = 0
    /\ asked = [d \in Devices |-> Dark] /\ failed = {}

-----------------------------------------------------------------------------
\* A thread calls set_light of a device.
Call(t, d, s) ==
    /\ pc[t] = "idle" /\ pc' = [pc EXCEPT ![t] = "lock"]
    /\ call' = [call EXCEPT ![t] = [device |-> d, state |-> s]]
    /\ UNCHANGED <<g_notify, g_attention, g_lock, lcd, brightness, blink, asked,
                   failed>>

\* Mutant of SetNotify: the request is dropped while attention is shown.
SetNotifyDropped(s) ==
    g_notify' = IF /\ g_attention.flashMode = "LIGHT_FLASH_HARDWARE"
                   /\ g_attention.flashOnMS # 0
                THEN g_notify
                ELSE [color |-> s.color, flashMode |-> g_notify.flashMode, flashOnMS |->
                          IF s.flashMode # "LIGHT_FLASH_NONE" THEN s.flashOnMS ELSE 0]

\* set_light_notifications: a request that does not flash keeps the flashMode.
SetNotify(s) ==
    g_notify' = IF s.flashMode # "LIGHT_FLASH_NONE"
                THEN [color |-> s.color, flashMode |-> "LIGHT_FLASH_HARDWARE",
                      flashOnMS |-> s.flashOnMS]
                ELSE [color |-> s.color, flashMode |-> g_notify.flashMode, flashOnMS |-> 0]

\* Mutant of Acquire: the lock is not taken.
AcquireFree(t) ==
    /\ pc[t] = "lock" /\ UNCHANGED g_lock
    /\ asked' = [asked EXCEPT ![call[t].device] = call[t].state]
    /\ CASE call[t].device = "notifications" ->
              SetNotify(call[t].state) /\ UNCHANGED g_attention
         [] call[t].device = "attention" ->
              g_attention' = call[t].state /\ UNCHANGED g_notify
         [] OTHER -> UNCHANGED <<g_notify, g_attention>>
    /\ pc' = [pc EXCEPT ![t] = "brightness"]
    /\ UNCHANGED <<call, lcd, brightness, blink, failed>>

\* pthread_mutex_lock, and the assignments of the request.
Acquire(t) ==
    /\ pc[t] = "lock" /\ g_lock = {} /\ g_lock' = {t}
    /\ asked' = [asked EXCEPT ![call[t].device] = call[t].state]
    /\ CASE call[t].device = "notifications" ->
              SetNotify(call[t].state) /\ UNCHANGED g_attention
         [] call[t].device = "attention" ->
              g_attention' = call[t].state /\ UNCHANGED g_notify
         [] OTHER -> UNCHANGED <<g_notify, g_attention>>
    /\ pc' = [pc EXCEPT ![t] = "brightness"]
    /\ UNCHANGED <<call, lcd, brightness, blink, failed>>

attn_mode ==
    IF g_attention.flashMode = "LIGHT_FLASH_HARDWARE" THEN g_attention.flashOnMS ELSE 0

\* Mutant of Shown: each device shows its own request.
ShownOwn(d) == IF d = "attention" THEN g_attention ELSE g_notify

\* handle_notification_light_locked: attention has priority over notify,
\* whichever of the two was set.
Shown(d) == IF attn_mode # 0 THEN g_attention ELSE g_notify

\* write_int: the attribute has the value, or the file could not be opened or
\* written and it has the value it had.
Written(attribute, old, new, value) ==
    \/ new = value /\ failed' = failed \ {attribute}
    \/ new = old /\ failed' = failed \cup {attribute}

Release(t) ==
    /\ g_lock' = g_lock \ {t} /\ pc' = [pc EXCEPT ![t] = "idle"]
    /\ call' = [call EXCEPT ![t] = NoCall]

\* The whole of set_light_backlight's write, and its unlock.
WriteBacklight(t) ==
    /\ pc[t] = "brightness" /\ call[t].device = "backlight"
    /\ Written("lcd", lcd, lcd', rgb_to_brightness(call[t].state))
    /\ Release(t)
    /\ UNCHANGED <<g_notify, g_attention, brightness, blink, asked>>

\* set_notification_light, its first write ...
WriteBrightness(t) ==
    /\ pc[t] = "brightness" /\ call[t].device # "backlight"
    /\ Written("brightness", brightness, brightness',
               rgb_to_brightness(Shown(call[t].device)))
    /\ pc' = [pc EXCEPT ![t] = "blink"]
    /\ UNCHANGED <<g_notify, g_attention, g_lock, call, lcd, blink, asked>>

\* ... and its second, and the unlock.
WriteBlink(t) ==
    /\ pc[t] = "blink"
    /\ Written("blink", blink, blink', Shown(call[t].device).flashOnMS)
    /\ Release(t)
    /\ UNCHANGED <<g_notify, g_attention, lcd, brightness, asked>>

Next ==
    \E t \in Threads :
        \/ \E d \in Devices, s \in Requests : Call(t, d, s)
        \/ Acquire(t)
        \/ WriteBacklight(t) \/ WriteBrightness(t) \/ WriteBlink(t)

Spec == Init /\ [][Next]_vars

-----------------------------------------------------------------------------
(* Properties.                                                             *)

TypeOK ==
    /\ g_notify \in light_state_t /\ g_attention \in light_state_t
    /\ g_lock \in {{}} \cup {{t} : t \in Threads}
    /\ pc \in [Threads -> {"idle", "lock", "brightness", "blink"}]
    /\ \A t \in Threads : pc[t] \in {"brightness", "blink"} <=> g_lock = {t}
    /\ call \in [Threads -> [device : Devices, state : Requests \cup {Dark}]]
    /\ asked \in [Devices -> Requests \cup {Dark}]
    /\ lcd \in Nat /\ brightness \in Nat /\ blink \in Nat
    /\ failed \subseteq {"lcd", "brightness", "blink"}

\* What the LED is to show, told from the calls alone: the last request for
\* attention while it asks to flash in hardware, and else the last notification.
Wanted ==
    LET a == asked["attention"]   n == asked["notifications"]
    IN IF a.flashMode = "LIGHT_FLASH_HARDWARE" /\ a.flashOnMS # 0
       THEN [brightness |-> rgb_to_brightness(a), blink |-> a.flashOnMS]
       ELSE [brightness |-> rgb_to_brightness(n),
             blink |-> IF n.flashMode = "LIGHT_FLASH_NONE" THEN 0 ELSE n.flashOnMS]

\* Between the calls each attribute that was written has the value the calls so
\* far ask for, whatever their order: a notification that came while attention
\* was shown is shown when attention is given up, and it never replaces attention.
LedShowsWanted ==
    g_lock = {} =>
        /\ "brightness" \notin failed => brightness = Wanted.brightness
        /\ "blink" \notin failed => blink = Wanted.blink
        /\ "lcd" \notin failed => lcd = rgb_to_brightness(asked["backlight"])

\* While attention is shown no call for another light changes the LED, not even
\* between its two writes.
AttentionUndisturbed ==
    [][attn_mode # 0 /\ asked' = asked /\ g_attention' = g_attention
        => /\ brightness' \in {brightness, rgb_to_brightness(g_attention)}
           /\ blink' \in {blink, g_attention.flashOnMS}]_vars
=============================================================================
