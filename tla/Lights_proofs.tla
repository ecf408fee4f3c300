---------------------------- MODULE Lights_proofs ----------------------------
(* Theorems about Lights, for all threads and requests.                     *)
EXTENDS Lights, TLAPS

USE LightsAssumption

\* Of three numbers one is the greatest.
LEMMA MaxOfThree ==
    ASSUME NEW a \in Nat, NEW b \in Nat, NEW c \in Nat PROVE Max({a, b, c}) \in Nat
<1>1. \E x \in {a, b, c} : \A y \in {a, b, c} : x >= y
  <2>1. CASE a >= b /\ a >= c
    BY <2>1
  <2>2. CASE b >= a /\ b >= c
    BY <2>2
  <2>3. CASE c >= a /\ c >= b
    BY <2>3
  <2>. QED  BY <2>1, <2>2, <2>3
<1>2. Max({a, b, c}) \in {a, b, c}
  BY <1>1, Zenon DEF Max
<1>. QED  BY <1>2

LEMMA BrightnessType ==
    ASSUME NEW s \in light_state_t PROVE rgb_to_brightness(s) \in Nat
<1>1. s.color[1] \in Nat /\ s.color[2] \in Nat /\ s.color[3] \in Nat
  BY DEF light_state_t, Byte
<1>. QED  BY <1>1, MaxOfThree DEF rgb_to_brightness

LEMMA DarkType == Dark \in light_state_t
BY DEF Dark, light_state_t, Byte, FlashModes

\* One thread at most is between the lock and the unlock.
LEMMA OneHolder ==
    ASSUME TypeOK, NEW t \in Threads, NEW u \in Threads,
           pc[t] \in {"brightness", "blink"}, pc[u] \in {"brightness", "blink"}
    PROVE  t = u
<1>1. {t} = {u}
  BY DEF TypeOK
<1>. QED  BY <1>1

LEMMA NotifyType ==
    ASSUME NEW s \in light_state_t, g_notify \in light_state_t, SetNotify(s)
    PROVE  g_notify' \in light_state_t
<1>1. s.color \in Byte \X Byte \X Byte /\ s.flashOnMS \in Nat
      /\ g_notify.flashMode \in FlashModes
  BY DEF light_state_t
<1>2. CASE s.flashMode # "LIGHT_FLASH_NONE"
  BY <1>1, <1>2 DEF SetNotify, light_state_t, FlashModes
<1>3. CASE s.flashMode = "LIGHT_FLASH_NONE"
  BY <1>1, <1>3 DEF SetNotify, light_state_t
<1>. QED  BY <1>2, <1>3

LEMMA TypeStep == TypeOK /\ [Next]_vars => TypeOK'
<1> SUFFICES ASSUME TypeOK, [Next]_vars PROVE TypeOK'
  OBVIOUS
<1>a. \A s \in Requests \cup {Dark} : s \in light_state_t
  BY DarkType
<1>1. ASSUME NEW t \in Threads, NEW d \in Devices, NEW s \in Requests, Call(t, d, s)
      PROVE  TypeOK'
  <2>1. call' \in [Threads -> [device : Devices, state : Requests \cup {Dark}]]
    BY <1>1 DEF Call, TypeOK
  <2>2. pc' \in [Threads -> {"idle", "lock", "brightness", "blink"}]
    BY <1>1 DEF Call, TypeOK
  <2>3. \A u \in Threads : pc'[u] \in {"brightness", "blink"} <=> g_lock' = {u}
    BY <1>1 DEF Call, TypeOK
  <2>. QED  BY <1>1, <2>1, <2>2, <2>3 DEF Call, TypeOK
<1>2. ASSUME NEW t \in Threads, Acquire(t) PROVE TypeOK'
  <2>1. call[t] \in [device : Devices, state : Requests \cup {Dark}]
    BY DEF TypeOK
  <2>2. call[t].state \in light_state_t /\ call[t].state \in Requests \cup {Dark}
    BY <1>a, <2>1
  <2>3. g_notify' \in light_state_t /\ g_attention' \in light_state_t
    BY <1>2, <2>1, <2>2, NotifyType DEF Acquire, TypeOK, Devices
  <2>4. asked' \in [Devices -> Requests \cup {Dark}]
    BY <1>2, <2>2 DEF Acquire, TypeOK
  <2>5. pc' \in [Threads -> {"idle", "lock", "brightness", "blink"}]
    BY <1>2 DEF Acquire, TypeOK
  <2>6. \A u \in Threads : pc'[u] \in {"brightness", "blink"} <=> g_lock' = {u}
    BY <1>2 DEF Acquire, TypeOK
  <2>. QED  BY <1>2, <2>3, <2>4, <2>5, <2>6 DEF Acquire, TypeOK
<1>3. ASSUME NEW t \in Threads, Release(t), pc[t] \in {"brightness", "blink"}
      PROVE  /\ g_lock' \in {{}} \cup {{u} : u \in Threads}
             /\ pc' \in [Threads -> {"idle", "lock", "brightness", "blink"}]
             /\ \A u \in Threads : pc'[u] \in {"brightness", "blink"} <=> g_lock' = {u}
             /\ call' \in [Threads -> [device : Devices, state : Requests \cup {Dark}]]
  <2>1. g_lock' = {}
    BY <1>3 DEF Release, TypeOK
  <2>2. \A u \in Threads : pc'[u] \notin {"brightness", "blink"}
    BY <1>3, OneHolder DEF Release, TypeOK
  <2>3. NoCall \in [device : Devices, state : Requests \cup {Dark}]
    BY DEF NoCall, Devices
  <2>. QED  BY <1>3, <2>1, <2>2, <2>3 DEF Release, TypeOK
<1>4. ASSUME NEW t \in Threads, WriteBacklight(t) PROVE TypeOK'
  <2>1. call[t].state \in light_state_t
    BY <1>a DEF TypeOK
  <2>2. lcd' \in Nat /\ failed' \subseteq {"lcd", "brightness", "blink"}
    <3>1. rgb_to_brightness(call[t].state) \in Nat
      BY <2>1, BrightnessType
    <3>. QED  BY <1>4, <3>1 DEF WriteBacklight, Written, TypeOK
  <2>. QED  BY <1>3, <1>4, <2>2 DEF WriteBacklight, TypeOK
<1>b. ASSUME NEW t \in Threads PROVE Shown(call[t].device) \in light_state_t
  BY DEF Shown, TypeOK
<1>5. ASSUME NEW t \in Threads, WriteBrightness(t) PROVE TypeOK'
  <2>1. brightness' \in Nat /\ failed' \subseteq {"lcd", "brightness", "blink"}
    <3>1. rgb_to_brightness(Shown(call[t].device)) \in Nat
      BY <1>b, BrightnessType
    <3>. QED  BY <1>5, <3>1 DEF WriteBrightness, Written, TypeOK
  <2>2. pc' \in [Threads -> {"idle", "lock", "brightness", "blink"}]
    BY <1>5 DEF WriteBrightness, TypeOK
  <2>3. \A u \in Threads : pc'[u] \in {"brightness", "blink"} <=> g_lock' = {u}
    BY <1>5 DEF WriteBrightness, TypeOK
  <2>. QED  BY <1>5, <2>1, <2>2, <2>3 DEF WriteBrightness, TypeOK
<1>6. ASSUME NEW t \in Threads, WriteBlink(t) PROVE TypeOK'
  <2>1. Shown(call[t].device).flashOnMS \in Nat
    BY <1>b DEF light_state_t
  <2>2. blink' \in Nat /\ failed' \subseteq {"lcd", "brightness", "blink"}
    BY <1>6, <2>1 DEF WriteBlink, Written, TypeOK
  <2>. QED  BY <1>3, <1>6, <2>2 DEF WriteBlink, TypeOK
<1>7. CASE UNCHANGED vars
  BY <1>7 DEF vars, TypeOK
<1>. QED  BY <1>1, <1>2, <1>4, <1>5, <1>6, <1>7 DEF Next

\* Every variable keeps its type, and the lock admits one thread.
THEOREM LightsTypeCorrect == Spec => []TypeOK
<1>1. Init => TypeOK
  <2> SUFFICES ASSUME Init PROVE TypeOK
    OBVIOUS
  <2>1. NoCall \in [device : Devices, state : Requests \cup {Dark}]
    BY DEF NoCall, Devices
  <2>. QED  BY <2>1, DarkType DEF Init, TypeOK
<1>. QED  BY <1>1, TypeStep, PTL DEF Spec

\* What each device was last asked for can be told from the two requests, and an
\* attribute that was written has the value asked for, except while the thread
\* that asked has yet to write it.
Requested ==
    /\ g_attention = asked["attention"]
    /\ g_notify.color = asked["notifications"].color
    /\ g_notify.flashOnMS = IF asked["notifications"].flashMode = "LIGHT_FLASH_NONE" THEN 0
                            ELSE asked["notifications"].flashOnMS

BrightnessShown == "brightness" \notin failed => brightness = Wanted.brightness
BlinkShown == "blink" \notin failed => blink = Wanted.blink
LcdShown == "lcd" \notin failed => lcd = rgb_to_brightness(asked["backlight"])

LightsInv ==
    /\ Requested
    /\ g_lock = {} => BrightnessShown /\ BlinkShown /\ LcdShown
    /\ \A t \in Threads :
         /\ pc[t] = "brightness" /\ call[t].device = "backlight" =>
              BrightnessShown /\ BlinkShown /\ call[t].state = asked["backlight"]
         /\ pc[t] = "brightness" /\ call[t].device # "backlight" => LcdShown
         /\ pc[t] = "blink" => BrightnessShown /\ LcdShown

\* handle_notification_light_locked shows what is wanted, whichever device called.
LEMMA ShownIsWanted ==
    ASSUME TypeOK, Requested, NEW d
    PROVE  /\ rgb_to_brightness(Shown(d)) = Wanted.brightness
           /\ Shown(d).flashOnMS = Wanted.blink
<1>1. g_attention \in light_state_t /\ g_attention.flashOnMS \in Nat
  BY DEF TypeOK, light_state_t
<1>2. CASE attn_mode # 0
  BY <1>1, <1>2 DEF Shown, Wanted, Requested, attn_mode
<1>3. CASE attn_mode = 0
  BY <1>1, <1>3 DEF Shown, Wanted, Requested, attn_mode, rgb_to_brightness
<1>. QED  BY <1>2, <1>3

LEMMA LightsStep == TypeOK /\ TypeOK' /\ LightsInv /\ [Next]_vars => LightsInv'
<1> SUFFICES ASSUME TypeOK, TypeOK', LightsInv, [Next]_vars PROVE LightsInv'
  OBVIOUS
<1>a. UNCHANGED asked => Wanted' = Wanted
  BY DEF Wanted, rgb_to_brightness
<1>b. UNCHANGED <<asked, brightness, failed>> => BrightnessShown' = BrightnessShown
  BY <1>a DEF BrightnessShown
<1>c. UNCHANGED <<asked, blink, failed>> => BlinkShown' = BlinkShown
  BY <1>a DEF BlinkShown
<1>d. UNCHANGED <<asked, lcd, failed>> => LcdShown' = LcdShown
  BY DEF LcdShown, rgb_to_brightness
<1>e. UNCHANGED <<asked, g_notify, g_attention>> => Requested'
  BY DEF LightsInv, Requested
<1>1. ASSUME NEW t \in Threads, NEW d \in Devices, NEW s \in Requests, Call(t, d, s)
      PROVE  LightsInv'
  <2>1. /\ UNCHANGED <<g_notify, g_attention, g_lock, lcd, brightness, blink, asked, failed>>
        /\ \A u \in Threads :
              \/ pc'[u] = "lock"
              \/ pc'[u] = pc[u] /\ call'[u] = call[u]
    BY <1>1 DEF Call, TypeOK
  <2>. QED  BY <2>1, <1>b, <1>c, <1>d, <1>e DEF LightsInv
<1>2. ASSUME NEW t \in Threads, Acquire(t) PROVE LightsInv'
  <2>1. /\ g_lock = {} /\ UNCHANGED <<call, lcd, brightness, blink, failed>>
        /\ asked' = [asked EXCEPT ![call[t].device] = call[t].state]
        /\ pc' = [pc EXCEPT ![t] = "brightness"] /\ pc[t] = "lock"
    BY <1>2 DEF Acquire
  <2>2. call[t].device \in Devices /\ call[t].state \in Requests \cup {Dark}
    BY DEF TypeOK
  <2>3. \A u \in Threads : pc'[u] \in {"brightness", "blink"} =>
            u = t /\ pc'[u] = "brightness" /\ call'[u] = call[t]
    BY <2>1 DEF TypeOK
  <2>4. g_lock' # {}
    BY <1>2 DEF Acquire
  <2>5. Requested'
    <3>1. CASE call[t].device = "notifications"
      <4>1. SetNotify(call[t].state) /\ g_attention' = g_attention
        BY <1>2, <3>1 DEF Acquire
      <4>2. asked'["notifications"] = call[t].state /\ asked'["attention"] = asked["attention"]
        BY <2>1, <3>1 DEF TypeOK, Devices
      <4>. QED  BY <4>1, <4>2 DEF Requested, LightsInv, SetNotify
    <3>2. CASE call[t].device = "attention"
      <4>1. g_notify' = g_notify /\ g_attention' = call[t].state
        BY <1>2, <3>2 DEF Acquire
      <4>2. /\ asked'["attention"] = call[t].state
            /\ asked'["notifications"] = asked["notifications"]
        BY <2>1, <3>2 DEF TypeOK, Devices
      <4>. QED  BY <4>1, <4>2 DEF Requested, LightsInv
    <3>3. CASE call[t].device = "backlight"
      <4>1. g_notify' = g_notify /\ g_attention' = g_attention
        BY <1>2, <3>3 DEF Acquire
      <4>2. /\ asked'["attention"] = asked["attention"]
            /\ asked'["notifications"] = asked["notifications"]
        BY <2>1, <3>3 DEF TypeOK, Devices
      <4>. QED  BY <4>1, <4>2 DEF Requested, LightsInv
    <3>. QED  BY <2>2, <3>1, <3>2, <3>3 DEF Devices
  <2>6. call[t].device = "backlight" =>
            BrightnessShown' /\ BlinkShown' /\ call[t].state = asked'["backlight"]
    <3> SUFFICES ASSUME call[t].device = "backlight"
                 PROVE BrightnessShown' /\ BlinkShown' /\ call[t].state = asked'["backlight"]
      OBVIOUS
    <3>1. /\ asked'["attention"] = asked["attention"]
          /\ asked'["notifications"] = asked["notifications"]
          /\ asked'["backlight"] = call[t].state
      BY <2>1 DEF TypeOK, Devices
    <3>2. Wanted' = Wanted
      BY <3>1 DEF Wanted, rgb_to_brightness
    <3>. QED  BY <2>1, <3>1, <3>2 DEF LightsInv, BrightnessShown, BlinkShown
  <2>7. call[t].device # "backlight" => LcdShown'
    <3>1. call[t].device # "backlight" => asked'["backlight"] = asked["backlight"]
      BY <2>1, <2>2 DEF TypeOK, Devices
    <3>. QED  BY <2>1, <3>1 DEF LightsInv, LcdShown, rgb_to_brightness
  <2>. QED  BY <2>3, <2>4, <2>5, <2>6, <2>7 DEF LightsInv
<1>3. ASSUME NEW t \in Threads, Release(t), pc[t] \in {"brightness", "blink"}
      PROVE  g_lock' = {} /\ \A u \in Threads : pc'[u] \notin {"brightness", "blink"}
  BY <1>3, OneHolder DEF Release, TypeOK
<1>4. ASSUME NEW t \in Threads, WriteBacklight(t) PROVE LightsInv'
  <2>1. /\ UNCHANGED <<asked, g_notify, g_attention, brightness, blink>>
        /\ pc[t] = "brightness" /\ call[t].device = "backlight" /\ Release(t)
    BY <1>4 DEF WriteBacklight
  <2>2. BrightnessShown /\ BlinkShown /\ call[t].state = asked["backlight"]
    BY <2>1 DEF LightsInv
  <2>3. LcdShown'
    BY <1>4, <2>1, <2>2 DEF WriteBacklight, Written, LcdShown, rgb_to_brightness
  <2>4. /\ "brightness" \notin failed' => "brightness" \notin failed
        /\ "blink" \notin failed' => "blink" \notin failed
    BY <1>4 DEF WriteBacklight, Written
  <2>5. BrightnessShown' /\ BlinkShown'
    BY <2>1, <2>2, <2>4, <1>a DEF BrightnessShown, BlinkShown
  <2>. QED  BY <2>1, <2>3, <2>5, <1>3, <1>e DEF LightsInv
<1>5. ASSUME NEW t \in Threads, WriteBrightness(t) PROVE LightsInv'
  <2>1. /\ UNCHANGED <<asked, g_notify, g_attention, g_lock, call, lcd, blink>>
        /\ pc[t] = "brightness" /\ call[t].device # "backlight"
        /\ pc' = [pc EXCEPT ![t] = "blink"]
    BY <1>5 DEF WriteBrightness
  <2>2. \A u \in Threads : pc'[u] \in {"brightness", "blink"} => u = t /\ pc'[u] = "blink"
    BY <2>1, OneHolder DEF TypeOK
  <2>3. BrightnessShown'
    <3>1. rgb_to_brightness(Shown(call[t].device)) = Wanted.brightness
      BY ShownIsWanted DEF LightsInv
    <3>. QED  BY <1>5, <2>1, <3>1, <1>a DEF WriteBrightness, Written, BrightnessShown
  <2>4. LcdShown'
    <3>1. "lcd" \notin failed' => "lcd" \notin failed
      BY <1>5 DEF WriteBrightness, Written
    <3>. QED  BY <2>1, <3>1 DEF LightsInv, LcdShown, rgb_to_brightness
  <2>5. g_lock' # {}
    BY <2>1 DEF TypeOK
  <2>. QED  BY <2>1, <2>2, <2>3, <2>4, <2>5, <1>e DEF LightsInv
<1>6. ASSUME NEW t \in Threads, WriteBlink(t) PROVE LightsInv'
  <2>1. /\ UNCHANGED <<asked, g_notify, g_attention, lcd, brightness>>
        /\ pc[t] = "blink" /\ Release(t)
    BY <1>6 DEF WriteBlink
  <2>2. BrightnessShown /\ LcdShown
    BY <2>1 DEF LightsInv
  <2>3. BlinkShown'
    <3>1. Shown(call[t].device).flashOnMS = Wanted.blink
      BY ShownIsWanted DEF LightsInv
    <3>. QED  BY <1>6, <2>1, <3>1, <1>a DEF WriteBlink, Written, BlinkShown
  <2>4. /\ "brightness" \notin failed' => "brightness" \notin failed
        /\ "lcd" \notin failed' => "lcd" \notin failed
    BY <1>6 DEF WriteBlink, Written
  <2>5. BrightnessShown' /\ LcdShown'
    BY <2>1, <2>2, <2>4, <1>a DEF BrightnessShown, LcdShown, rgb_to_brightness
  <2>. QED  BY <2>1, <2>3, <2>5, <1>3, <1>e DEF LightsInv
<1>7. CASE UNCHANGED vars
  <2>1. UNCHANGED <<g_notify, g_attention, g_lock, pc, call, lcd, brightness, blink, asked, failed>>
    BY <1>7 DEF vars
  <2>. QED  BY <2>1, <1>b, <1>c, <1>d, <1>e DEF LightsInv
<1>. QED  BY <1>1, <1>2, <1>4, <1>5, <1>6, <1>7 DEF Next

LEMMA InitLights == Init => LightsInv
<1> SUFFICES ASSUME Init PROVE LightsInv
  OBVIOUS
<1>1. rgb_to_brightness(Dark) = 0
  <2>1. Max({0, 0, 0}) \in {0}
    <3>1. \E x \in {0, 0, 0} : \A y \in {0, 0, 0} : x >= y
      OBVIOUS
    <3>2. Max({0, 0, 0}) \in {0, 0, 0}
      BY <3>1, Zenon DEF Max
    <3>. QED  BY <3>2
  <2>. QED  BY <2>1 DEF rgb_to_brightness, Dark
<1>2. asked["attention"] = Dark /\ asked["notifications"] = Dark /\ asked["backlight"] = Dark
  BY DEF Init, Devices
<1>3. Requested
  <2>1. g_notify = Dark /\ g_attention = Dark
    BY DEF Init
  <2>2. Dark.flashMode = "LIGHT_FLASH_NONE" /\ Dark.flashOnMS = 0
    BY DEF Dark
  <2>. QED  BY <1>2, <2>1, <2>2 DEF Requested
<1>4. Wanted = [brightness |-> 0, blink |-> 0]
  BY <1>1, <1>2 DEF Wanted, Dark
<1>. QED  BY <1>1, <1>2, <1>3, <1>4 DEF Init, LightsInv, BrightnessShown, BlinkShown, LcdShown

LEMMA LightsInvCorrect == Spec => []LightsInv
BY InitLights, LightsStep, LightsTypeCorrect, PTL DEF Spec

\* Between the calls the lights show what the calls so far asked for.
THEOREM LightsCorrect == Spec => []LedShowsWanted
<1>1. LightsInv => LedShowsWanted
  BY DEF LightsInv, LedShowsWanted, BrightnessShown, BlinkShown, LcdShown
<1>. QED  BY <1>1, LightsInvCorrect, PTL

\* While attention is shown, no step gives the LED another value.
THEOREM AttentionCorrect == Spec => AttentionUndisturbed
<1>1. TypeOK /\ [Next]_vars =>
        [attn_mode # 0 /\ asked' = asked /\ g_attention' = g_attention
          => /\ brightness' \in {brightness, rgb_to_brightness(g_attention)}
             /\ blink' \in {blink, g_attention.flashOnMS}]_vars
  <2> SUFFICES ASSUME TypeOK, Next, attn_mode # 0
               PROVE  /\ brightness' \in {brightness, rgb_to_brightness(g_attention)}
                      /\ blink' \in {blink, g_attention.flashOnMS}
    OBVIOUS
  <2>1. \A d : Shown(d) = g_attention
    BY DEF Shown
  <2>2. ASSUME NEW t \in Threads, NEW d \in Devices, NEW s \in Requests, Call(t, d, s)
        PROVE  brightness' = brightness /\ blink' = blink
    BY <2>2 DEF Call
  <2>3. ASSUME NEW t \in Threads, Acquire(t)
        PROVE  brightness' = brightness /\ blink' = blink
    BY <2>3 DEF Acquire
  <2>4. ASSUME NEW t \in Threads, WriteBacklight(t)
        PROVE  brightness' = brightness /\ blink' = blink
    BY <2>4 DEF WriteBacklight
  <2>5. ASSUME NEW t \in Threads, WriteBrightness(t)
        PROVE  /\ brightness' \in {brightness, rgb_to_brightness(g_attention)}
               /\ blink' = blink
    BY <2>5, <2>1 DEF WriteBrightness, Written
  <2>6. ASSUME NEW t \in Threads, WriteBlink(t)
        PROVE  brightness' = brightness /\ blink' \in {blink, g_attention.flashOnMS}
    BY <2>6, <2>1 DEF WriteBlink, Written
  <2>. QED  BY <2>2, <2>3, <2>4, <2>5, <2>6 DEF Next
<1>. QED  BY <1>1, LightsTypeCorrect, PTL DEF Spec, AttentionUndisturbed
=============================================================================
