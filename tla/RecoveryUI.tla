----------------------------- MODULE RecoveryUI -----------------------------
(***************************************************************************)
(* What the recovery's user interface asks of the device                   *)
(* (recovery/recovery_ui.c): the input thread calls device_reboot_now for  *)
(* each key that is pressed, the main thread device_handle_key,            *)
(* device_perform_action and device_wipe_data, which calls                 *)
(* bp_master_clear.  The menu, what it shows and the reboot are external.  *)
(***************************************************************************)
EXTENDS MasterClear

Keys == {"KEY_END", "KEY_VOLUMEUP", "KEY_VOLUMEDOWN"}
Items == {"ITEM_REBOOT", "ITEM_APPLY_SDCARD", "ITEM_WIPE_DATA", "ITEM_WIPE_CACHE"}

VARIABLES
    presses,        \* of device_reboot_now
    rebooted,
    wiping,         \* the main thread is in device_wipe_data
    hasBp           \* ro.carrier is not "wifi-only"

inputVars == <<presses, rebooted>>
uiVars == <<inputVars, wiping, hasBp>>
allVars == <<vars, uiVars>>

UIInit ==
    /\ Init
    /\ presses = 0 /\ rebooted = FALSE /\ wiping = FALSE
    /\ hasBp \in BOOLEAN

device_reboot_now(key) ==
    /\ presses' = IF key = "KEY_END" THEN presses + 1 ELSE 0
    /\ rebooted' = (presses' = 5)

\* The input thread, for a key pressed.
Press(key) ==
    /\ ~rebooted
    /\ device_reboot_now(key)
    /\ UNCHANGED <<vars, wiping, hasBp>>

device_handle_key(key, visible) ==
    CASE ~visible -> "NO_ACTION"
      [] visible /\ key = "KEY_VOLUMEDOWN" -> "HIGHLIGHT_DOWN"
      [] visible /\ key = "KEY_VOLUMEUP" -> "HIGHLIGHT_UP"
      [] visible /\ key = "KEY_END" -> "SELECT_ITEM"

\* The main thread takes a key that was pressed, now or earlier, while the menu is
\* visible or not, and performs the item that is highlighted if it is selected.
\* Only the wipe is the device's, and only with a baseband.
Select(key, visible, item) ==
    /\ ~rebooted /\ ~wiping
    /\ device_handle_key(key, visible) = "SELECT_ITEM"
    /\ item = "ITEM_WIPE_DATA" /\ hasBp
    /\ Call /\ wiping' = TRUE
    /\ UNCHANGED <<inputVars, hasBp>>

\* device_wipe_data returns 0 whatever bp_master_clear returned.
WipeDone ==
    /\ ~rebooted /\ wiping /\ pc = "idle" /\ wiping' = FALSE
    /\ UNCHANGED <<vars, inputVars, hasBp>>

Clear == ~rebooted /\ Steps /\ UNCHANGED uiVars
ClearReadFails == ~rebooted /\ (ReadFails \/ ReadEnds) /\ UNCHANGED uiVars

UINext ==
    \/ \E key \in Keys : Press(key)
    \/ \E key \in Keys, visible \in BOOLEAN, item \in Items : Select(key, visible, item)
    \/ WipeDone \/ Clear \/ ClearReadFails
    \/ ~rebooted /\ Baseband /\ UNCHANGED uiVars

UISpec == UIInit /\ [][UINext]_allVars

\* The main thread is scheduled; reads may fail, but need not.
UIFairSpec == UISpec /\ WF_allVars(Clear) /\ WF_allVars(WipeDone)

-----------------------------------------------------------------------------
(* Properties.                                                             *)

\* A master clear that was begun returns, crashes, is cut off by a reboot, or
\* waits in read, which has no time-out: the tries to connect are bounded.
CallEnds == []<>(pc \in {"idle", "crashed", "read"} \/ rebooted)
=============================================================================
