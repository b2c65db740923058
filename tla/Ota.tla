-------------------------------- MODULE Ota --------------------------------
(***************************************************************************)
(* Over-the-air updates (ota.c): two application slots, the console        *)
(* command "ota" with its operations, the tasks it starts, and the timer   *)
(* that takes an application back which nobody confirmed.  The device may  *)
(* be reset between any two steps; the slots and their marks survive.      *)
(*                                                                         *)
(* The marks (otadata) and the bootloader are ESP-IDF's: CONFIG_BOOTLOADER_*)
(* APP_ROLLBACK_ENABLE is set, so that a new image runs on trial and is    *)
(* given up at the next reset if it was not confirmed.                     *)
(***************************************************************************)
EXTENDS Naturals

CONSTANTS Images,   \* what a URL leads to
          Tasks,    \* the update tasks that may exist at once
          Updates,  \* bound: updates asked for
          Resets    \* bound: resets that nobody asked for

ASSUME OtaAssumption == {Updates, Resets} \subseteq Nat

Slots == {0, 1}
Other(s) == 1 - s
Built == "built"   \* the image flashed over USB
Broken == "broken" \* blank, erased, half written or mixed

VARIABLES
    image,         \* what each slot holds
    mark,          \* its ESP_OTA_IMG state; "none" if it has no entry
    boot,          \* the slot of esp_ota_set_boot_partition
    running,       \* the slot that runs
    timer,         \* invalidate_and_reboot_timer is armed
    url, reboot,   \* https_url, reboot_after_update
    task,          \* what each update task does: step, image, undisturbed
    confirming,    \* "ota -C" has marked the slot and not yet stopped the timer
    updates, resets

flash == <<image, mark, boot>>
request == <<url, reboot, updates>>
vars == <<flash, running, timer, request, task, confirming, resets>>

NoTask == [step |-> "none", image |-> Built, alone |-> FALSE]

----------------------------------------------------------------------------
(* ESP-IDF *)

Good(img, s) == img[s] # Broken
Usable(m, s) == m[s] \in {"new", "valid"}

\* The bootloader: an application on trial was not confirmed; the slot set
\* last is tried first, then the other; slot 0 if neither has a usable mark;
\* an image that does not verify is passed over.
AfterTrial(m) == [s \in Slots |-> IF m[s] = "pending" THEN "aborted" ELSE m[s]]
Selected(m) ==
    IF Usable(m, boot) THEN boot ELSE IF Usable(m, Other(boot)) THEN Other(boot) ELSE 0
Runs(img, m) == IF Good(img, Selected(m)) THEN Selected(m) ELSE Other(Selected(m))
OnTrial(m) == [m EXCEPT ![Selected(m)] = IF @ = "new" THEN "pending" ELSE @]

\* Mutant: an application on trial is not one to be taken back.
ArmedIfRefused(m, s) == m[s] \in {"invalid", "aborted"} /\ m[Other(s)] = "valid"

\* init_invalidate_and_reboot_timer.
Armed(m, s) == m[s] # "valid" /\ m[Other(s)] = "valid"

\* A reset with marks m: the bootloader, then ota_init.
Restart(m) ==
    LET n == AfterTrial(m)
    IN /\ mark' = OnTrial(n)
       /\ running' = Runs(image, n)
       /\ timer' = Armed(OnTrial(n), Runs(image, n))
       /\ task' = [t \in Tasks |-> NoTask]
       /\ confirming' = FALSE
       /\ url' = Built /\ reboot' = FALSE
       /\ UNCHANGED <<image, boot, updates>>

\* esp_ota_mark_app_invalid_rollback_and_reboot.
MayRollBack == Usable(mark, Other(running)) /\ Good(image, Other(running))
RollBack == MayRollBack /\ Restart([mark EXCEPT ![running] = "invalid"])

\* esp_ota_set_boot_partition, which verifies the image.
SetBoot(s) == mark' = [mark EXCEPT ![s] = "new"] /\ boot' = s

----------------------------------------------------------------------------
(* The command; the console runs one at a time *)

\* Mutant: "ota -C" leaves the timer alone.
ConfirmOnly ==
    /\ ~confirming /\ mark[running] # "none"
    /\ mark' = [mark EXCEPT ![running] = "valid"]
    /\ UNCHANGED <<image, boot, running, timer, request, task, confirming, resets>>

\* ota -C: esp_ota_mark_app_valid_cancel_rollback, which needs an entry, ...
Confirm ==
    /\ ~confirming /\ mark[running] # "none"
    /\ mark' = [mark EXCEPT ![running] = "valid"]
    /\ confirming' = TRUE
    /\ UNCHANGED <<image, boot, running, timer, request, task, resets>>

\* ... then esp_timer_stop.
StopTimer ==
    /\ confirming
    /\ timer' = FALSE /\ confirming' = FALSE
    /\ UNCHANGED <<flash, running, request, task, resets>>

\* ota -R.
AskRollBack == ~confirming /\ RollBack /\ UNCHANGED resets

\* ota -S: the other slot is booted next; there is no reboot.
Switch ==
    /\ ~confirming /\ Good(image, Other(running))
    /\ SetBoot(Other(running))
    /\ UNCHANGED <<image, running, timer, request, task, confirming, resets>>

\* ota -u <url> [-r]: the URL and the flag are everybody's; nothing asks
\* whether a task runs already (ota_task_running is never set).
AskUpdate ==
    /\ ~confirming /\ updates < Updates /\ updates' = updates + 1
    /\ \E i \in Images, r \in BOOLEAN : url' = i /\ reboot' = r
    /\ \E t \in Tasks : task[t] = NoTask /\ task' = [task EXCEPT ![t].step = "start"]
    /\ UNCHANGED <<flash, running, timer, confirming, resets>>

----------------------------------------------------------------------------
(* ota_task: esp_https_ota, step by step *)

\* Mutant: the staging partition is the one that runs.
StagingRunning == running

\* ota_config.partition.staging, esp_ota_get_next_update_partition.
Staging == Other(running)

Only(t, step, s) == task[t].step = step /\ task' = [task EXCEPT ![t].step = s]
End(t) == [task EXCEPT ![t] = NoTask]

\* The connection is made to the URL that is there now, and the slot erased,
\* unless the running application is on trial; what another task has
\* written is lost.
Begin(t) ==
    /\ task[t].step = "start" /\ mark[running] # "pending"
    /\ task' = [u \in Tasks |->
                  IF u = t THEN [step |-> "write", image |-> url, alone |-> TRUE]
                  ELSE [task[u] EXCEPT !.alone = FALSE]]
    /\ image' = [image EXCEPT ![Staging] = Broken]
    /\ UNCHANGED <<mark, boot, running, timer, request, confirming, resets>>

\* The rest of the image is written.
Write(t) ==
    /\ task[t].step = "write"
    /\ image' = [image EXCEPT ![Staging] = IF task[t].alone THEN task[t].image ELSE Broken]
    /\ task' = [u \in Tasks |-> IF u = t THEN [task[t] EXCEPT !.step = "finish"]
                                ELSE [task[u] EXCEPT !.alone = FALSE]]
    /\ UNCHANGED <<mark, boot, running, timer, request, confirming, resets>>

\* The image verifies: it is booted next.
Finish(t) ==
    /\ Good(image, Staging) /\ Only(t, "finish", "done")
    /\ SetBoot(Staging)
    /\ UNCHANGED <<image, running, timer, request, confirming, resets>>

\* esp_https_ota has failed: the connection, or the image does not verify,
\* or the running application is on trial.
Fail(t) ==
    /\ \/ task[t].step = "start"
       \/ task[t].step = "write"
       \/ task[t].step = "finish" /\ ~Good(image, Staging)
    /\ task' = End(t)
    /\ UNCHANGED <<flash, running, timer, request, confirming, resets>>

\* It has succeeded: the flag says what now.
Done(t) ==
    /\ task[t].step = "done"
    /\ IF reboot THEN Restart(mark)
       ELSE task' = End(t)
            /\ UNCHANGED <<flash, running, timer, request, confirming>>
    /\ UNCHANGED resets

----------------------------------------------------------------------------

\* invalidate_and_reboot: the timer fires; it may fail.
TimerFires ==
    /\ timer
    /\ \/ RollBack
       \/ ~MayRollBack /\ timer' = FALSE /\ UNCHANGED <<flash, running, request, task, confirming>>
    /\ UNCHANGED resets

Reset ==
    /\ resets < Resets /\ resets' = resets + 1
    /\ Restart(mark)

Init ==
    /\ image = [s \in Slots |-> IF s = 0 THEN Built ELSE Broken]
    /\ mark = [s \in Slots |-> "none"]
    /\ boot = 0 /\ running = 0 /\ timer = FALSE
    /\ url = Built /\ reboot = FALSE /\ updates = 0
    /\ task = [t \in Tasks |-> NoTask]
    /\ confirming = FALSE /\ resets = 0

TaskStep(t) == Begin(t) \/ Write(t) \/ Finish(t) \/ Fail(t) \/ Done(t)

Next ==
    \/ Confirm \/ StopTimer \/ AskRollBack \/ Switch \/ AskUpdate
    \/ \E t \in Tasks : TaskStep(t)
    \/ TimerFires \/ Reset

Spec == Init /\ [][Next]_vars

\* The tasks run and the timer fires; commands and resets come as they like.
FairSpec == Spec /\ WF_vars(TimerFires) /\ WF_vars(StopTimer) /\ \A t \in Tasks : WF_vars(TaskStep(t))

----------------------------------------------------------------------------
(* Properties *)

Marks == {"none", "new", "pending", "valid", "invalid", "aborted"}

\* Types of the variables.
TypeOK ==
    /\ image \in [Slots -> Images \cup {Built, Broken}]
    /\ mark \in [Slots -> Marks]
    /\ boot \in Slots /\ running \in Slots
    /\ timer \in BOOLEAN /\ reboot \in BOOLEAN /\ confirming \in BOOLEAN
    /\ url \in Images \cup {Built}
    /\ task \in [Tasks -> [step : {"none", "start", "write", "finish", "done"},
                           image : Images \cup {Built}, alone : BOOLEAN]]
    /\ updates \in 0 .. Updates /\ resets \in 0 .. Resets

\* Whenever power fails, a complete image is booted, even with two update
\* tasks at work on one slot (l. 171-193), and an application on trial has a
\* complete one to go back to.
AlwaysBoots ==
    /\ Good(image, Runs(image, AfterTrial(mark)))
    /\ mark[running] = "pending" => Good(image, Other(running))

\* No command, task or reset leaves a node that does not boot.
Inv == TypeOK /\ AlwaysBoots

\* Once "ota -C" has returned, the timer is off and the application is left
\* only for one that the user put in the other slot since, or at his
\* "ota -R" (l. 128-142, 299-306).
ConfirmedStays ==
    [][mark[running] = "valid" /\ ~confirming =>
          /\ ~timer
          /\ running' # running => mark[Other(running)] = "new" \/ AskRollBack]_vars

\* What makes Inv and ConfirmedStays inductive: the slot that runs is never
\* written or newly marked, nothing is written during a trial, and a slot
\* that was set but does not run was never confirmed.
IInv ==
    /\ TypeOK
    /\ Good(image, running)
    /\ mark[running] # "new"
    /\ mark[running] = "pending" =>
          Good(image, Other(running)) /\ \A t \in Tasks : task[t].step # "write"
    /\ running # boot => mark[boot] # "valid"
    /\ timer => mark[running] # "valid" \/ confirming

\* The device does not stay with an application that is not confirmed while
\* the other slot has one that is (l. 302-306).
TrialEnds == []<>(mark[running] = "valid" \/ mark[Other(running)] # "valid")
=============================================================================
