# Verification of pychron: extraction line, executor, scripts, measurement

Pychron runs a noble gas laboratory: it opens and closes the valves of an
extraction line, and it executes queues of analyses ("automated runs"), each of
which extracts gas from a sample, measures it in a mass spectrometer and saves
the result in a database and a git repository. This directory holds TLA+
specifications of the parts that decide what happens to the hardware and to the
data: the valve switch manager, the flags with which two spectrometers share a
line, what the line keeps in files, its status monitor and a client's copy of it,
the experiment executor, the scripts and the waits they sleep in, and the
measurement of a run; with the runs of the model checker and the proofs about
them. Paths below are relative to `src/pychron/`.

## The system

### Inventory

| Part | State it keeps | Operations | Hard to get right |
|---|---|---|---|
| Switch manager (`extraction_line/switch_manager.py`, `hardware/switch.py`, `hardware/valve.py`, `hardware/actuators/`) | per switch: recorded state, software lock, enabled, owner; files of locks and manual states | open, close, children, sample, lock, unlock, owners, poll, state words | no lock around check and actuation; readers overwrite states; actuation that fails half way |
| Extraction line manager (`extraction_line/extraction_line_manager.py`) | the update timer, `check_master_owner`, the status monitor's clients | open/close_valve, lock/unlock_valve, enable/disable_valve, sample, cycle, the timer | callers are threads: operator, scripts, remote clients, equilibration |
| Pipette trackers (`extraction_line/pipettes/tracking.py`) | count, shot loaded, a file | check_shot, load, dump | order of openings, restarts |
| Client switch manager, remote valve protocol (`extraction_line/client_switch_manager.py`, `tx/protocols/base_valve.py`) | a client's copy of states, locks, owners | state words, lock words | stale copies, partial words |
| Files of the line (`switch_manager.py`, `pipettes/tracking.py`) | locks, manual states, shots, actuations, each in a file | save, load at the start, with a canvas or with the window | emptied and rewritten in place; crashes; two threads on one file |
| Status monitor (`extraction_line/status_monitor.py`) | clients, stop event, thread | start, stop, poll | a stop event replaced under a running thread; a stop between two halves of a start |
| Flags (`hardware/flag.py`, `tx/protocols/base_valve.py`) | flag, time of the last ping, monitor thread, one shot timers | set, clear, get, ping | a monitor or a timer that outlives the set it was started for |
| Script runner (`pyscripts/extraction_line_pyscript.py`, `extraction_line/pyscript_runner.py`) | the flag acquired last, the ping loops | acquire, wait, release, set and get of a resource | test and set in two messages to another computer; lost messages; a system that dies |
| Executor (`experiment/experiment_executor.py`) | alive, canceled, aborted, end at completion, extracting and measuring run, save event, exception queue | execute, cancel, abort, stop, the loop over runs | everything: threads of runs, savers, dialogs, no lock |
| Automated run (`experiment/automated_run/automated_run.py`) | state, alive, aborted, measured, overlap event | start, extraction, measurement, post measurement, save, cancel, abort, finish | terminated while its scripts run; two overlapping |
| Data collectors (`experiment/automated_run/data_collector.py`, `multi_collector.py`, `peak_hop_collector.py`) | alive, canceled, terminated, truncation, an event, the count | measure, stop, the checks of an iteration | stopped by other threads between any two steps |
| Script engine (`pyscripts/pyscript.py`) | cancel, abort, truncate and completed flags, the gosub under way, its wait control | execute, gosub, sleep, cancel, abort, exit | a cancel between a script and the one it calls |
| DVC persister (`dvc/dvc_persister.py`) | files, repository | post_measurement_save in a thread | fails half way, reports, clears the event |
| Wait controls (`core/wait/`, `core/helpers/timer.py`) | timer, event, paused; the group and its active control | start, join, stop, continue, pause, pop | stop against the start and the end of the timer |
| Consumers, communication scheduler (`consumer_mixin.py`, `hardware/core/communicators/scheduler.py`) | a queue; a lock | add, consume; request | |
| Spectrometer, lasers, furnaces, dashboard, data reduction, entry, GUI | device drivers, numerical data, forms | | no protocol of their own to check |

Interaction: an operator's click, a script and a remote client call the extraction
line manager from threads of their own; it checks the owner and calls the switch
manager, which checks interlocks on the *recorded* states and has the switch
actuate its channel. The update timer and remote queries write the recorded
states from the hardware. The executor's thread takes runs from the queue, does
a run itself or gives it a thread, and shares `extracting_run`, `measuring_run`,
`alive`, `_aborted`, an event and a queue of exceptions with these threads, with
the saver threads and with the user interface, without a lock. A run's scripts run
on the run's thread, save the post equilibration, which has its own; a script that
sleeps takes a control of the executor's wait group, whose timer is a further
thread, and which the executor and the user can end. A measurement script calls the
run, which calls one of its two collectors; the operator's cancel, abort and
truncation look the collector up from another thread. Scripts on other computers
reach the flags of the line by messages, one at a time.

### What makes each part correct

* Switch manager: interlocked valves are never open together; a valve with positive
  interlocks opens only when they are open; the recorded state is the valve's; a
  valve owned by someone else is not moved; a checked actuation is believed only
  when read back; polling repairs what faults spoilt.
* Pipettes: a counted shot was loaded, and a load is counted once, unless openings of the
  outer valve overlap.
* Files: locks, manual states and counts survive a restart and a crash; a start fails
  only after a save was cut off.
* Status monitor and client: while someone wants the monitor it runs, and when nobody
  does it ends; the copy of a client comes to the line's states and locks.
* Executor: one extraction at a time; one save at a time; a queue ends; a fatal
  exception or a cancel stops it; overlapped runs are waited for.
* Scripts: a canceled script does not count as completed; every wait can be ended and
  ends; a stop of the executor reaches who waits.
* Measurement: a stop takes effect within one count; a run is saved if and only if
  nothing stopped it; one that is called a success has all its counts; the measurement ends.
* Flags: a flag that is held stays set, one whose holder died is cleared; no script
  waits for ever for the other system.

## The modules

### `SwitchManager.tla` (with `ValveLine.tla`, `MCSwitchManager.tla`)

One state machine for the switch manager, the calls of the extraction line manager
and the pipette trackers. `state` is what the program believes, `phys` where the
valve is. A call of a thread goes through `pc`:

    idle -> check -> act -> sent -> moved | noack -> (next child) check ... -> idle

and after an opening, before its children, through `shot -> (count -> clear)`.

| Action | Code |
|---|---|
| `Request` | `open_valve`, `close_valve`, `_open_close_valve`, `_check_ownership` |
| `InterlockRefuses`, `InterlockAllows` | the checks of `_open_` and `_close_` |
| `NotEnabled`, `SoftwareLocked`, `SoftwareLockedRaises` | the early ends in `_actuate_` and `Switch._actuate_state`; `_software_locked` exists for `HardwareValve` only |
| `ActuateManual`, `Command` | `ManualSwitch`, `Switch._act` |
| `HardwareMoves` | the actuator; `Faults` allows a refusal, a stuck valve, a lost acknowledgement |
| `ActuationSucceeds`, `ActuationFails` | `GPActuator.actuate`, `_check_actuate`, then the recording |
| `LoadShot`, `PassShot`, `FindShot`, `CountShot`, `ClearShot`, `ShotsShown` | `check_shot` of one tracker after the other until one takes the opening: the test, `_increment` and the clearing are steps of their own, as nothing locks them, and of two additions at once one can be lost |
| `NextCall` in all of these | `actuate_children`: only after a success, one child after another, in any order (the order of the dictionary) |
| `ReadState`, `RecordState` | the update timer (`load_hardware_states`) and the remote query (`_get_state_by`), a step each for the reading and the writing |
| `SetLock`, `SetOwner`, `SetEnabled` | `_lock_valve`, `load_valve_owners`/`set_valve_owner`, `_enable_valve` |

Abstractions: names of switches are model values (lookup by description or address
is left out); `sample` and `cycle` are sequences of the calls; settling times are
the time between steps; a switch has one channel; state words are `ClientLine`'s,
files and the actuation counter `SwitchStore`'s. `shown` is the tracker a thread is at;
`loads` and `doubled` are histories, of the openings of the inner valve and of those of
the outer one that found a load which another opening was about to clear. `force` changes nothing of the control (the
argument it feeds is not used by `_act`).

`ValveLine.tla` is the abstract specification: valves move one at a time, each only
while its interlocks are closed and, to open, its positive interlocks are open,
check and move in one step. `LineSpec` says that `SwitchManager` implements it,
with `phys` as `phys`.

### `SwitchStore.tla` (with `MCSwitchStore.tla`)

What the switch manager keeps in files, and the starts, ends and crashes of the program.
`mem` is what the program holds of each of the four files, `file` what is written in
it, `health` whether there is one and a whole one. A call that saves goes
`open -> take -> close`: opening for writing empties the file, the values are taken
from memory after it, and reach the file with the closing.

| Action | Code |
|---|---|
| `Start`, `Load` | `finish_loading`: actuations, locks and manual states in turn; what an empty file raises nobody catches |
| `Crash`, `Down`, `Quit`, `CloseLocks`, `CloseManual` | the end of the process; `kill` of the hardware plugin, which saves locks, then manual states |
| `Lock`, `ScriptLock` | `set_software_lock`, which saves; `_lock_valve` of scripts and remote clients, which does not |
| `Move`, `Inner`, `Outer`, `Ask("actuate")`, `CountActuation` | `ManualSwitch` in `_actuate_`, `check_shot`, `_update_actuation_tracker` |
| `Ask("canvas")`, `Ask("activate")`, `ReadFails`, `ReadNothing`, `Read`, `Apply` | `new_canvas` with the locks, `reload_canvas` with the shots |
| `Open`, `Take`, `Close` | the `_save_` functions and `dump` |

Abstractions: one pipette, one counter of actuations; the timestamps beside the
counts and the older file formats are left out; the configuration asks for all three
loads; a loop that applies what was read is one step. A program that crashes loses
what it holds and no file that is closed.

`kept` is a history: the values a file may hold after the calls so far, those of a call
that is not over included; a lock from a script, which is not saved, leaves both its
values possible until the next save. `overlap` is another: a call was begun while another
was under way. `Kept` is about the time before that, and leaves out shots counted before the window was
activated (`early`): the activation reads the file over the count, which is what the
order of the program's windows prevents.

### `StatusMonitor.tla` (with `MCStatusMonitor.tla`)

The status monitor of a client: callers start and stop it, each in a thread of its own,
and every start that finds no client makes an event and a thread.

| Action | Code |
|---|---|
| `Request` | `_activate_hook`, `deactivate` and the executor's `setup_status_monitor` |
| `TakeOff`, `Alone` | `stop`: the list, then the event of the last one |
| `Look`, `Launch`, `Enlist`, `PutOn` | `start`: the old event is set and a sleep follows, the new event and thread, the list |
| `Refreshed` | `refresh_states` after a set up, three loads on the caller's thread |
| `Wake`, `Past`, `Skip`, `EndIteration` | `_run` and `_iter` with their three frequencies and the two looks at the event |

Abstractions: all callers have one id, as in the code (`id(self)` of the manager);
sleeps have no length, so a thread may be busy over a stop and the next start; the
checksum at the end of an iteration is only logged. `overlap` is a history, as in
`SwitchStore`: `Watched` is about the time before calls overlap.

### `ClientLine.tla` (with `MCClientLine.tla`)

A client's copy of the line's switches, kept by `StatusMonitor`, which it extends:
each load becomes an answer and its use. The line's computer is the values of its
switches and the words it makes of them.

| Action | Code |
|---|---|
| `Change` | any other caller at the line's computer |
| `Command`, `Record` | `PychronGPActuator.actuate` and the recording in `Switch._actuate_state` |
| `LockHere` | a lock at a client, which is the client's only and not saved |
| `AskWhole`, `AskPart` | `get_state_word`, `get_lock_word`, `get_owners_word`, `_make_word` and its timeout, `_parse_word`, `_validate_checksum` |
| `Use` with `Moved`, `Move`, `Set` | `load_valve_states`, which goes through the switches one after another and where one that differs takes its children with it; `load_valve_lock_states`, `load_valve_owners` |

Abstractions: a word is the function from the switches it names to their values; names
have one character, as in the parser's examples; a word that is lost or damaged is
empty; that a client leaves alone the owner of a switch which is its own
(`load_valve_owners`) is left out, with the owners of which no property speaks.

### `QueueExecutor.tla`

The executor's loop on one queue (`xpc`), the thread of every run (`run[r].pc`), the
saver and the equilibration of every run, and the operator.

| Actions | Code |
|---|---|
| `LoopEnds`, `TakeRun`, `Pause`, `DelayOver`, `SaveCleared`, `SaveTimesOut`, `MakeFails`, `MakeRun` | `_execute_queue`, `_wait_for_dvc_save`, `_make_run` |
| `StartThread`, `WaitForOverlap`, `OverlapOver` | the overlapped run: `_wait_for(extracting_run)`, the thread, `wait_for_overlap` |
| `JoinRun`, `JoinCrashes`, `Drained` | `_join_run`, the last wait |
| `BeginRun`, `CheckStep` | the head of `_do_run` and of its step loop |
| `Start`, `StartFails`, `StepCheckTrips`, `Extract*`, `PumpWait*`, `Measur*`, `PostMeasur*` | `_start`, `_pre_step_check`, `_extraction`, `_measurement`, `_post_measurement` and the run's own methods |
| `Judge`, `Save`, `MarkSaving`, `PostRunCheckCancels`, `FinishRun` | the rest of `_do_run` |
| `SaverReports`, `SaverDone`, `SaverDies` | `post_measurement_save` in its thread |
| `AskCancel`, `ConfirmCancel`, `DeclineCancel`, `AbortRun`, `SetEndAt` | `stop_run`, `stop`, `_cancel`, `abort_run`, `end_at_run_completion` |

`is_alive` is not a question but a step: it takes one exception off the queue, and
the action that asks does it with `AskAlive` (`stop_run`, `abort_run` and the pause
ask twice, `TakeExceptions(2)`). A script is a state of its run (`extracting`,
`measuring`, `posting`) in which anything else may happen; it ends completed, with a
failure out of `Faults`, or, when canceled, failed. An aborted script reports
success, as the script engine does. A run's record holds `_alive`, `_aborted`,
`_measured`, `spec.state`, the overlap event and its own copy of the pump time.

Abstractions: one queue, no run is skipped; every run has extraction and
post-measurement scripts, `Unmeasured` have no measurement script; delays end at
any time; what checks and conditionals decide is a choice (`"prerun"`, `"trip"`);
the automated run monitor is absent; truncation, `end_after` of a spec, repeat
actions and edits of the queue are left out; the overlap delay is part of the wait
for its signal; a termination (cancel, abort) with its post-measurement script is
one step. `Drained` leaves out that, at an end at completion, a special run that is still in
extraction is canceled instead of waited for; it waits for it like any other, which makes
`QueueEnds` the harder.

### `RunQueue.tla`

The abstract specification of the executor: runs begin in the queue's order, each
once, and only while every run still at work is one that overlaps. `QueueOrder` in
`QueueExecutor` instantiates it with the runs whose thread has begun and those whose
thread is not over. Order and exclusion are what the loop, the threads, the save
waits and the operator together have to keep; how they do it is `QueueExecutor`'s.

### `ScriptWaits.tla` (with `MCScriptWaits.tla`)

Scripts with a thread each, one level of gosub, and the wait controls. A thread goes
through `pc`:

    idle -> boot -> body -> asked -> placed -> signal -> install -> settle -> join -> forget
         -> leave -> drop -> last -> body ... judged -> done      (-> pop -> select -> over)

| Action | Code |
|---|---|
| `Execute`, `ResetFlags`, `Fail`, `Judge`, `Finish` | `execute`, `_execute`: it takes back a cancel, not an abort; the look at `_cancel` and the setting of `_completed` are two steps; an aborted script counts as completed |
| `Sleep`, `Choose`, `Activate` | `sleep`, `_sleep`; `_setup_wait_control` under the block lock: the control `get_wait_control` gives is put into the group, then made the active one |
| `Signal`, `Install`, `Arm` | `WaitControl.start`, in its three steps: the old event is set, a new one takes its place, the old timer is told to stop and waited for |
| `Joined`, `Forget` | `join`, and the end of `start` |
| `Leave`, `Drop`, `PopLast`, `Reselect` | `WaitGroup.pop`: the look at the length, the removal, the new active control; of a script with its control, and without one of the executor at the end of a run, whose last script is one of `Closing` |
| `Gosub`, `Return`, `Exit` | `gosub`, which looks at `_cancel` only, and its end; `exit` |
| `TimerStarts`, `Elapse` | the one-second delay of `Timer`, after which it clears its own flag, and `_update_time` at zero |
| `StopGroup`, `StopNext` | `WaitGroup.stop`: one control after another, by its place in the list as it then is |
| `Cancel`, `Abort`, `Continue`, `Pause` | `cancel`, `abort`, the buttons of the control |

Abstractions: durations are left out (a timer that runs may end at any time);
sleeps of up to a second, which use no control, are part of the steps around them;
`truncate` is always called with a style, which leaves `_truncate` as it is, so that
flag is no variable; a timer that is replaced is gone at once. In the code one that is replaced within its first
second clears its flag and counts on beside the new one, so that the next wait may end before
its time, as by the continue button; that a wait has an end is what the properties are about.
One stop of the group goes on at a time. A cancel of a script after a sleep still ends whoever uses the
control now (`mine` stays), as in the code. The executor's own waits between runs take
controls of the same group; they are left out.

The group is a list that nothing guards, save that one script at a time chooses a control.
`races` is a history of the ways in which threads can meet in it, each of which happens
in the run:
`shared`, a script was given the control another was still at; `popped`, the end of a run
took the control of a script out of the group; `twice`, one thread was about to take a
control out as another looked whether it may; `skipped`, a script that a stop had woken took
its control out of the list, and the one whose turn it was slipped into the place the stop
had passed. `awaited` is who was joined when the stop began. The properties say of each which of them
it takes to break them.

### `Measurement.tla` (with `MCMeasurement.tla`)

The measurement script of one run, from `do_measurement` to the save, with its two
collectors. The thread goes through `step -> boot -> command`, for each command
`called -> setup -> measure -> arm -> loop -> check -> hop -> acquire -> loop ... after`,
and `measured` or `failed -> over`.

| Action | Code |
|---|---|
| `StartMeasurement`, `Boot`, `Call`, `Skip`, `Enter` | `do_measurement`, `_execute`, the commands of `measurement_pyscript.py` and `py_data_collection`, `py_baselines`, `py_peak_hop` |
| `Setup`, `Return`, `Terminate`, `Cancel`, `EndCancelQueue` | `_measure`, with `is_peak_hop` set and reset |
| `Measure`, `Arm`, `Loop`, `CheckCounts`, `Trip`, `Trigger` | `DataCollector.measure`, `_measure`, `_check_iteration`, `_pre_trigger_hook` |
| `Acquire`, `Missing`, `Garbled`, `Retry`, `GiveUp`, `EndGiveUp` | `_iteration`, `_get_signal` and `_data_generator`: a count; one that lacks a detector, for which the collector cancels itself; an answer of which `_iteration` catches the exception; none, and too often none, or intensities that do not change |
| `ValveFails`, `EndValveFails` | `_equilibrate` with an inlet or outlet that does not move |
| `BeginCancel`, `EndCancel`, `Stop`, `Finished`, `Save`, `Judge` | `cancel_run` in its two halves, with scripts of any length between; `stop`, `finish`, `save`; the end of `_do_run` |
| `OperatorCancel`, `OperatorAbort`, `OperatorEnds`, `TruncateRun`, `ChangeCounts` | `_cancel`, `abort_run`, `truncate_run`, the counts of the plot panel |

Abstractions: intensities, fits and isotopes are left out, a conditional trips by
choice (`Trips`); a measurement has its kind and its number of counts; settling of a
peak hop is a count that is not kept; hops of baselines, which raise at their first
use, are left out, save that a detector may be missing in a collection; a shortened number
of counts is a whole number, which the count, a whole number itself, passes at the same
iteration as the fraction; the operator acts until the script is over, what he does after it
is `QueueExecutor`'s. `seen` is a history: whether anything stopped the run (`stopped`),
when a stop was told and the counts after it (`told`, `late`), whether an action or an
answer without sense ended the collection at hand (`cut`), and whether a multicollection
that was not cut in one of these ways was left before its last count (`short`).

### `ResourceFlags.tla` (with `MCResourceFlags.tla`)

The flags a line's computer serves and the scripts of the systems that share it.
A script is a list of commands, of which only those about flags are kept.

| Action | Code |
|---|---|
| `SetFlag`, `ClearFlag`, `SetTimed`, `MonitorFires`, `TimerFires` | `Flag.set`, `clear`, `_monitor`, `TimedFlag.set`; `orphan` is a monitor whose event was replaced by a later set |
| `KeepWaiting`, `WaitOver` | `wait`: one read, then a loop that looks at nothing but the answer |
| `Acquire`, `AskFlag`, `Claim` | `acquire`, with and without `clear`: the question and the set are two messages; for a flag that is set the loop raises |
| `Release`, `Unless`, `SetPump` | `release`; `get_resource_value` and what the script does with the answer; `set_resource` |
| `Cancel` | `_cancel_hook`: the flag acquired last is cleared |
| `Die`, `Tick` | a system that ends; one period of the ping loops, of which some get lost |
| `StartRun`, `EndScript` | a run, whose post equilibration follows also a canceled extraction |

`MCResourceFlags` gives the programs: the documented scripts of Felix and Jan for the
minibone (`../docs/user_guide/operation/scripts/examples/helix/extraction/`), save that Jan
acquires without `clear` as the scripting guide shows it. Abstractions: time is a tick in which each ping is due; reads are
one message with an answer or none, and none is taken for a zero (`RemoteResource.read`), in a
wait, before an acquire and before a release; a message that sets or clears a flag arrives;
the ping loop of a timed flag is left out, which clears itself before its monitor would;
`left` is a history: the flags whose release such a read made a script skip; owners' labels of a valve flag change no state of
their own and are left out.

## The runs

A cfg that sets `CHECK_DEADLOCK FALSE` is of a system that stops: the bound on calls
or runs is used up, the queue is over, or the script is.

| Run | Bounds | Shows |
|---|---|---|
| `switch_groups` | 5 switches in two groups, one caller each, 4 calls, refusals, C and D managed | `TypeOK`; `InterlockSafety`; `RecordedState`: recorded and real state differ only between move and recording; `LineSpec` |
| `switch_polling` | a pipette of 2 polled switches, the outer one inverted, both callers on it, 3 calls, refuse/stuck/lost_ack | `ShotAccounting`: no shot is counted that was not loaded, and none twice but for openings that overlap; `PollHeals`: once calls stop, polling makes the states right and they stay right |
| `interlock_race` | 2 interlocked switches, 2 callers, 2 calls | `InterlockSafety` fails on a shared line |
| `store_restart` | 1 valve, 1 manual switch, 2 callers (the user interface; scripts), 4 calls, 1 crash | `TypeOK`; `StartsClean`: a start fails only after a save was cut off; `Kept`: the program holds what was left, as long as no calls have overlapped |
| `monitor_calls` | 2 callers, 3 calls | `MonitorTypeOK`; `Silenced`: when the last client has left, the event is set, whatever overlaps; `Watched`: while there is a client the monitor runs, as long as no calls have overlapped; `ThreadsEnd`: when the last client has left, every thread ends |
| `client_copy` | a switch and its child, one call of the monitor, 2 changes, commands or locks at the client | `TypeOK`; `CopyFollows`: states and locks of the copy come to the line's and stay |
| `queue_sequential` | 3 runs, none overlapping, the last without measurement, overlapping saves, all faults, 2 acts of the operator | `TypeOK`; `SaveSerial`; `QueueEnds` |
| `queue_overlap` | 4 runs, the first three with an overlap, the third not an unknown and so joined; failures, trips, non-fatal exceptions, 1 cancel or end | `OneExtraction`; `QueueOrder` |
| `pump_wait` | 2 overlapped runs, no fault | `PumpWaitEnds` fails |
| `script_waits` | 2 scripts and their gosubs, one of which ends the run, 2 and 1 calls, 3 controls, 1 act | `TypeOK`; `CanceledIncomplete`; `StopReaches`: whoever waits can be found, and a stop tells whoever waited when it began; `Wakes`: whoever waits has a timer that counts; `GroupKept`: the group keeps a control, the active one; `ScriptEnds` |
| `flags_minibone` | 2 systems, 3 flags, timeout and duration of 1 tick, 1 lost ping, reads with and without answer, cancels, 3 runs, 1 death | `TypeOK`; `KeptWhileHeld`; `ScriptsEnd`: every script ends that does not wait for ever for a flag whose release was skipped |
| `measure` | 3 commands (multicollection of 2, peak hop of 2, multicollection of 4), threshold 2, every kind of conditional, failures, 3 acts | `TypeOK`; `SavedUnlessStopped`: saved if and only if nothing stopped the run; `SuccessIsFull`: a success has all its counts, unless an action or an answer without sense ended a collection; `StopObeyed`; `MeasurementEnds` |

Why the bounds are enough. A race of the valve protocol takes two calls, a child a
third; four calls let each group open, fail, close and open again. A poll needs one
call to be stale about; the second shows a stale value written over a later move. A load
and two openings of the outer valve are the three calls in which one load is counted twice.
A file
is spoilt by a call, lost by a crash and found by a start; four calls and a crash let a
count be saved, cut off by the crash and saved again, while another thread saves beside
it. A start and a stop overlap in two calls, a third tells whether the threads they
leave end; the count of iterations
starts again after two (`Wrap`), with frequencies of one and two. The copy goes wrong
by a word that is older than a change and a parent that takes a child with it, so a
child that comes before its parent and two changes are enough.
In the executor a run interacts with the one before (its save, its overlap, its
pump time) and the one after; four runs give two that overlap in a row, one joined
behind them and one that follows a joined one. Two acts of the operator are a cancel
with an abort or an end beside it. A script waits in one control at a time and its
gosub in another; two calls let it sleep and call, or sleep twice, while the script beside
it sleeps once. Of three controls each of the two threads is at one at most, and one more is the
active one, so they are not used up: a script is given the active control, and a new one only if the
timer of that runs. One act meets every step of a wait; the
theorems are about any number of scripts, calls and acts. For the flags a tick is the
period of a ping, so a timeout of one tick and one lost ping are the smallest ratio at
which a flag may outlive a loss; three runs let one system come back while the other
is at work. A measurement needs a second collection after a stopped one (stops may
be kept for it), a hop between two collections with the other collector, and one
longer than the threshold that the conditionals wait for.

`QueueEnds` admits one end that is not one: the last wait stands on
`extracting_run` of a run that was over before its extraction, because only
`_extraction` resets that attribute and an abort or an exception can leave the step
loop before it. It holds for queues without overlaps; with them the pump-time wait
and the revived run of `wait_for_overlap` can hold the executor.
`OneExtraction` is checked without aborts: with one, the loop may clear `_aborted`
for the next run before the aborted one has looked, and two extractions run. Cancels
it admits without exception.

`StopReaches`, `Wakes` and `GroupKept` have the races in the group as conditions, and
without them they fail: of two scripts that share a control only the later one has its
event and its timer; a control popped at the end of a run is not found by a stop of the group; a
stop that wakes a script, which takes its control out of the list, skips the next one, whose
script sleeps until its timer or a cancel ends it; and of two pops that meet one empties the group. A script that is alone meets nobody
(`NoRaceAlone`), so there they hold as they stand.

`ScriptsEnd` excepts who waits for a flag that was left (`KeptOut`): the read before its
release had no answer, which the script takes for a zero, the release is skipped, and the
holder's pings keep the flag set until it is acquired and released again. The wait it keeps out is a loop that
looks at nothing but the answer.

`SuccessIsFull` excepts a multicollection that an action ended, which is what actions are for,
and one that an answer without sense ended, of which the code says nothing anywhere.

`SavedUnlessStopped` holds for scripts that use the multicollector at least once. A
script that only hops loses a cancel that comes just before its `_execute` takes
`_cancel` back: the run then goes on, and is saved although it was canceled.

Fairness. `SwitchManager`: a call's steps and a reader's recording go on (threads of
the operating system), and every polled switch is read again and again: `_update`
re-arms itself and sweeps all switches. It is strong fairness because a reader is
busy between a reading and its recording, so no switch's reading stays enabled.
`StatusMonitor`: callers and monitor
threads go on, and a load ends, with an answer or a timeout. `ClientLine`: the same, and
strong fairness of a whole word for whoever asks again and again: not every word takes too
long, and lost messages are not lost for ever. (`_make_word` of version 1 goes on at the next call
where its timeout stopped it; a state word of version 0, which the run has, starts again at the
first switch, so whole words are needed.)
`QueueExecutor`: every thread goes on while it can, so scripts and saves end, and a
dialog is answered or times out after its 30 seconds. `ScriptWaits`: the scripts'
threads and the timers go on, and so does a stop that has begun; nobody has to press anything, so
`ScriptEnds` is said of runs in which from some time on no control is paused and none was shared. `ResourceFlags`: the systems' scripts,
the monitors and timers go on and time passes. `Measurement`: the thread of the script and of
a cancel go on. In none of them is the operator fair, nor a fault.

`Kept` and `Watched` end with the first calls that overlap. Two saves of one file may
close in the other order than they took their values, and a canvas may apply locks it
read before a lock was set; a stop in the middle of a start leaves a client without a
monitor. Nothing in the code prevents such calls, and in both runs they happen:
`StartsClean`, `ThreadsEnd` and the types are about them too.

### What disagrees with the code's own words

Two runs expect a violation of what a sentence of the source says; it is quoted in
`PROJECT.json`. They say what the code does; what should be changed is for its authors.

* `interlock_race`: the interlocks are checked without a lock, so two callers who both
  check first both open.
* `pump_wait`: an overlapped run waits for a pump time that is set on the executor,
  in a copy of its own.

Other disagreements the modules contain, and how to see each in an instance of them:

* `pyscript.py:831` says that a wait control has the chance to start before the next
  script asks whether it is running. The lock is left before the start (836), so two
  scripts take the same control: `shared` in `races` of `ScriptWaits`.
* The scripting guide says that `acquire` "blocks other scripts from using" the resource.
  It asks and sets in two messages (`extraction_line_pyscript.py:862`), so two scripts
  that read zero both go on: `ResourceFlags` with one flag that both systems `claim`.
* `TerminationConditional` says "Continue to next run in experiment queue"
  (`conditional.py:466`). `_measure` cancels the run, which sets the flag by which it then
  decides to cancel the queue as well (`automated_run.py:2951`): in `Measurement` the queue
  is not alive after a termination.
* The docstring of `load_valve_owners` wants all valves, owned or not
  (`client_switch_manager.py:95`). `get_owners_word` leaves the checksum on the word (168), so the
  last switch named is never heard: `Heard` in `ClientLine`.
* `_parse_word` (`switch_manager.py:682`) looks for a bar in words of version 1, `_make_word`
  puts a colon there (290): with `Version = 1` nothing of a word is read, and
  `CopyFollows` does not hold.
* The guide to the dashboard has a valve "locked closed" by a script. That lock is not saved
  (`extraction_line_manager.py:779`), and the next canvas reads the file and takes it back:
  `ScriptLock` and `Ask(c, "canvas")` in `SwitchStore`.
* The executor sets up the status monitor to "make sure status monitor is running"
  (`experiment_executor.py:1345`). Beside a call of the user interface it may leave none
  (`status_monitor.py:86`): `Watched` without `overlap`.
* `WaitGroup.pop` keeps the last control (`wait_group.py:54`), but two pops that meet both pass that
  look; the group is empty, and `controls[-1]` raises in a script: `twice` in `races`, and `raised`.

Three facts about the code that no sentence of it contradicts, but that its users may not
expect; the properties name them as exceptions:

* An answer of the spectrometer that cannot be parsed (`data_collector.py:213`) ends the loop at
  line 174 with no flag set; the run goes on, is judged a success and saved with the counts it
  has: `Garbled` in `Measurement`, with `cut` in `seen`.
* `WaitGroup.stop` iterates over the list from which a script it woke takes its control
  (`wait_group.py:64`), so a stop of all can miss one: `skipped` in `races` of `ScriptWaits`.
* `check_shot` tests and clears `_shot_loaded` with a save to a file in between
  (`tracking.py:54`), so one load can be counted twice: `doubled` in `SwitchManager`.

## The proofs

TLC checks the instances of the table; the theorems below hold for every value of the
constants that the named assumptions admit. The assumptions (`SwitchAssumption`,
`StoreAssumption`, `MonitorAssumption`, `LineAssumption`, `QueueAssumption`,
`WaitsAssumption`, `FlagsAssumption`, `MeasurementAssumption`) give
the shapes of the constants, and TLC evaluates them on every run of their module.

`SwitchManagerProofs.tla` proves `TypeCorrect` (`Spec => []TypeOK`) and
`ShotsAccounted` (`Spec => []ShotAccounting`) for every line: any switches, callers,
trackers, faults. Type correctness is inductive as it stands, with a lemma for
the step to the next child and one for the trackers. `CountInv` strengthens the accounting:
an opening that has found a load and not counted it yet (`Uncounted`) weighs as a count, so
that finding it, counting and clearing each keep the balance, however they interleave, and a
lost addition only lowers it. `CountedOnce` is what follows where one caller at most may open the outer
valve of a pipette, itself or as a child of a valve it may open (`OneOpener`): `doubled` stays zero, and the counts
never exceed the loads.

It also proves `InterlocksSafe`, `RecordsRight` and `ImplementsLine`, each
as `SeparateGroups => (Spec => ...)`. `SeparateGroups` is a condition on the constants: every
caller has a group of switches of its own, closed under interlocks, positive
interlocks and children; interlocks are symmetric; nothing is polled; the only fault
is a refusal. Nothing in the code enforces it, and `interlock_race` shows that it
is needed: it is how a laboratory has to use the line. The inductive invariant is
`GroupInv`: to `InterlockSafety` and `RecordedState` it adds that a thread acts in its
group (`OwnCalls`), that an acknowledged switch is where it was sent (`MovedAsAsked`)
and, the heart of it, that what the check found still holds when the switch moves
(`StillClear`): nobody else moves the switches it looked at, and the recorded states
it looked at were right. The refinement then needs one step: only `HardwareMoves`
and `ActuateManual` change `phys`, and `StillClear` is the guard of `Open` and `Close`.

`SwitchStoreProofs.tla` proves `TypeCorrect`; `StartsAreClean`, from the fact that an empty
file is being saved or was left by a save that was cut off (`CutInv`); and `LeftAsKept`
(`Spec => []Kept`): until calls overlap one caller is at work at a time (`Alone`), a file
holds a value it may (`FilesKept`), memory is as at the beginning until its file is read
and then holds such a value (`MemoryKept`), and what a caller has in hand is one
(`WorkKept`). `IInv` joins them to the shapes, which hold whatever overlaps.

`StatusMonitorProofs.tla` proves `TypeCorrect`, for which one has to count: the events
that were made and the calls that may still make one are not more than the calls
(`CountInv`). `SilencedAlways` (`MonitorSpec => []Silenced`) holds whatever overlaps, from
`SInv`: while nobody is on the list and the last event is not set, a caller is on the way
to set it or to be on the list. `WatchedInTurn` (`MonitorSpec => []Watched`) rests on `WInv`: until calls
overlap, the last event is not set from the launch on and its thread runs, and only a
stop that has emptied the list sets it.

`ClientLineProofs.tla` is about the copy. What a load of states does is a recursion over
the switches; `Through` is the set of the functions that go through the first `n` of them,
which is shown not to be empty (`ThroughExists`) and to hold what the recursion computes
(`MovedThrough`), by `UpTo`, which tells an induction by the set of the numbers it has
reached. `LoadHeals` is what a whole word makes right, of any copy; together with `CopyFollows`, which
TLC checks, it says why a copy follows although a load may take the state of a child away.
`CopyTyped` (`Spec => []TypeOK`) needs that whoever has a word is at the load he asked it for
(`WordType`). `MonitorImplemented` is the refinement of `StatusMonitor`: `StepMonitor` maps every step of
`Next` to one of `MonitorNext` or to a stutter; it is the safety of the monitor, not its fairness.
With it `WatchedBesideCopy` is `Watched` for this specification too.

`QueueExecutorProofs.tla` proves `TypeCorrect` for queues of any length;
`ImplementsQueue`, that the executor implements `RunQueue`, from `OrderInv` (types;
runs ahead of the loop have not begun, runs behind it have; a run that is joined
leaves the loop only when it is over); and `SavesSerial` for queues without overlaps
(`NoOverlaps`), strengthened by what makes it true (`SaverAnnounced`): a saver that works
was announced by `_save_complete_evt` before its run was over, and the loop does not make
the next run before that event is cleared.

The last part of it proves `ExtractionsApart` (`NoAborts => (Spec => []OneExtraction)`).
The argument is the code's own: while the executor lives, only the run in hand can be
before the end of its extraction, because the loop does not go on until
`extracting_run` is taken back; and a dead executor lets no run pass the check in
front of its next step. `ExtractInv` says this of every state of the loop.

`ScriptWaitsProofs.tla` begins with what `RemoveAt`, `RemoveFirst`, `Front` and `Append` do
to a sequence without repetitions, which the library does not state (`RemoveFirst` takes the least
place, so `LeastExists`). `TypeCorrect` (`Spec => []TypeOK`) includes that no control is twice in the
group; a script that is at a control has one (`HasControl`). `CanceledNeverDone` rests on
`CancelInv`: between the reset of the flags and the end nothing takes a cancel back, and a
gosub hands its cancel up. `StopsReach` and `WaitsWake` rest on `WaitInv`: until a control is shared, no two
scripts are at one (`Alone`), a control whose start is over holds the event of the script at it (`Told`), and its timer
counts while he is not told (`Woken`); until one is popped as well, it is in the group (`Held`). What a stop has still to do is `StopInv`: who
is awaited stays joined until he is told (`Joining`), and has been told or has his control at a place the stop has yet to
come to (`Reached`), for which taking a control out must not move his behind that place. `GroupIsKept` rests on
`GroupInv`: until two pops meet, one thread at most is about to take a control out, so that
the length it saw is still right (`Single`); and while nobody met, the active control is
one of the group or about to be set (`Shown`), for which whoever is at a control must have it in the group.
`NoRaceAlone` is the case of one script.

`MeasurementProofs.tla` proves `StopsObeyed` (`StopInv`: from a stop on, the count
allowed is the one at hand), `TypeCorrect`,
`SavesUnlessStopped` and `SuccessesFull`. The difficulty of the third is that a stop is kept in different places at
different times (the collector's flags, the script's, the run's, the executor's), so
`SInv` follows it: `Kept` says that it is in one of the places `Pending` names, `Untouched` that
nothing is marked before, `Late` what is left of it when the script is over. The fourth adds that only the end of
a run calls it a success (`Labelled`), and that a multicollection that is left early gives its reason,
which is still there when its command returns (`LeftEarly`).

`ResourceFlagsProofs.tla` proves `FlagsKept` where every system has flags of its own,
none of them timed, and the pings lost in a row are no more than the timeout allows
(`SeparateFlags`), and `TypeCorrect` where only timed flags are set for a time
(`PumpsTimed`), in one part for each group of variables. Both conditions hold of the documented scripts of the minibone, save
that they wait for each other's flags, which `SeparateFlags` allows: it is about
what is acquired.

What stays with the model checker: `PollHeals`, `QueueEnds`, `PumpWaitEnds`,
`ScriptEnds`, `ScriptsEnd`, `MeasurementEnds`, `ThreadsEnd` and `CopyFollows` (liveness
under fairness and ENABLED are beyond the prover). Every invariant a passing run checks
is a theorem too, under the conditions on the constants that are named above.

## Not modelled

* The loading of switches from their configuration, the double actuation valve, the
  canvas and the networks drawn on it.
* The other messages of the remote protocol: each passes a call on to the manager.
* The executor on several open queues, its delayed start (`_wait_for_dvc_save` aside),
  skipped and repeated runs, edits of the queue while it runs.
* Of a run: conditionals' arithmetic (a trip is a choice), intervals and their
  spectrometer moves, partial readings of the NGX driver, sniffs and whiffs,
  baseline hops (they raise at their first use), user-defined cycles.
* Consumers and the communication scheduler (a queue and a lock), the sample changer
  (a linear procedure of dialogs), the dashboard and its devices.
* Spectrometers, lasers and furnaces are drivers of devices; data reduction is
  numerical; entry, the data mapper and the GUI are forms. What they could violate is
  not a property of interleavings or of a protocol.

## Plan

1. Done: the valve protocol and its abstract line; the files of the line with crashes and
   restarts; the status monitor and the client's copy; the executor, its abstract queue;
   the waits of the scripts; the flags; the measurement; the proofs of them.
2. The delayed start of the executor and several open queues; aborts in
   `OneExtraction`, with what a run would have to look at.
3. Two callers on one file, for which the code would have to say what is promised.
4. Done: `ScriptWaits`' typing and group, for more than one script; `ClientLine`'s typing and
   what a load heals.
5. The safety halves of the liveness properties: what must hold at the end of a queue
   (`QueueEnds`) or of a script that waits for a flag (`ScriptsEnd`), as invariants.
