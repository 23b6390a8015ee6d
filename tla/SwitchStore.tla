---- MODULE SwitchStore ----
(***************************************************************************)
(* What the switch manager keeps in files: the software locks, the states  *)
(* of the manual switches, the shots of a pipette and the actuations of    *)
(* the valves.  A file is opened for writing, which empties it, what is to *)
(* be written is taken from memory, and it gets to the file with the       *)
(* closing.  The program may crash between any two of these steps.         *)
(*                                                                         *)
(* Three files are read when the program starts, that of the shots when    *)
(* the extraction line's window is activated, that of the locks again with *)
(* every canvas.  Calls come from the user interface, from scripts and     *)
(* from remote clients, each in a thread of its own; nothing is locked.    *)
(***************************************************************************)
EXTENDS Naturals

CONSTANTS
    Switches,    \* the switches, which all have a software lock
    Manual,      \* those that are moved by hand
    Callers,     \* the threads that call the manager
    Jobs,        \* what each of them calls
    MaxCalls,    \* bound: the calls of all callers
    MaxCrashes   \* bound: the crashes

JobNames == {"lock", "script", "move", "inner", "outer", "actuate",
             "canvas", "activate", "quit"}

ASSUME StoreAssumption ==
    /\ Manual \subseteq Switches
    /\ Jobs \in [Callers -> SUBSET JobNames]
    /\ MaxCalls \in Nat /\ MaxCrashes \in Nat

Files == {"locks", "manual", "shots", "actuations"}

VARIABLES
    mode,       \* the file that a start reads next, "up", "down", "failed"
    mem,        \* what the program holds of each file
    file,       \* what is written in it
    health,     \* whether there is a file, and a whole one
    pc,         \* where a caller is
    job,        \* what it calls
    at,         \* the file it is at
    snap,       \* what it has read or is to write
    loaded,     \* _shot_loaded
    active,     \* whether the shots have been read since the start
    calls, crashes,
    kept,       \* history: what a file may hold for the calls made so far
    overlap,    \* history: a call was begun while another was under way
    early,      \* history: a shot was counted before the shots were read
    cut         \* history: a program ended between emptying and closing

callers == <<pc, job, at, snap>>
vars == <<mode, mem, file, health, callers, loaded, active, calls, crashes, kept,
          overlap, early, cut>>

Value(f) ==
    CASE f = "locks" -> [Switches -> BOOLEAN]
      [] f = "manual" -> [Manual -> BOOLEAN]
      [] OTHER -> Nat

(* What the program holds before it has read anything                      *)
Fresh == [f \in Files |->
            CASE f = "locks" -> [k \in Switches |-> FALSE]
              [] f = "manual" -> [k \in Manual |-> FALSE]
              [] OTHER -> 0]

Init ==
    /\ mode = "down" /\ mem = Fresh /\ file = Fresh
    /\ health = [f \in Files |-> "none"]
    /\ pc = [c \in Callers |-> "idle"] /\ job = [c \in Callers |-> "canvas"]
    /\ at = [c \in Callers |-> "locks"] /\ snap = [c \in Callers |-> Fresh["locks"]]
    /\ loaded = FALSE /\ active = FALSE
    /\ calls = 0 /\ crashes = 0
    /\ kept = [f \in Files |-> {Fresh[f]}]
    /\ overlap = FALSE /\ early = FALSE /\ cut = FALSE

----------------------------------------------------------------------------
(* Starts and ends of the program.                                         *)
Start ==
    /\ mode \in {"down", "failed"}
    /\ mode' = "actuations" /\ mem' = Fresh
    /\ UNCHANGED <<file, health, callers, loaded, active, calls, overlap, crashes, kept,
                   early, cut>>

AfterLoad == [actuations |-> "locks", locks |-> "manual", manual |-> "up"]

\* Mutant: a file that is not there is opened nevertheless.
LoadUnasked ==
    /\ mode \in DOMAIN AfterLoad
    /\ mode' = IF health[mode] = "whole" THEN AfterLoad[mode] ELSE "failed"
    /\ mem' = IF health[mode] = "whole" THEN [mem EXCEPT ![mode] = file[mode]] ELSE mem
    /\ UNCHANGED <<file, health, callers, loaded, active, calls, overlap, crashes, kept,
                   early, cut>>

(* One file after the other; what an empty one raises nobody catches, and  *)
(* the application exits.                                                  *)
Load ==
    /\ mode \in DOMAIN AfterLoad
    /\ mode' = IF health[mode] = "torn" THEN "failed" ELSE AfterLoad[mode]
    /\ mem' = IF health[mode] = "whole" THEN [mem EXCEPT ![mode] = file[mode]] ELSE mem
    /\ UNCHANGED <<file, health, callers, loaded, active, calls, overlap, crashes, kept,
                   early, cut>>

Saving(c) == pc[c] \in {"take", "close"}

\* Mutant: the threads outlive the program.
DownAlive ==
    /\ mode' = "down" /\ mem' = Fresh
    /\ loaded' = FALSE /\ active' = FALSE
    /\ UNCHANGED callers

(* The program is gone, with all its threads.                              *)
Down ==
    /\ mode' = "down" /\ mem' = Fresh
    /\ pc' = [c \in Callers |-> "idle"]
    /\ loaded' = FALSE /\ active' = FALSE
    /\ UNCHANGED <<job, at, snap>>

Crash ==
    /\ mode # "down" /\ crashes < MaxCrashes
    /\ crashes' = crashes + 1
    /\ Down
    /\ cut' = (cut \/ \E c \in Callers : Saving(c))
    /\ UNCHANGED <<file, health, calls, overlap, kept, early>>

----------------------------------------------------------------------------
(* The calls.                                                              *)
Begin(c, j) ==
    /\ mode = "up" /\ pc[c] = "idle" /\ j \in Jobs[c] /\ calls < MaxCalls
    /\ calls' = calls + 1
    /\ job' = [job EXCEPT ![c] = j]
    /\ overlap' = (overlap \/ \E d \in Callers \ {c} : pc[d] # "idle")

Goto(c, label, f) ==
    /\ pc' = [pc EXCEPT ![c] = label]
    /\ at' = [at EXCEPT ![c] = f]
    /\ UNCHANGED snap

(* What is in memory changes; from now on a file may hold either, until it *)
(* is saved.                                                               *)
Becomes(f, v) ==
    /\ mem' = [mem EXCEPT ![f] = v]
    /\ kept' = [kept EXCEPT ![f] = @ \cup {v}]

\* Mutant: a lock is set without the save.
LockUnsaved(c, k) ==
    /\ Begin(c, "lock")
    /\ \E b \in BOOLEAN :
          /\ mem' = [mem EXCEPT !["locks"][k] = b]
          /\ kept' = [kept EXCEPT !["locks"] = {mem'["locks"]}]
    /\ UNCHANGED <<pc, at, snap, mode, file, health, loaded, active, crashes, early, cut>>

(* set_software_lock, of the canvas and the sample changer                 *)
Lock(c, k) ==
    /\ Begin(c, "lock")
    /\ \E b \in BOOLEAN : Becomes("locks", [mem["locks"] EXCEPT ![k] = b])
    /\ Goto(c, "open", "locks")
    /\ UNCHANGED <<mode, file, health, loaded, active, crashes, early, cut>>

(* lock_valve, of a script: nothing is saved.                              *)
ScriptLock(c, k) ==
    /\ Begin(c, "script")
    /\ \E b \in BOOLEAN : Becomes("locks", [mem["locks"] EXCEPT ![k] = b])
    /\ UNCHANGED <<pc, at, snap, mode, file, health, loaded, active, crashes, early, cut>>

(* A manual switch is opened or closed.                                    *)
Move(c, k) ==
    /\ Begin(c, "move")
    /\ \E b \in BOOLEAN : Becomes("manual", [mem["manual"] EXCEPT ![k] = b])
    /\ Goto(c, "open", "manual")
    /\ UNCHANGED <<mode, file, health, loaded, active, crashes, early, cut>>

(* The inner valve of the pipette opens: a shot is loaded.                 *)
Inner(c) ==
    /\ Begin(c, "inner")
    /\ loaded' = TRUE
    /\ UNCHANGED <<mode, mem, file, health, pc, at, snap, active, crashes, kept, early, cut>>

(* The outer valve opens: a loaded shot is counted.                        *)
Outer(c) ==
    /\ Begin(c, "outer")
    /\ loaded
    /\ Becomes("shots", mem["shots"] + 1)
    /\ early' = (early \/ ~active)
    /\ Goto(c, "open", "shots")
    /\ UNCHANGED <<mode, file, health, loaded, active, crashes, cut>>

(* What only reads at first: an actuation that is tracked, a canvas, the   *)
(* activation of the window.                                               *)
Ask(c, j) ==
    /\ Begin(c, j)
    /\ Goto(c, "read", [actuate |-> "actuations", canvas |-> "locks", activate |-> "shots"][j])
    /\ UNCHANGED <<mode, mem, file, health, loaded, active, crashes, kept, early, cut>>

(* kill: locks and manual states are saved.                                *)
Quit(c) ==
    /\ Begin(c, "quit")
    /\ Goto(c, "open", "locks")
    /\ UNCHANGED <<mode, mem, file, health, loaded, active, crashes, kept, early, cut>>

----------------------------------------------------------------------------
(* Reading.                                                                *)
(* A file that is being written raises, and ends the call; one that is not *)
(* there has nothing to say, or counts from zero.                          *)
ReadFails(c) ==
    /\ pc[c] = "read" /\ health[at[c]] = "torn"
    /\ pc' = [pc EXCEPT ![c] = "idle"]
    /\ UNCHANGED <<mode, mem, file, health, job, at, snap, loaded, active, calls, overlap, crashes,
                   kept, early, cut>>

ReadNothing(c) ==
    /\ pc[c] = "read" /\ at[c] # "actuations" /\ health[at[c]] = "none"
    /\ pc' = [pc EXCEPT ![c] = "idle"]
    /\ active' = (active \/ at[c] = "shots")
    /\ UNCHANGED <<mode, mem, file, health, job, at, snap, loaded, calls, overlap, crashes,
                   kept, early, cut>>

Read(c) ==
    /\ pc[c] = "read" /\ at[c] # "actuations" /\ health[at[c]] = "whole"
    /\ snap' = [snap EXCEPT ![c] = file[at[c]]]
    /\ pc' = [pc EXCEPT ![c] = "apply"]
    /\ UNCHANGED <<mode, mem, file, health, job, at, loaded, active, calls, overlap, crashes,
                   kept, early, cut>>

(* Memory takes what was read, of the locks one switch after another.      *)
Apply(c) ==
    /\ pc[c] = "apply"
    /\ mem' = [mem EXCEPT ![at[c]] = snap[c]]
    /\ active' = (active \/ at[c] = "shots")
    /\ pc' = [pc EXCEPT ![c] = "idle"]
    /\ UNCHANGED <<mode, file, health, job, at, snap, loaded, calls, overlap, crashes, kept,
                   early, cut>>

(* The file of the actuations is read, counted up and written.             *)
CountActuation(c) ==
    /\ pc[c] = "read" /\ at[c] = "actuations" /\ health["actuations"] # "torn"
    /\ LET n == IF health["actuations"] = "none" THEN 1 ELSE file["actuations"] + 1
       IN  Becomes("actuations", n) /\ snap' = [snap EXCEPT ![c] = n]
    /\ pc' = [pc EXCEPT ![c] = "open"]
    /\ UNCHANGED <<mode, file, health, job, at, loaded, active, calls, overlap, crashes,
                   early, cut>>

----------------------------------------------------------------------------
(* Writing.                                                                *)
Open(c) ==
    /\ pc[c] = "open"
    /\ health' = [health EXCEPT ![at[c]] = "torn"]
    /\ pc' = [pc EXCEPT ![c] = IF at[c] = "actuations" THEN "close" ELSE "take"]
    /\ UNCHANGED <<mode, mem, file, job, at, snap, loaded, active, calls, overlap, crashes,
                   kept, early, cut>>

Take(c) ==
    /\ pc[c] = "take"
    /\ snap' = [snap EXCEPT ![c] = mem[at[c]]]
    /\ pc' = [pc EXCEPT ![c] = "close"]
    /\ UNCHANGED <<mode, mem, file, health, job, at, loaded, active, calls, overlap, crashes,
                   kept, early, cut>>

Closed(c) ==
    /\ pc[c] = "close"
    /\ file' = [file EXCEPT ![at[c]] = snap[c]]
    /\ health' = [health EXCEPT ![at[c]] = "whole"]

(* The call returns; a counted shot is loaded no more.                     *)
Close(c) ==
    /\ Closed(c)
    /\ job[c] # "quit"
    /\ pc' = [pc EXCEPT ![c] = "idle"]
    /\ loaded' = (loaded /\ at[c] # "shots")
    /\ kept' = [kept EXCEPT ![at[c]] = {mem[at[c]]}]
    /\ UNCHANGED <<mode, mem, job, at, snap, active, calls, overlap, crashes, early, cut>>

CloseLocks(c) ==
    /\ Closed(c)
    /\ job[c] = "quit" /\ at[c] = "locks"
    /\ Goto(c, "open", "manual")
    /\ UNCHANGED <<mode, mem, job, loaded, active, calls, overlap, crashes, kept, early, cut>>

(* After the manual states the program ends, whatever its other threads do.*)
CloseManual(c) ==
    /\ Closed(c)
    /\ job[c] = "quit" /\ at[c] = "manual"
    /\ Down
    /\ cut' = (cut \/ \E d \in Callers \ {c} : Saving(d))
    /\ UNCHANGED <<calls, overlap, crashes, kept, early>>

----------------------------------------------------------------------------
Call(c) ==
    \/ \E k \in Switches : Lock(c, k) \/ ScriptLock(c, k)
    \/ \E k \in Manual : Move(c, k)
    \/ Inner(c) \/ Outer(c) \/ Quit(c)
    \/ \E j \in {"actuate", "canvas", "activate"} : Ask(c, j)

Work(c) ==
    \/ ReadFails(c) \/ ReadNothing(c) \/ Read(c) \/ Apply(c) \/ CountActuation(c)
    \/ Open(c) \/ Take(c) \/ Close(c) \/ CloseLocks(c) \/ CloseManual(c)

Next == Start \/ Load \/ Crash \/ \E c \in Callers : Call(c) \/ Work(c)

Spec == Init /\ [][Next]_vars

----------------------------------------------------------------------------
Holds(g) == DOMAIN g = Files /\ \A f \in Files : g[f] \in Value(f)

(* Memory and files hold values of their kind; a caller at work is at a    *)
(* file in a program that is up, with a value of its kind.                 *)
TypeOK ==
    /\ mode \in {"down", "up", "failed", "actuations", "locks", "manual"}
    /\ Holds(mem) /\ Holds(file)
    /\ health \in [Files -> {"none", "torn", "whole"}]
    /\ pc \in [Callers -> {"idle", "read", "apply", "open", "take", "close"}]
    /\ job \in [Callers -> JobNames] /\ at \in [Callers -> Files]
    /\ \A c \in Callers : pc[c] # "idle" => mode = "up"
    /\ DOMAIN snap = Callers
    /\ \A c \in Callers : pc[c] \in {"apply", "close"} => snap[c] \in Value(at[c])
    /\ loaded \in BOOLEAN /\ active \in BOOLEAN
    /\ calls \in 0..MaxCalls /\ crashes \in 0..MaxCrashes

(* The program has read the file: at the start, or with the window.        *)
Known(f) == mode = "up" /\ (f = "shots" => active)

(* What the program has read it holds as it was left: as of the last call  *)
(* that returned, or of the one a crash cut off; only a lock from a script *)
(* may be taken back.  So locks, manual states and counts survive restarts *)
(* and the opening of a canvas, as the guide to the dashboard wants a      *)
(* valve "locked closed".  It takes calls that do not overlap, and shots   *)
(* of a line whose window was activated before the first one.              *)
Kept ==
    ~overlap => \A f \in Files : Known(f) /\ ~(f = "shots" /\ early) => mem[f] \in kept[f]

(* A start fails only after a program ended while it was writing.          *)
StartsClean == mode = "failed" => cut
====
