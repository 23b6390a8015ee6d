---- MODULE SwitchStoreProofs ----
(***************************************************************************)
(* What holds of the files for any switches, callers, calls and crashes:   *)
(* the types; that a start fails only after a save was cut off; and that   *)
(* what is read is what was left, as long as no calls have overlapped.     *)
(***************************************************************************)
EXTENDS SwitchStore, TLAPS

----------------------------------------------------------------------------
(* Type correctness                                                        *)

(* The actuations that are to be written are taken before the file is      *)
(* opened.                                                                 *)
TInv ==
    /\ TypeOK
    /\ \A c \in Callers : pc[c] = "open" /\ at[c] = "actuations" => snap[c] \in Nat

\* A record of the contents in which one is replaced by another of its kind
LEMMA ReplaceHolds ==
    ASSUME NEW g, Holds(g), NEW f \in Files, NEW v \in Value(f)
    PROVE  Holds([g EXCEPT ![f] = v])
BY DEF Holds

LEMMA FreshHolds == Holds(Fresh)
BY DEF Holds, Fresh, Value, Files

LEMMA InitTyped == Init => TInv
<1> SUFFICES ASSUME Init PROVE TInv OBVIOUS
<1>1. pc = [c \in Callers |-> "idle"]
  BY DEF Init
<1>2. health \in [Files -> {"none", "torn", "whole"}]
  BY DEF Init
<1>3. job \in [Callers -> JobNames] /\ at \in [Callers -> Files]
  BY DEF Init, JobNames, Files
<1>4. Holds(mem) /\ Holds(file)
  BY FreshHolds DEF Init
<1>5. calls \in 0..MaxCalls /\ crashes \in 0..MaxCrashes
  BY StoreAssumption DEF Init
<1>6. mode = "down" /\ loaded = FALSE /\ active = FALSE /\ DOMAIN snap = Callers
  BY DEF Init
<1> QED BY <1>1, <1>2, <1>3, <1>4, <1>5, <1>6 DEF TInv, TypeOK

\* The values of the kinds
LEMMA Kinds ==
    /\ Value("shots") = Nat /\ Value("actuations") = Nat
    /\ Value("locks") = [Switches -> BOOLEAN] /\ Value("manual") = [Manual -> BOOLEAN]
    /\ {"locks", "manual", "shots", "actuations"} = Files
BY DEF Value, Files

\* What a call begins with leaves the types as they are.
LEMMA BeginTyped ==
    ASSUME TypeOK, NEW c \in Callers, NEW j \in JobNames, Begin(c, j)
    PROVE  job' \in [Callers -> JobNames] /\ calls' \in 0..MaxCalls /\ mode = "up"
BY StoreAssumption DEF Begin, TypeOK

\* The program is gone: nobody is at work, and memory is as at the beginning.
LEMMA DownTyped ==
    ASSUME TypeOK, Down
    PROVE  /\ mode' = "down" /\ Holds(mem') /\ pc' = [c \in Callers |-> "idle"]
           /\ job' \in [Callers -> JobNames] /\ at' \in [Callers -> Files]
           /\ DOMAIN snap' = Callers /\ loaded' = FALSE /\ active' = FALSE
BY FreshHolds DEF Down, TypeOK

LEMMA ProgramTyped ==
    ASSUME TInv, Start \/ Load \/ Crash
    PROVE  TInv'
<1> USE DEF TInv
<1>1. CASE Start
  BY <1>1, FreshHolds DEF Start, callers, TypeOK
<1>2. CASE Load
  <2>1. mode \in Files /\ mode' \in {"failed", "locks", "manual", "up"}
    BY <1>2, Kinds DEF Load, AfterLoad
  <2>2. Holds(mem')
    BY <1>2, <2>1, ReplaceHolds DEF Load, TypeOK, Holds
  <2>3. \A c \in Callers : pc[c] = "idle"
    BY <1>2, <2>1 DEF TypeOK, Load, AfterLoad
  <2> QED BY <1>2, <2>1, <2>2, <2>3 DEF Load, callers, TypeOK
<1>3. CASE Crash
  <2>1. crashes' \in 0..MaxCrashes
    BY <1>3, StoreAssumption DEF Crash, TypeOK
  <2> QED BY <1>3, <2>1, DownTyped DEF Crash, TypeOK
<1> QED BY <1>1, <1>2, <1>3

LEMMA CallTyped ==
    ASSUME TInv, NEW c \in Callers, Call(c)
    PROVE  TInv'
<1> USE DEF TInv
<1>1. ASSUME NEW k \in Switches, Lock(c, k) PROVE TInv'
  <2>1. PICK b \in BOOLEAN : Becomes("locks", [mem["locks"] EXCEPT ![k] = b])
    BY <1>1 DEF Lock
  <2>2. Holds(mem')
    BY <2>1, Kinds, ReplaceHolds DEF Becomes, TypeOK, Holds
  <2> QED BY <1>1, <2>2, BeginTyped, Kinds DEF Lock, Begin, Goto, JobNames, TypeOK
<1>2. ASSUME NEW k \in Switches, ScriptLock(c, k) PROVE TInv'
  <2>1. PICK b \in BOOLEAN : Becomes("locks", [mem["locks"] EXCEPT ![k] = b])
    BY <1>2 DEF ScriptLock
  <2>2. Holds(mem')
    BY <2>1, Kinds, ReplaceHolds DEF Becomes, TypeOK, Holds
  <2> QED BY <1>2, <2>2, BeginTyped DEF ScriptLock, JobNames, TypeOK
<1>3. ASSUME NEW k \in Manual, Move(c, k) PROVE TInv'
  <2>1. PICK b \in BOOLEAN : Becomes("manual", [mem["manual"] EXCEPT ![k] = b])
    BY <1>3 DEF Move
  <2>2. Holds(mem')
    BY <2>1, Kinds, ReplaceHolds DEF Becomes, TypeOK, Holds
  <2> QED BY <1>3, <2>2, BeginTyped, Kinds DEF Move, Begin, Goto, JobNames, TypeOK
<1>4. CASE Inner(c)
  BY <1>4, BeginTyped DEF Inner, JobNames, TypeOK
<1>5. CASE Outer(c)
  <2>1. Holds(mem')
    BY <1>5, Kinds, ReplaceHolds DEF Outer, Becomes, TypeOK, Holds
  <2> QED BY <1>5, <2>1, BeginTyped, Kinds DEF Outer, Begin, Goto, JobNames, TypeOK
<1>6. CASE Quit(c)
  BY <1>6, BeginTyped, Kinds DEF Quit, Begin, Goto, JobNames, TypeOK
<1>7. ASSUME NEW j \in {"actuate", "canvas", "activate"}, Ask(c, j) PROVE TInv'
  <2>1. [actuate |-> "actuations", canvas |-> "locks", activate |-> "shots"][j] \in Files
    BY Kinds
  <2> QED BY <1>7, <2>1, BeginTyped DEF Ask, Begin, Goto, JobNames, TypeOK
<1> QED BY <1>1, <1>2, <1>3, <1>4, <1>5, <1>6, <1>7 DEF Call

LEMMA WorkTyped ==
    ASSUME TInv, NEW c \in Callers, Work(c)
    PROVE  TInv'
<1> USE DEF TInv
<1>1. CASE ReadFails(c)
  BY <1>1 DEF ReadFails, TypeOK
<1>2. CASE ReadNothing(c)
  BY <1>2 DEF ReadNothing, TypeOK
<1>3. CASE Read(c)
  BY <1>3 DEF Read, TypeOK, Holds
<1>4. CASE Apply(c)
  <2>1. Holds(mem')
    BY <1>4, ReplaceHolds DEF Apply, TypeOK
  <2> QED BY <1>4, <2>1 DEF Apply, TypeOK
<1>5. CASE CountActuation(c)
  <2> DEFINE n == IF health["actuations"] = "none" THEN 1 ELSE file["actuations"] + 1
  <2>1. n \in Nat
    BY Kinds DEF TypeOK, Holds
  <2> HIDE DEF n
  <2>2. Becomes("actuations", n) /\ snap' = [snap EXCEPT ![c] = n]
    BY <1>5 DEF CountActuation, n
  <2>3. Holds(mem')
    BY <2>1, <2>2, Kinds, ReplaceHolds DEF Becomes, TypeOK
  <2> QED BY <1>5, <2>1, <2>2, <2>3 DEF CountActuation, TypeOK
<1>6. CASE Open(c)
  BY <1>6, Kinds DEF Open, TypeOK
<1>7. CASE Take(c)
  BY <1>7 DEF Take, TypeOK, Holds
<1>8. ASSUME Closed(c) PROVE Holds(file') /\ health' \in [Files -> {"none", "torn", "whole"}]
  BY <1>8, ReplaceHolds DEF Closed, TypeOK
<1>9. CASE Close(c)
  BY <1>9, <1>8 DEF Close, Closed, TypeOK
<1>10. CASE CloseLocks(c)
  BY <1>10, <1>8, Kinds DEF CloseLocks, Closed, Goto, TypeOK
<1>11. CASE CloseManual(c)
  <2>1. Closed(c) /\ Down /\ calls' = calls /\ crashes' = crashes
    BY <1>11 DEF CloseManual
  <2> QED BY <2>1, <1>8, DownTyped DEF TypeOK
<1> QED BY <1>1, <1>2, <1>3, <1>4, <1>5, <1>6, <1>7, <1>9, <1>10, <1>11 DEF Work

LEMMA NextTyped == TInv /\ [Next]_vars => TInv'
<1> SUFFICES ASSUME TInv, [Next]_vars PROVE TInv' OBVIOUS
<1>1. CASE UNCHANGED vars
  BY <1>1 DEF vars, callers, TInv, TypeOK, Holds
<1> QED BY <1>1, ProgramTyped, CallTyped, WorkTyped DEF Next

(* Files and memory are of their kind and callers at a file, for any       *)
(* switches, callers, calls and crashes.                                   *)
THEOREM TypeCorrect == Spec => []TypeOK
<1>1. TInv => TypeOK BY DEF TInv
<1> QED BY <1>1, InitTyped, NextTyped, PTL DEF Spec

----------------------------------------------------------------------------
(* Starts                                                                  *)

(* A file that is empty is being written, or a save of it was cut off;     *)
(* callers are at work only while the program is up.                       *)
CutInv ==
    /\ DOMAIN health = Files /\ DOMAIN pc = Callers /\ DOMAIN at = Callers
    /\ \A c \in Callers : pc[c] # "idle" => mode = "up"
    /\ \A f \in Files : health[f] = "torn" =>
          cut \/ \E c \in Callers : Saving(c) /\ at[c] = f
    /\ StartsClean

LEMMA InitCut == Init => CutInv
BY DEF Init, CutInv, StartsClean

\* A step of a caller leaves the others at their files.
LEMMA WorkCut ==
    ASSUME CutInv, NEW c \in Callers, Work(c)
    PROVE  CutInv'
<1> USE DEF CutInv, StartsClean, Saving
<1>1. CASE ReadFails(c) BY <1>1 DEF ReadFails
<1>2. CASE ReadNothing(c) BY <1>2 DEF ReadNothing
<1>3. CASE Read(c) BY <1>3 DEF Read
<1>4. CASE Apply(c) BY <1>4 DEF Apply
<1>5. CASE CountActuation(c) BY <1>5 DEF CountActuation
<1>6. CASE Open(c) BY <1>6 DEF Open
<1>7. CASE Take(c) BY <1>7 DEF Take
<1>8. CASE Close(c) BY <1>8 DEF Close, Closed
<1>9. CASE CloseLocks(c) BY <1>9 DEF CloseLocks, Closed, Goto
<1>10. CASE CloseManual(c) BY <1>10 DEF CloseManual, Closed, Down
<1> QED BY <1>1, <1>2, <1>3, <1>4, <1>5, <1>6, <1>7, <1>8, <1>9, <1>10 DEF Work

LEMMA CallCut ==
    ASSUME CutInv, NEW c \in Callers, Call(c)
    PROVE  CutInv'
<1> USE DEF CutInv, StartsClean, Saving, Begin, Goto
<1>1. ASSUME NEW k \in Switches, Lock(c, k) PROVE CutInv' BY <1>1 DEF Lock
<1>2. ASSUME NEW k \in Switches, ScriptLock(c, k) PROVE CutInv' BY <1>2 DEF ScriptLock
<1>3. ASSUME NEW k \in Manual, Move(c, k) PROVE CutInv' BY <1>3 DEF Move
<1>4. CASE Inner(c) BY <1>4 DEF Inner
<1>5. CASE Outer(c) BY <1>5 DEF Outer
<1>6. CASE Quit(c) BY <1>6 DEF Quit
<1>7. ASSUME NEW j \in {"actuate", "canvas", "activate"}, Ask(c, j) PROVE CutInv'
  BY <1>7 DEF Ask
<1> QED BY <1>1, <1>2, <1>3, <1>4, <1>5, <1>6, <1>7 DEF Call

LEMMA NextCut == CutInv /\ [Next]_vars => CutInv'
<1> SUFFICES ASSUME CutInv, [Next]_vars PROVE CutInv' OBVIOUS
<1> USE DEF CutInv, StartsClean, Saving
<1>1. CASE Start BY <1>1 DEF Start, callers
<1>2. CASE Load BY <1>2 DEF Load, AfterLoad, Files, callers
<1>3. CASE Crash BY <1>3 DEF Crash, Down
<1>4. CASE UNCHANGED vars BY <1>4 DEF vars, callers
<1> QED BY <1>1, <1>2, <1>3, <1>4, CallCut, WorkCut DEF Next

(* Whatever threads call and whenever the program crashes, a start fails   *)
(* only after a save was cut off between the emptying of a file and its    *)
(* closing; what _load_soft_lock_states and the others read otherwise they *)
(* can read.                                                               *)
THEOREM StartsAreClean == Spec => []StartsClean
<1>1. CutInv => StartsClean BY DEF CutInv
<1> QED BY <1>1, InitCut, NextCut, PTL DEF Spec

----------------------------------------------------------------------------
(* What is kept                                                            *)

(* While no calls have overlapped, one caller is at work at a time.        *)
Alone == \A c, d \in Callers : pc[c] # "idle" /\ pc[d] # "idle" => c = d

Excused(f) == f = "shots" /\ early

(* What a start has read, and what it has still to read                    *)
HasRead(f) ==
    \/ f = "actuations" /\ mode \in {"locks", "manual", "up"}
    \/ f = "locks" /\ mode \in {"manual", "up"}
    \/ f = "manual" /\ mode = "up"

Shape ==
    /\ DOMAIN mem = Files /\ DOMAIN file = Files /\ DOMAIN kept = Files
    /\ health \in [Files -> {"none", "torn", "whole"}]
    /\ DOMAIN pc = Callers /\ DOMAIN snap = Callers /\ at \in [Callers -> Files]
    /\ \A c \in Callers : pc[c] # "idle" => mode = "up"
    /\ active => mode = "up"

(* A file that is there holds what it may; without one, nothing was        *)
(* changed since the beginning.                                            *)
FilesKept ==
    \A f \in Files : ~Excused(f) =>
        /\ health[f] = "none" => Fresh[f] \in kept[f]
        /\ health[f] = "whole" => file[f] \in kept[f]

(* Memory is as at the beginning until the file is read, unless the start  *)
(* fails.                                                                  *)
MemoryKept ==
    /\ mode # "failed" => \A f \in Files \ {"shots"} :
          IF HasRead(f) THEN mem[f] \in kept[f] ELSE mem[f] = Fresh[f]
    /\ ~early => IF active THEN mem["shots"] \in kept["shots"]
                  ELSE mem["shots"] = Fresh["shots"]

(* What was read may be kept, what is about to be written is in memory.    *)
WorkKept ==
    \A c \in Callers : ~Excused(at[c]) =>
        /\ pc[c] = "apply" => snap[c] \in kept[at[c]]
        /\ pc[c] = "close" => snap[c] = mem[at[c]]
        /\ pc[c] = "open" /\ at[c] = "actuations" => snap[c] = mem[at[c]]

KInv == Alone /\ FilesKept /\ MemoryKept /\ WorkKept

IInv == Shape /\ (~overlap => KInv)

LEMMA InitKept == Init => IInv
<1> SUFFICES ASSUME Init PROVE IInv OBVIOUS
<1>1. Shape
  BY DEF Init, Shape, Files, Fresh
<1>2. FilesKept
  BY DEF Init, FilesKept
<1>3. MemoryKept
  BY DEF Init, MemoryKept, HasRead, Files
<1>4. Alone /\ WorkKept
  BY DEF Init, Alone, WorkKept
<1> QED BY <1>1, <1>2, <1>3, <1>4 DEF IInv, KInv

\* The shape is kept whatever overlaps.
LEMMA ProgramShape ==
    ASSUME Shape, Start \/ Load \/ Crash
    PROVE  Shape'
<1>1. CASE Start
  BY <1>1 DEF Start, callers, Shape, Fresh
<1>2. CASE Load
  <2>1. mode # "up" /\ DOMAIN mem' = Files
    BY <1>2 DEF Load, AfterLoad, Shape
  <2> QED BY <1>2, <2>1 DEF Load, callers, Shape
<1>3. CASE Crash
  BY <1>3 DEF Crash, Down, Shape, Fresh
<1> QED BY <1>1, <1>2, <1>3

LEMMA CallShape ==
    ASSUME Shape, NEW c \in Callers, Call(c)
    PROVE  Shape'
<1> USE DEF Shape, Begin, Goto, Becomes
<1>1. ASSUME NEW k \in Switches, Lock(c, k) PROVE Shape'
  BY <1>1 DEF Lock, Files
<1>2. ASSUME NEW k \in Switches, ScriptLock(c, k) PROVE Shape'
  BY <1>2 DEF ScriptLock
<1>3. ASSUME NEW k \in Manual, Move(c, k) PROVE Shape'
  BY <1>3 DEF Move, Files
<1>4. CASE Inner(c)
  BY <1>4 DEF Inner
<1>5. CASE Outer(c)
  BY <1>5 DEF Outer, Files
<1>6. CASE Quit(c)
  BY <1>6 DEF Quit, Files
<1>7. ASSUME NEW j \in {"actuate", "canvas", "activate"}, Ask(c, j) PROVE Shape'
  BY <1>7 DEF Ask, Files
<1> QED BY <1>1, <1>2, <1>3, <1>4, <1>5, <1>6, <1>7 DEF Call

LEMMA WorkShape ==
    ASSUME Shape, NEW c \in Callers, Work(c)
    PROVE  Shape'
<1> USE DEF Shape, Closed, Becomes
<1>1. CASE ReadFails(c) BY <1>1 DEF ReadFails
<1>2. CASE ReadNothing(c) BY <1>2 DEF ReadNothing
<1>3. CASE Read(c) BY <1>3 DEF Read
<1>4. CASE Apply(c) BY <1>4 DEF Apply
<1>5. CASE CountActuation(c) BY <1>5 DEF CountActuation
<1>6. CASE Open(c) BY <1>6 DEF Open
<1>7. CASE Take(c) BY <1>7 DEF Take
<1>8. CASE Close(c) BY <1>8 DEF Close
<1>9. CASE CloseLocks(c) BY <1>9 DEF CloseLocks, Goto, Files
<1>10. CASE CloseManual(c) BY <1>10 DEF CloseManual, Down, Fresh
<1> QED BY <1>1, <1>2, <1>3, <1>4, <1>5, <1>6, <1>7, <1>8, <1>9, <1>10 DEF Work

LEMMA ProgramKept ==
    ASSUME Shape, KInv, Start \/ Load \/ Crash
    PROVE  KInv'
<1>1. CASE Start
  BY <1>1 DEF Start, callers, Fresh, KInv, Shape, Alone, FilesKept, MemoryKept,
              WorkKept, HasRead, Excused
<1>2. CASE Load
  <2>1. /\ mode \in {"actuations", "locks", "manual"}
        /\ mode' = [actuations |-> "locks", locks |-> "manual", manual |-> "up"][mode] \/ mode' = "failed"
        /\ mode' = "failed" \/ health[mode] # "torn"
        /\ mem' = IF health[mode] = "whole" THEN [mem EXCEPT ![mode] = file[mode]] ELSE mem
        /\ UNCHANGED <<file, health, callers, active, kept, early>>
    BY <1>2 DEF Load, AfterLoad
  <2>2. active = FALSE \/ ~active
    BY <2>1 DEF KInv, Shape
  <2>3. \A c \in Callers : pc[c] = "idle"
    BY <2>1 DEF Shape
  <2>4. Alone'
    BY <2>1, <2>3 DEF Alone, callers
  <2>5. FilesKept'
    BY <2>1 DEF KInv, FilesKept, Excused
  <2>6. WorkKept'
    BY <2>1, <2>3 DEF WorkKept, callers
  <2>7. DOMAIN mem = Files /\ health \in [Files -> {"none", "torn", "whole"}] /\ mode \in Files
    BY <2>1 DEF KInv, Shape, Files
  <2>8. \A f \in Files \ {mode} : mem'[f] = mem[f]
    BY <2>1, <2>7
  <2>9. /\ health[mode] = "whole" => mem'[mode] = file[mode]
        /\ health[mode] # "whole" => mem'[mode] = mem[mode]
    BY <2>1, <2>7
  <2>10. mem[mode] = Fresh[mode]
    BY <2>1, <2>7 DEF KInv, MemoryKept, HasRead
  <2>11. mode' # "failed" => mem'[mode] \in kept[mode]
    BY <2>1, <2>7, <2>9, <2>10 DEF KInv, FilesKept, Excused
  <2>12. mode' # "failed" => \A f \in Files \ {"shots"} :
            IF HasRead(f)' THEN mem'[f] \in kept[f] ELSE mem'[f] = Fresh[f]
    <3> SUFFICES ASSUME mode' # "failed", NEW f \in Files \ {"shots"}
                 PROVE  IF HasRead(f)' THEN mem'[f] \in kept[f] ELSE mem'[f] = Fresh[f]
      OBVIOUS
    <3>1. IF HasRead(f) THEN mem[f] \in kept[f] ELSE mem[f] = Fresh[f]
      BY <2>1 DEF KInv, MemoryKept
    <3>2. CASE f = mode
      BY <2>1, <2>9, <2>10, <2>11, <3>2 DEF HasRead
    <3>3. CASE f # mode
      <4>1. mem'[f] = mem[f]
        BY <2>8, <3>3
      <4> QED BY <2>1, <3>1, <3>3, <4>1 DEF HasRead
    <3> QED BY <3>2, <3>3
  <2>13. "shots" \in Files /\ mem'["shots"] = mem["shots"]
    BY <2>1, <2>8 DEF Files
  <2>14. MemoryKept'
    BY <2>1, <2>12, <2>13 DEF KInv, MemoryKept
  <2> QED BY <2>4, <2>5, <2>6, <2>14 DEF KInv
<1>3. CASE Crash
  BY <1>3 DEF Crash, Down, Fresh, KInv, Shape, Alone, FilesKept, MemoryKept, WorkKept,
              HasRead, Excused
<1> QED BY <1>1, <1>2, <1>3

(* What a call changes in memory a file may hold from then on.             *)
LEMMA BecomesKept ==
    ASSUME Shape, KInv, mode = "up", mode' = "up", NEW f \in Files, NEW v, Becomes(f, v),
           UNCHANGED <<file, health, active>>,
           IF f = "shots" THEN early' = (early \/ ~active) ELSE early' = early
    PROVE  FilesKept' /\ MemoryKept'
<1>1. /\ DOMAIN mem = Files /\ DOMAIN kept = Files /\ "shots" \in Files
  BY DEF KInv, Shape, Files
<1>2. /\ DOMAIN mem' = Files /\ DOMAIN kept' = Files
      /\ \A g \in Files : mem'[g] = IF g = f THEN v ELSE mem[g]
      /\ \A g \in Files : kept'[g] = IF g = f THEN kept[g] \cup {v} ELSE kept[g]
  BY <1>1 DEF Becomes
<1>3. \A g \in Files : Excused(g) => Excused(g)'
  BY DEF Excused
<1>4. FilesKept'
  <2> SUFFICES ASSUME NEW g \in Files, ~Excused(g)'
               PROVE  /\ health'[g] = "none" => Fresh[g] \in kept'[g]
                      /\ health'[g] = "whole" => file'[g] \in kept'[g]
    BY DEF FilesKept
  <2>1. /\ health[g] = "none" => Fresh[g] \in kept[g]
        /\ health[g] = "whole" => file[g] \in kept[g]
    BY <1>3 DEF KInv, FilesKept
  <2>2. kept[g] \subseteq kept'[g]
    BY <1>2
  <2> QED BY <2>1, <2>2
<1>5. \A g \in Files \ {"shots"} : mem[g] \in kept[g]
  BY DEF KInv, MemoryKept, HasRead, Files
<1>6. \A g \in Files \ {"shots"} : HasRead(g)' /\ mem'[g] \in kept'[g]
  BY <1>2, <1>5 DEF HasRead, Files
<1>7. ~early' => IF active' THEN mem'["shots"] \in kept'["shots"] ELSE mem'["shots"] = Fresh["shots"]
  <2>1. CASE f = "shots"
    BY <1>1, <1>2, <2>1 DEF KInv, MemoryKept
  <2>2. CASE f # "shots"
    BY <1>1, <1>2, <2>2 DEF KInv, MemoryKept
  <2> QED BY <2>1, <2>2
<1>8. MemoryKept'
  BY <1>6, <1>7 DEF MemoryKept
<1> QED BY <1>4, <1>8

LEMMA CallKept ==
    ASSUME Shape, KInv, NEW c \in Callers, Call(c), ~overlap'
    PROVE  KInv'
<1>a. PICK call \in JobNames : Begin(c, call)
  BY DEF Call, Lock, ScriptLock, Move, Inner, Outer, Quit, Ask, JobNames
<1>b. /\ mode = "up" /\ mode' = "up" /\ pc[c] = "idle"
      /\ UNCHANGED <<file, health, active, snap>>
      /\ DOMAIN pc' = Callers /\ \A d \in Callers \ {c} : pc'[d] = pc[d]
  BY <1>a DEF Begin, Call, Lock, ScriptLock, Move, Inner, Outer, Quit, Ask, Goto, Shape
<1>c. \A d \in Callers \ {c} : pc'[d] = "idle"
  BY <1>a, <1>b DEF Begin
<1>1. ASSUME pc'[c] \in {"idle", "open", "read"}, pc'[c] = "open" => at'[c] # "actuations"
      PROVE  WorkKept'
  BY <1>1, <1>c DEF WorkKept
<1>2. ASSUME UNCHANGED <<mem, kept, early>> PROVE FilesKept' /\ MemoryKept'
  BY <1>2, <1>b DEF KInv, FilesKept, MemoryKept, HasRead, Excused
<1>3. ASSUME FilesKept', MemoryKept', WorkKept' PROVE KInv'
  BY <1>3, <1>c DEF KInv, Alone
<1>4. DOMAIN mem = Files /\ DOMAIN kept = Files /\ DOMAIN pc = Callers /\ DOMAIN at = Callers
  BY DEF KInv, Shape
<1>5. "locks" \in Files /\ "manual" \in Files /\ "shots" \in Files
  BY DEF Files
<1>6. ASSUME NEW k \in Switches, Lock(c, k) PROVE KInv'
  <2>1. PICK b \in BOOLEAN : Becomes("locks", [mem["locks"] EXCEPT ![k] = b])
    BY <1>6 DEF Lock
  <2>2. pc'[c] = "open" /\ at'[c] = "locks" /\ early' = early
    BY <1>6, <1>4 DEF Lock, Goto
  <2> QED BY <1>1, <1>3, <1>b, <1>5, <2>1, <2>2, BecomesKept
<1>7. ASSUME NEW k \in Manual, Move(c, k) PROVE KInv'
  <2>1. PICK b \in BOOLEAN : Becomes("manual", [mem["manual"] EXCEPT ![k] = b])
    BY <1>7 DEF Move
  <2>2. pc'[c] = "open" /\ at'[c] = "manual" /\ early' = early
    BY <1>7, <1>4 DEF Move, Goto
  <2> QED BY <1>1, <1>3, <1>b, <1>5, <2>1, <2>2, BecomesKept
<1>8. CASE Outer(c)
  <2>1. Becomes("shots", mem["shots"] + 1) /\ early' = (early \/ ~active)
    BY <1>8 DEF Outer
  <2>2. pc'[c] = "open" /\ at'[c] = "shots"
    BY <1>8, <1>4 DEF Outer, Goto
  <2> QED BY <1>1, <1>3, <1>b, <1>5, <2>1, <2>2, BecomesKept
<1>9. CASE Inner(c)
  <2>1. pc'[c] = "idle" /\ UNCHANGED <<mem, kept, early>>
    BY <1>9, <1>b DEF Inner
  <2> QED BY <1>1, <1>2, <1>3, <1>4, <2>1
<1>10. CASE Quit(c)
  <2>1. pc'[c] = "open" /\ at'[c] = "locks" /\ UNCHANGED <<mem, kept, early>>
    BY <1>10, <1>4 DEF Quit, Goto
  <2> QED BY <1>1, <1>2, <1>3, <1>4, <2>1
<1>11. ASSUME NEW j \in {"actuate", "canvas", "activate"}, Ask(c, j) PROVE KInv'
  <2>1. pc'[c] = "read" /\ UNCHANGED <<mem, kept, early>>
    BY <1>11, <1>4 DEF Ask, Goto
  <2> QED BY <1>1, <1>2, <1>3, <1>4, <2>1
<1>12. ASSUME NEW k \in Switches, ScriptLock(c, k) PROVE KInv'
  <2>1. PICK b \in BOOLEAN : Becomes("locks", [mem["locks"] EXCEPT ![k] = b])
    BY <1>12 DEF ScriptLock
  <2>2. pc'[c] = "idle" /\ early' = early
    BY <1>12, <1>b DEF ScriptLock
  <2> QED BY <1>1, <1>3, <1>b, <1>5, <2>1, <2>2, BecomesKept
<1> QED BY <1>6, <1>7, <1>8, <1>9, <1>10, <1>11, <1>12 DEF Call

LEMMA WorkStepKept ==
    ASSUME Shape, KInv, NEW c \in Callers, Work(c)
    PROVE  KInv'
<1>b. /\ DOMAIN mem = Files /\ DOMAIN file = Files /\ DOMAIN kept = Files
      /\ health \in [Files -> {"none", "torn", "whole"}]
      /\ DOMAIN pc = Callers /\ DOMAIN snap = Callers /\ at \in [Callers -> Files]
      /\ pc[c] # "idle" /\ mode = "up" /\ at[c] \in Files
      /\ \A f \in Files \ {"shots"} : mem[f] \in kept[f]
      /\ ~early => IF active THEN mem["shots"] \in kept["shots"]
                    ELSE mem["shots"] = Fresh["shots"]
  <2>1. pc[c] # "idle"
    BY DEF Work, ReadFails, ReadNothing, Read, Apply, CountActuation, Open, Take, Close,
           CloseLocks, CloseManual, Closed
  <2> QED BY <2>1 DEF KInv, Shape, MemoryKept, HasRead, Files
<1>a. \A d \in Callers \ {c} : pc'[d] = "idle"
  <2>1. \A d \in Callers \ {c} : pc[d] = "idle"
    BY <1>b DEF KInv, Alone
  <2> QED BY <2>1, <1>b DEF Work, ReadFails, ReadNothing, Read, Apply, CountActuation, Open,
            Take, Close, CloseLocks, CloseManual, Goto, Down
<1>c. Alone'
  BY <1>a DEF Alone
<1>1. CASE ReadFails(c)
  BY <1>1, <1>a, <1>b, <1>c DEF ReadFails, KInv, Shape, FilesKept, MemoryKept, WorkKept, HasRead, Excused
<1>2. CASE ReadNothing(c)
  <2>1. ~early => IF active' THEN mem["shots"] \in kept["shots"] ELSE mem["shots"] = Fresh["shots"]
    BY <1>2, <1>b DEF ReadNothing, KInv, FilesKept, Excused
  <2>2. /\ pc'[c] = "idle" /\ UNCHANGED <<mode, mem, file, health, at, snap, kept, early>>
        /\ DOMAIN pc' = Callers
    BY <1>2, <1>b DEF ReadNothing
  <2>3. MemoryKept'
    BY <2>1, <2>2, <1>b DEF KInv, MemoryKept, HasRead
  <2> QED BY <1>c, <2>2, <2>3, <1>a, <1>b DEF KInv, Shape, FilesKept, WorkKept, Excused
<1>3. CASE Read(c)
  <2>1. /\ pc'[c] = "apply" /\ snap'[c] = file[at[c]] /\ health[at[c]] = "whole"
        /\ DOMAIN pc' = Callers /\ DOMAIN snap' = Callers
        /\ UNCHANGED <<mode, mem, file, health, at, active, kept, early>>
    BY <1>3, <1>b DEF Read
  <2>2. WorkKept'
    BY <2>1, <1>a, <1>b DEF KInv, FilesKept, WorkKept, Excused
  <2> QED BY <1>c, <2>1, <2>2, <1>b DEF KInv, Shape, FilesKept, MemoryKept, HasRead, Excused
<1>4. CASE Apply(c)
  <2>1. /\ pc'[c] = "idle" /\ DOMAIN pc' = Callers /\ DOMAIN mem' = Files
        /\ \A f \in Files : mem'[f] = IF f = at[c] THEN snap[c] ELSE mem[f]
        /\ active' = (active \/ at[c] = "shots")
        /\ UNCHANGED <<mode, file, health, at, snap, kept, early>>
    BY <1>4, <1>b DEF Apply
  <2>2. ~Excused(at[c]) => snap[c] \in kept[at[c]]
    BY <1>4 DEF Apply, KInv, WorkKept
  <2>3. MemoryKept'
    BY <2>1, <2>2, <1>b DEF MemoryKept, HasRead, Excused, Files
  <2> QED BY <1>c, <2>1, <2>3, <1>a, <1>b DEF KInv, Shape, FilesKept, WorkKept, Excused
<1>5. CASE CountActuation(c)
  <2>1. PICK n : Becomes("actuations", n) /\ snap' = [snap EXCEPT ![c] = n]
    BY <1>5 DEF CountActuation
  <2>2. /\ pc'[c] = "open" /\ DOMAIN pc' = Callers /\ mode' = "up"
        /\ UNCHANGED <<file, health, at, active, early>>
    BY <1>5, <1>b DEF CountActuation
  <2>3. "actuations" \in Files /\ at[c] = "actuations"
    BY <1>5 DEF CountActuation, Files
  <2>4. mem'["actuations"] = n /\ snap'[c] = n /\ DOMAIN snap' = Callers
    BY <2>1, <2>3, <1>b DEF Becomes
  <2>5. FilesKept' /\ MemoryKept'
    BY <2>1, <2>2, <2>3, <1>b, BecomesKept
  <2>6. WorkKept'
    BY <2>2, <2>3, <2>4, <1>a DEF WorkKept
  <2> QED BY <1>c, <2>2, <2>4, <2>5, <2>6, <1>b DEF KInv, Shape
<1>6. CASE Open(c)
  <2>1. /\ pc'[c] = IF at[c] = "actuations" THEN "close" ELSE "take"
        /\ DOMAIN pc' = Callers
        /\ health' = [health EXCEPT ![at[c]] = "torn"]
        /\ UNCHANGED <<mode, mem, file, at, snap, active, kept, early>>
    BY <1>6, <1>b DEF Open
  <2>2. FilesKept'
    BY <2>1, <1>b DEF KInv, FilesKept, Excused
  <2>3. WorkKept'
    BY <1>6, <2>1, <1>a DEF Open, KInv, WorkKept, Excused
  <2>4. MemoryKept'
    BY <2>1 DEF KInv, MemoryKept, HasRead
  <2> QED BY <1>c, <2>1, <2>2, <2>3, <2>4, <1>b DEF KInv, Shape
<1>7. CASE Take(c)
  <2>1. /\ pc'[c] = "close" /\ snap'[c] = mem[at[c]]
        /\ DOMAIN pc' = Callers /\ DOMAIN snap' = Callers
        /\ UNCHANGED <<mode, mem, file, health, at, active, kept, early>>
    BY <1>7, <1>b DEF Take
  <2>2. WorkKept'
    BY <2>1, <1>a DEF WorkKept
  <2> QED BY <1>c, <2>1, <2>2, <1>b DEF KInv, Shape, FilesKept, MemoryKept, HasRead, Excused
<1>8. ASSUME Closed(c)
      PROVE  /\ DOMAIN file' = Files /\ health' \in [Files -> {"none", "torn", "whole"}]
             /\ \A f \in Files : f # at[c] => file'[f] = file[f] /\ health'[f] = health[f]
             /\ health'[at[c]] = "whole"
             /\ ~Excused(at[c]) => file'[at[c]] = mem[at[c]]
  BY <1>8, <1>b DEF Closed, KInv, WorkKept
<1>9. CASE Close(c)
  <2>1. /\ pc'[c] = "idle" /\ DOMAIN pc' = Callers /\ DOMAIN kept' = Files
        /\ \A f \in Files : kept'[f] = IF f = at[c] THEN {mem[f]} ELSE kept[f]
        /\ UNCHANGED <<mode, mem, at, snap, active, early>>
    BY <1>9, <1>b DEF Close
  <2>2. FilesKept'
    BY <2>1, <1>8, <1>9 DEF Close, KInv, FilesKept, Excused
  <2>3. MemoryKept'
    BY <2>1, <1>b DEF MemoryKept, HasRead, Files
  <2>4. WorkKept'
    BY <2>1, <1>a DEF WorkKept
  <2> QED BY <1>c, <2>1, <2>2, <2>3, <2>4, <1>8, <1>9, <1>b DEF Close, KInv, Shape
<1>10. CASE CloseLocks(c)
  <2>1. /\ pc'[c] = "open" /\ at'[c] = "manual" /\ DOMAIN pc' = Callers
        /\ at' \in [Callers -> Files] /\ at[c] = "locks"
        /\ UNCHANGED <<mode, mem, snap, active, kept, early>>
    BY <1>10, <1>b DEF CloseLocks, Goto, Files
  <2>2. FilesKept'
    BY <2>1, <1>b, <1>8, <1>10 DEF CloseLocks, KInv, FilesKept, Excused
  <2>3. MemoryKept'
    BY <2>1 DEF KInv, MemoryKept, HasRead
  <2>4. WorkKept'
    BY <2>1, <1>a DEF WorkKept
  <2> QED BY <1>c, <2>1, <2>2, <2>3, <2>4, <1>8, <1>10, <1>b DEF CloseLocks, KInv, Shape
<1>11. CASE CloseManual(c)
  <2>1. /\ mode' = "down" /\ mem' = Fresh /\ active' = FALSE /\ at[c] = "manual"
        /\ pc' = [d \in Callers |-> "idle"]
        /\ UNCHANGED <<at, snap, kept, early>>
    BY <1>11 DEF CloseManual, Down
  <2>2. FilesKept'
    BY <2>1, <1>b, <1>8, <1>11 DEF CloseManual, KInv, FilesKept, Excused
  <2>3. MemoryKept'
    BY <2>1 DEF MemoryKept, HasRead
  <2>4. WorkKept'
    BY <2>1 DEF WorkKept
  <2>5. DOMAIN Fresh = Files
    BY DEF Fresh
  <2> QED BY <1>c, <2>1, <2>2, <2>3, <2>4, <2>5, <1>8, <1>11, <1>b DEF CloseManual, KInv, Shape
<1> QED BY <1>1, <1>2, <1>3, <1>4, <1>5, <1>6, <1>7, <1>9, <1>10, <1>11 DEF Work

LEMMA NextKept == IInv /\ [Next]_vars => IInv'
<1> SUFFICES ASSUME IInv, [Next]_vars PROVE IInv' OBVIOUS
<1>1. CASE UNCHANGED vars
  BY <1>1 DEF vars, callers, IInv, KInv, Shape, Alone, FilesKept, MemoryKept, WorkKept,
              HasRead, Excused
<1>2. CASE Start \/ Load \/ Crash
  <2>1. overlap' = overlap
    BY <1>2 DEF Start, Load, Crash
  <2> QED BY <1>2, <2>1, ProgramShape, ProgramKept DEF IInv
<1>3. ASSUME NEW c \in Callers, Call(c) PROVE IInv'
  <2>1. overlap => overlap'
    BY <1>3 DEF Call, Lock, ScriptLock, Move, Inner, Outer, Quit, Ask, Begin
  <2> QED BY <1>3, <2>1, CallShape, CallKept DEF IInv
<1>4. ASSUME NEW c \in Callers, Work(c) PROVE IInv'
  <2>1. overlap' = overlap
    BY <1>4 DEF Work, ReadFails, ReadNothing, Read, Apply, CountActuation, Open, Take, Close,
                CloseLocks, CloseManual
  <2> QED BY <1>4, <2>1, WorkShape, WorkStepKept DEF IInv
<1> QED BY <1>1, <1>2, <1>3, <1>4 DEF Next

(* As long as no calls have overlapped, what was locked, moved and counted *)
(* is what the program holds after any number of restarts and crashes, and *)
(* after a canvas was opened; a lock from a script may be taken back.      *)
THEOREM LeftAsKept == Spec => []Kept
<1>1. IInv => Kept
  BY DEF IInv, KInv, MemoryKept, HasRead, Kept, Known, Files, Excused
<1> QED BY <1>1, InitKept, NextKept, PTL DEF Spec
====
