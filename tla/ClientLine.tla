---- MODULE ClientLine ----
(***************************************************************************)
(* A client's copy of the line: ClientSwitchManager, which the monitor     *)
(* keeps like the switches of the line's computer by three words, and      *)
(* which the client's own commands and locks change at once.               *)
(*                                                                         *)
(* The line's computer is what its switches are, and the words it makes of *)
(* them (_make_word, get_owners).  A load is two steps, the answer and its *)
(* use; in between the switches and the copy may change.                   *)
(***************************************************************************)
EXTENDS StatusMonitor, Sequences, SequencesExt

CONSTANTS
    Order,        \* the switches, in the order of the dictionary
    Parent,       \* the parent of a switch, or the switch itself
    Owners,       \* the owners in the order of their names, the free first
    Version,      \* PYCHRON_VALVE_VERSION
    MaxChanges    \* bound: the changes of the switches

Switches == Range(Order)
Free == Owners[1]

ASSUME LineAssumption ==
    /\ Order \in Seq(Switches) /\ IsInjective(Order) /\ Parent \in [Switches -> Switches]
    /\ Owners \in Seq(Range(Owners)) /\ Len(Owners) > 0 /\ IsInjective(Owners)
    /\ Version \in {0, 1} /\ MaxChanges \in Nat

VARIABLES
    line,       \* state, software_lock and owner of the switches
    copy,       \* those of the client
    asked,      \* who has an answer and has not used it yet
    word,       \* that answer
    sent,       \* the switch of a client's command under way, as a set
    changes     \* bound

lineVars == <<line, copy, asked, word, sent, changes>>
vars == <<monitorVars, lineVars>>

Values == [state : BOOLEAN, lock : BOOLEAN, owner : Range(Owners)]
Rest == [state |-> FALSE, lock |-> FALSE, owner |-> Free]

(* Callers load too, in refresh_states.                                    *)
Readers == Callers \cup Threads

Init ==
    /\ MonitorInit
    /\ line = [k \in Switches |-> Rest]
    /\ copy = [k \in Switches |-> Rest]
    /\ asked = {} /\ word = [r \in Readers |-> <<>>]
    /\ sent = {} /\ changes = 0

----------------------------------------------------------------------------
(* The line and the commands of the client.                                *)
Bounded == changes < MaxChanges /\ changes' = changes + 1

(* Somebody else opens, closes, locks, unlocks or owns a switch.           *)
Change(k, field) ==
    /\ Bounded
    /\ \E v \in (IF field = "owner" THEN Range(Owners) ELSE BOOLEAN) :
          line' = [line EXCEPT ![k][field] = v]
    /\ UNCHANGED <<monitorVars, copy, asked, word, sent>>

(* The client has a switch moved that is not locked in its copy; children  *)
(* are commanded after it, one by one.  Once that is acknowledged ...      *)
Command(k) ==
    /\ Bounded
    /\ sent = {} /\ ~copy[k].lock
    /\ \E s \in BOOLEAN :
          line' = [line EXCEPT ![k].state = s] /\ sent' = {[switch |-> k, to |-> s]}
    /\ UNCHANGED <<monitorVars, copy, asked, word>>

(* ... it records it.                                                      *)
Record ==
    \E c \in sent :
       /\ copy' = [copy EXCEPT ![c.switch].state = c.to]
       /\ sent' = {}
       /\ UNCHANGED <<monitorVars, line, asked, word, changes>>

(* A lock set at a client is the client's only.                            *)
LockHere(k) ==
    /\ Bounded
    /\ copy' = [copy EXCEPT ![k].lock = ~@]
    /\ UNCHANGED <<monitorVars, line, asked, word, sent>>

----------------------------------------------------------------------------
(* The words.                                                              *)
(* _make_word names the first n switches, all of them unless its time is   *)
(* over; the keys it remembers carry their values and stop no switch from  *)
(* being named the next time.                                              *)
Named(field, n) ==
    [k \in {Order[m] : m \in 1..n} |-> line[k][field]]

(* _parse_word: keys and bits of the word of version 1 are looked for      *)
(* around a bar, but _make_word puts a colon there: nothing is found.      *)
Parse(w) == IF Version = 1 THEN <<>> ELSE w

Rank(seq, x) == CHOOSE n \in DOMAIN seq : seq[n] = x

(* The last name in the word of owners, the groups of which are in the     *)
(* order of the owners.                                                    *)
OwnerRank(k) == Rank(Owners, line[k].owner)

LastNamed ==
    CHOOSE k \in Switches : \A j \in Switches :
       \/ OwnerRank(j) < OwnerRank(k)
       \/ OwnerRank(j) = OwnerRank(k) /\ Rank(Order, j) <= Rank(Order, k)

(* get_owners_word does not take the checksum off the word: it is read as  *)
(* a part of the last name, which is then no switch's.  If there is but    *)
(* one group, its owner is read as a part of the first name, and the names *)
(* in between are taken for free ones.                                     *)
Heard ==
    LET owned == {line[k].owner : k \in Switches}
    IN  IF Cardinality(owned) = 1 /\ Free \notin owned
        THEN [k \in Switches \ {Order[1], LastNamed} |-> Free]
        ELSE [k \in Switches \ {LastNamed} |-> line[k].owner]

(* The word a load of this kind is answered with, if it is whole           *)
Whole(kind) == IF kind = "owner" THEN Heard ELSE Parse(Named(kind, Len(Order)))

(* Where a reader is                                                       *)
At(r, kind) == IF r \in Callers THEN pc[r] = kind ELSE at[r] = kind /\ Due(r, kind)

(* A word comes in.                                                        *)
Answer(r, kind, w) ==
    /\ At(r, kind) /\ r \notin asked
    /\ asked' = asked \cup {r}
    /\ word' = [word EXCEPT ![r] = w]
    /\ UNCHANGED <<monitorVars, line, copy, sent, changes>>

AskWhole(r, kind) == Answer(r, kind, Whole(kind))

(* A word gets lost or is damaged, which its checksum shows, or its maker  *)
(* ran out of time.                                                        *)
AskPart(r, kind) ==
    \/ Answer(r, kind, <<>>)
    \/ kind # "owner" /\ \E n \in 1..Len(Order) : Answer(r, kind, Parse(Named(kind, n)))

\* Mutant: the children follow a parent whether or not it has changed.
MoveAlways(st, k, w) ==
    IF k \in DOMAIN w
    THEN [j \in Switches |-> IF j = k \/ Parent[j] = k THEN [st[j] EXCEPT !.state = w[k]]
                             ELSE st[j]]
    ELSE st

(* load_valve_states: a switch that differs from the word takes its        *)
(* children with it, whether they were looked at already or not; ...       *)
Move(st, k, w) ==
    IF k \in DOMAIN w /\ w[k] # st[k].state
    THEN [j \in Switches |-> IF j = k \/ Parent[j] = k THEN [st[j] EXCEPT !.state = w[k]]
                             ELSE st[j]]
    ELSE st

(* ... one switch after another.                                           *)
Moved(c, w) ==
    LET after[n \in 0..Len(Order)] ==
            IF n = 0 THEN c ELSE Move(after[n - 1], Order[n], w)
    IN  after[Len(Order)]

(* load_valve_lock_states and load_valve_owners set what the word names.   *)
Set(c, w, field) ==
    [k \in Switches |-> IF k \in DOMAIN w THEN [c[k] EXCEPT ![field] = w[k]] ELSE c[k]]

\* Mutant: the reader does not forget that it has an answer.
UseKept(r, kind) ==
    /\ At(r, kind) /\ r \in asked
    /\ copy' = IF kind = "state" THEN Moved(copy, word[r]) ELSE Set(copy, word[r], kind)
    /\ IF r \in Callers THEN Refreshed(r, kind) ELSE Past(r, kind)
    /\ UNCHANGED <<line, asked, word, sent, changes>>

Use(r, kind) ==
    /\ At(r, kind) /\ r \in asked
    /\ copy' = IF kind = "state" THEN Moved(copy, word[r]) ELSE Set(copy, word[r], kind)
    /\ asked' = asked \ {r}
    /\ word' = [word EXCEPT ![r] = <<>>]
    /\ IF r \in Callers THEN Refreshed(r, kind) ELSE Past(r, kind)
    /\ UNCHANGED <<line, sent, changes>>

----------------------------------------------------------------------------
Next ==
    \/ \E c \in Callers : (Call(c) \/ \E j \in Jobs[c] : Request(c, j)) /\ UNCHANGED lineVars
    \/ \E t \in Threads : Turn(t) /\ UNCHANGED lineVars
    \/ \E r \in Readers, kind \in Kinds :
          AskWhole(r, kind) \/ AskPart(r, kind) \/ Use(r, kind)
    \/ \E k \in Switches : Command(k) \/ LockHere(k) \/ \E field \in DOMAIN Rest : Change(k, field)
    \/ Record

(* Threads go on.  Words get lost, but not for ever: whoever asks for one  *)
(* again and again gets it whole again and again.                          *)
Fairness ==
    /\ \A c \in Callers : WF_vars(Call(c) /\ UNCHANGED lineVars)
    /\ \A t \in Threads : WF_vars(Turn(t) /\ UNCHANGED lineVars)
    /\ \A r \in Readers, kind \in Kinds : SF_vars(AskWhole(r, kind)) /\ WF_vars(Use(r, kind))
    /\ WF_vars(Record)

Spec == Init /\ [][Next]_vars /\ Fairness

----------------------------------------------------------------------------
(* Line and copy are of the same kind, and a word names switches and is    *)
(* held only by who is at a load.                                          *)
TypeOK ==
    /\ MonitorTypeOK
    /\ line \in [Switches -> Values] /\ copy \in [Switches -> Values]
    /\ asked \subseteq Readers
    /\ \A r \in Readers : DOMAIN word[r] \subseteq Switches /\ (r \notin asked => word[r] = <<>>)
    /\ \A r \in asked : \E kind \in Kinds : At(r, kind)
    /\ sent \subseteq [switch : Switches, to : BOOLEAN]
    /\ changes \in 0..MaxChanges

Same(field) == \A k \in Switches : copy[k][field] = line[k][field]

Listening == Quiet /\ clients > 0

(* With a client registered the copy comes to the states and locks of the  *)
(* line and stays there, once nothing changes any more: stale words,       *)
(* states taken over from a parent, commands recorded late and locks set   *)
(* here are all made good.  It takes words of version 0, for nothing is    *)
(* read of those of version 1; and owners are left out, of which the last  *)
(* one named is never heard.                                               *)
CopyFollows == <>[]Listening => <>[](Same("state") /\ Same("lock"))
====
