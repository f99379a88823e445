------------------------------- MODULE IdGen -------------------------------
(* pkg/idgen: the generators of auction, goods, room, user, ... ids, one in   *)
(* each process, and the wall clocks they read.                               *)
EXTENDS Naturals, FiniteSets

CONSTANTS
    Workers,     \* worker ids, 0..1023 in the code: one process for each
    WorkerIds,   \* 2^workerBits
    Sequences,   \* 2^sequenceBits: ids of one worker in one millisecond
    MaxMilli     \* bound: the clock stops here

ASSUME IdGenAssumption ==
    /\ WorkerIds \in Nat \ {0} /\ Sequences \in Nat \ {0} /\ MaxMilli \in Nat \ {0}
    /\ Workers \subseteq 0..(WorkerIds - 1)

VARIABLES
    generators,   \* lastMilli and sequence of each worker's generator
    milli,        \* the wall clock, in milliseconds
    restarted,    \* workers whose generator was made anew
    ids,          \* every id handed out
    handedOut     \* how many that were

idVars == <<generators, milli, restarted, ids, handedOut>>

New == [last |-> 0, sequence |-> 0]

IdsInit ==
    /\ generators = [w \in Workers |-> New]
    /\ milli = 1
    /\ restarted = {}
    /\ ids = {}
    /\ handedOut = 0

-----------------------------------------------------------------------------
(* (now - epoch) << 22 | worker << 12 | sequence *)
Id(t, w, s) == (t * WorkerIds + w) * Sequences + s

(* Mutant of Now: a clock that was set back is believed. *)
NowUnclamped(w) == milli

(* A clock that was set back stands still until it is where it was. *)
Now(w) == IF milli < generators[w].last THEN generators[w].last ELSE milli

(* Mutant of Wraps: one id too many. *)
WrapsLate(s) == s = Sequences

(* The next sequence number would not fit its bits. *)
Wraps(s) == s + 1 = Sequences

Issue(w, t, s) ==
    /\ generators' = [generators EXCEPT ![w] = [last |-> t, sequence |-> s]]
    /\ ids' = ids \cup {Id(t, w, s)}
    /\ handedOut' = handedOut + 1
    /\ UNCHANGED <<milli, restarted>>

(* Next, under the generator's mutex.  When the sequence wraps the caller     *)
(* sleeps until the clock is past lastMilli: the first disjunct, later.       *)
NextId(w) ==
    LET g == generators[w] IN
    \/ Now(w) # g.last /\ Issue(w, Now(w), 0)
    \/ Now(w) = g.last /\ ~Wraps(g.sequence) /\ Issue(w, Now(w), g.sequence + 1)

MilliTick ==
    /\ milli < MaxMilli
    /\ milli' = milli + 1
    /\ UNCHANGED <<generators, restarted, ids, handedOut>>

(* The clock is set back under generators that remember what they issued;     *)
(* one that was made anew does not, see Restart.                              *)
SetBack(t) ==
    /\ restarted = {} /\ t < milli
    /\ milli' = t
    /\ UNCHANGED <<generators, restarted, ids, handedOut>>

(* A process starts again with an empty generator.  Assumed of the machines:  *)
(* by then the clock is past the last id's millisecond, and stays there.      *)
Restart(w) ==
    /\ milli > generators[w].last
    /\ generators' = [generators EXCEPT ![w] = New]
    /\ restarted' = restarted \cup {w}
    /\ UNCHANGED <<milli, ids, handedOut>>

IdsNext ==
    \/ \E w \in Workers : NextId(w) \/ Restart(w)
    \/ \E t \in 1..MaxMilli : SetBack(t)
    \/ MilliTick

IdsSpec == IdsInit /\ [][IdsNext]_idVars

-----------------------------------------------------------------------------
IdsTypeOK ==
    /\ generators \in [Workers -> [last : 0..MaxMilli, sequence : 0..(Sequences - 1)]]
    /\ milli \in 1..MaxMilli
    /\ restarted \subseteq Workers
    /\ ids \subseteq Nat
    /\ handedOut \in Nat

(* No id is handed out twice, by whichever worker, when a millisecond's       *)
(* sequence is used up, when the clock is set back and after a restart.       *)
IdsNeverRepeat == Cardinality(ids) = handedOut
=============================================================================
