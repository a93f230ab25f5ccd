----------------------------- MODULE TimerWheel -----------------------------
(***************************************************************************)
(* The timer wheel of time/uc_time.c.                                      *)
(*                                                                         *)
(* The wheel has five levels: ms, s, m and h lists with one list per slot, *)
(* and a single list for everything that is due on a later day.  A tick    *)
(* advances the ms index and, whenever a level wraps to 0, the level above *)
(* it; the timers in the list a level's index arrives at move down to the  *)
(* level of their next non-zero field, or fire.                            *)
(*                                                                         *)
(* All five lists are protected by uc_timer_mtx, so a tick, an add and a   *)
(* delete are one action each.  Time is counted in ticks: the thread       *)
(* ticks once per pass of its loop, whatever the clock says.  The timers   *)
(* of one list do not influence each other, so a list is the set of the    *)
(* timers whose place it is.                                               *)
(***************************************************************************)
EXTENDS Naturals, Integers, Sequences, FiniteSets, FiniteSetsExt

CONSTANTS
    Timers,
    Sizes,       \* slots of the ms, s, m and h levels, <<1000, 60, 60, 24>> in the code
    DaySpan,     \* values of the day index, 2^16 in the code
    IntSpan,     \* values of an int, 2^32 in the code
    LongSpan,    \* values of a uint64_t, 2^64 in the code
    Intervals,   \* the intervals timers are added with, in ticks
    Ttls,        \* the numbers of firings they are added with, 0 for no limit
    AddTicks,    \* the ticks after which timers may be added
    LastTick     \* the tick a behaviour ends at

ASSUME WheelAssumption ==
    /\ Sizes \in Seq(Nat \ {0, 1}) /\ Len(Sizes) = 4
    /\ DaySpan \in Nat \ {0} /\ IntSpan \in Nat \ {0} /\ LongSpan \in Nat \ {0}
    /\ Intervals \subseteq Nat \ {0} /\ Ttls \subseteq Nat
    /\ AddTicks \subseteq Nat /\ LastTick \in Nat

VARIABLES
    idx,       \* ms_idx, s_idx, m_idx, h_idx, d_idx
    place,     \* the list a timer is linked in, <<level, slot>>
    interval,  \* of each timer, in ticks
    ttl,       \* the firings it has left, 0 for no limit
    next,      \* the time stamp its fields ms, s, m, h, d were computed from
    now,       \* history: ticks so far
    due,       \* history: the tick the timer should fire at
    budget,    \* history: the ttl it was added with
    fired      \* history: how often it has fired

timer == <<place, interval, ttl, next>>
vars == <<idx, timer, now, due, budget, fired>>

Levels == 1 .. 5
Nowhere == <<0, 0>>    \* not added, or deleted
Spent == <<0, 1>>      \* out of firings, unlinked, the handle still held

Linked(t) == place[t] \notin {Nowhere, Spent}

\* The ticks one step of a level stands for
Unit == [k \in Levels |-> CASE k = 1 -> 1
                            [] k = 2 -> Sizes[1]
                            [] k = 3 -> Sizes[1] * Sizes[2]
                            [] k = 4 -> Sizes[1] * Sizes[2] * Sizes[3]
                            [] k = 5 -> Sizes[1] * Sizes[2] * Sizes[3] * Sizes[4]]

Span(k) == IF k = 5 THEN DaySpan ELSE Sizes[k]

\* The fields ms, s, m, h, d of a time stamp
Field(x, k) == (x \div Unit[k]) % Span(k)

Slot(k, i) == IF k = 5 THEN 0 ELSE i

TypeOK ==
    /\ idx \in [Levels -> Nat] /\ \A k \in Levels : idx[k] < Span(k)
    /\ place \in [Timers -> (Levels \X Nat) \cup {Nowhere, Spent}]
    /\ \A t \in Timers : Linked(t) => place[t][2] < Span(place[t][1])
    /\ interval \in [Timers -> Intervals \cup {0}]
    /\ ttl \in [Timers -> Nat]
    /\ next \in [Timers -> 0 .. LongSpan - 1]
    /\ now \in 0 .. LastTick
    /\ due \in [Timers -> Nat] /\ budget \in [Timers -> Ttls \cup {0}]
    /\ fired \in [Timers -> Nat]

Init ==
    /\ idx = [k \in Levels |-> 0]
    /\ place = [t \in Timers |-> Nowhere]
    /\ interval = [t \in Timers |-> 0]
    /\ ttl = [t \in Timers |-> 0]
    /\ next = [t \in Timers |-> 0]
    /\ now = 0
    /\ due = [t \in Timers |-> 0]
    /\ budget = [t \in Timers |-> 0]
    /\ fired = [t \in Timers |-> 0]

-----------------------------------------------------------------------------
\* Slip: the interval counts from the start of the second.
StampFromSecond(ix, i) == (ix[2] * Unit[2] + ix[3] * Unit[3] + ix[4] * Unit[4] + ix[5] * Unit[5] + i) % LongSpan

\* The indices are summed as ints, which wrap around as two's complement, and
\* the interval is added as a uint64_t.
Stamp(ix, i) ==
    LET sum == ix[1] + ix[2] * Unit[2] + ix[3] * Unit[3] + ix[4] * Unit[4] + ix[5] * Unit[5]
        wrapped == sum % IntSpan
        int == IF wrapped < IntSpan \div 2 THEN wrapped ELSE wrapped - IntSpan
    IN  (int + i) % LongSpan

\* The list of the highest level that is in Ks, or an ms list
PlaceAt(x, Ks) == LET k == Max(Ks \cup {1}) IN <<k, Slot(k, Field(x, k))>>

\* uc_timer_node_reinsert: the highest level whose field is neither 0 nor now
Reinserted(ix, x) ==
    PlaceAt(x, {k \in 2 .. 5 : Field(x, k) # 0 /\ Field(x, k) # ix[k]})

\* uc_timer_add_do: the highest level whose field is not 0
Added(x) == PlaceAt(x, {k \in 2 .. 5 : Field(x, k) # 0})

-----------------------------------------------------------------------------
(* uc_timer_check_timeout.  The wheel w holds what a tick changes.  The levels *)
(* are served from the lowest up, each after its own index has advanced and    *)
(* before the index of the next one does.                                      *)

Wheel == [idx |-> idx, place |-> place, ttl |-> ttl, next |-> next,
          firing |-> [t \in Timers |-> 0]]

\* Slip: the index is not wrapped.
AdvancedUnwrapped(w, k) == [w.idx EXCEPT ![k] = @ + 1]

Advanced(w, k) == [w.idx EXCEPT ![k] = (@ + 1) % Span(k)]

\* The timers of the list the level's index points at; of the days' list those
\* that are due today
Arrived(w, k) ==
    {t \in Timers : /\ w.place[t] = <<k, Slot(k, w.idx[k])>>
                    /\ k = 5 => Field(w.next[t], 5) = w.idx[5]}

\* Slip: a timer leaving its level goes down one level only.
LowerByOne(w, t, k) == {j \in {k - 1} : j > 0 /\ Field(w.next[t], j) # 0}

\* Slip: the field is not compared with 0.
LowerToZero(w, t, k) == 1 .. k - 1

\* The levels below k the timer may move to
Lower(w, t, k) == {j \in 1 .. k - 1 : Field(w.next[t], j) # 0}

\* Slip: a timer stops one firing early or, with a ttl of 1, never.
LastFiringOffByOne(n) == n = 2

\* Whether the firing is the last one
LastFiring(n) == n = 1

Serve(w0, k) ==
    LET w == [w0 EXCEPT !.idx = Advanced(w0, k)]
        down == {t \in Arrived(w, k) : Lower(w, t, k) # {}}
        fire == Arrived(w, k) \ down
        again == {t \in fire : ~LastFiring(w.ttl[t])}
        stamp(t) == IF t \in again THEN Stamp(w.idx, interval[t]) ELSE w.next[t]
    IN  [w EXCEPT
           !.place = [t \in Timers |->
                        IF t \in down THEN PlaceAt(w.next[t], Lower(w, t, k))
                        ELSE IF t \in again THEN Reinserted(w.idx, stamp(t))
                        ELSE IF t \in fire THEN Spent
                        ELSE @[t]],
           !.ttl = [t \in Timers |-> IF t \in fire /\ @[t] > 0 THEN @[t] - 1 ELSE @[t]],
           !.next = [t \in Timers |-> stamp(t)],
           !.firing = [t \in Timers |-> @[t] + IF t \in fire THEN 1 ELSE 0]]

\* A level is served when all indices below it have wrapped to 0.
ServeIfReached(w, k) == IF \A j \in 1 .. k - 1 : w.idx[j] = 0 THEN Serve(w, k) ELSE w

Served ==
    ServeIfReached(ServeIfReached(ServeIfReached(ServeIfReached(ServeIfReached(
        Wheel, 1), 2), 3), 4), 5)

Tick ==
    /\ now < LastTick
    /\ now' = now + 1
    /\ LET w == Served IN
        /\ idx' = w.idx /\ place' = w.place /\ ttl' = w.ttl /\ next' = w.next
        /\ fired' = [t \in Timers |-> fired[t] + w.firing[t]]
        /\ due' = [t \in Timers |-> IF w.firing[t] > 0 THEN now' + interval[t] ELSE due[t]]
    /\ UNCHANGED <<interval, budget>>

\* uc_timer_add
Add(t, i, n) ==
    /\ place[t] = Nowhere /\ now \in AddTicks
    /\ place' = [place EXCEPT ![t] = Added(Stamp(idx, i))]
    /\ interval' = [interval EXCEPT ![t] = i]
    /\ ttl' = [ttl EXCEPT ![t] = n]
    /\ next' = [next EXCEPT ![t] = Stamp(idx, i)]
    /\ due' = [due EXCEPT ![t] = now + i]
    /\ budget' = [budget EXCEPT ![t] = n]
    /\ fired' = [fired EXCEPT ![t] = 0]
    /\ UNCHANGED <<idx, now>>

\* uc_timer_delete of a timer that is linked; TimerLists has the others.
Delete(t) ==
    /\ Linked(t)
    /\ place' = [place EXCEPT ![t] = Nowhere]
    /\ interval' = [interval EXCEPT ![t] = 0]
    /\ ttl' = [ttl EXCEPT ![t] = 0]
    /\ next' = [next EXCEPT ![t] = 0]
    /\ due' = [due EXCEPT ![t] = 0]
    /\ budget' = [budget EXCEPT ![t] = 0]
    /\ fired' = [fired EXCEPT ![t] = 0]
    /\ UNCHANGED <<idx, now>>

Next ==
    \/ Tick
    \/ \E t \in Timers :
        \/ \E i \in Intervals, n \in Ttls : Add(t, i, n)
        \/ Delete(t)

Spec == Init /\ [][Next]_vars

-----------------------------------------------------------------------------
\* Nothing overflows: the ticks are counted in an int that does not wrap, and no timer is
\* due after the last day the day index can count to.  In the code this is so for
\* LastTick below 2^31, 24 days of ticks, and every interval uc_timer_add accepts.
NoOverflow ==
    /\ LastTick < IntSpan \div 2
    /\ \A i \in Intervals : LastTick + i < DaySpan * Unit[5] /\ LastTick + i < LongSpan

Fires(t) == fired'[t] = fired[t] + 1

\* A linked timer fires at the tick it is due at and at no other, however many
\* levels it has moved down through and wherever the indices wrapped.
FiresOnTime ==
    [][\A t \in Timers : now' = now + 1 /\ Linked(t) => (Fires(t) <=> now' = due[t])]_vars

\* It holds of every firing that uc_timer_node_reinsert placed, and of the first
\* firing of a timer added when all indices were 0; uc_timer_add can place a
\* timer a turn late, see timer_late in the README.
FiresOnTimeOncePlaced ==
    [][\A t \in Timers :
         now' = now + 1 /\ Linked(t) /\ (fired[t] > 0 \/ due[t] = interval[t]) =>
           (Fires(t) <=> now' = due[t])]_vars

\* A timer never fires before it is due, and when it is late it is late by
\* whole turns of a level: it waited in the slot of the current second,
\* minute or hour until the index came round.
LateByTurnsOnly ==
    [][\A t \in Timers : Linked(t) /\ Fires(t) =>
         /\ now' >= due[t]
         /\ (now' - due[t]) % Unit[3] = 0]_vars

\* A timer added with a ttl fires that often and not once more, and is out of
\* the wheel when it has.
TtlIsSpent ==
    \A t \in Timers :
        /\ budget[t] > 0 => fired[t] + ttl[t] = budget[t]
        /\ place[t] = Spent <=> budget[t] > 0 /\ ttl[t] = 0

\* No list of index 0 of the ms, s, m and h levels is ever used.  A timer put
\* there would be served before the index of the level above advances, and
\* reinserted from a time that is one turn too early.
ZeroSlotsEmpty == \A t \in Timers : place[t][1] \in 1 .. 4 => place[t][2] # 0
=============================================================================
