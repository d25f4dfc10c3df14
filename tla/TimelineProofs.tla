---------------------------- MODULE TimelineProofs -----------------------------
(***************************************************************************)
(* Proofs about the two implementations of the recipient timeline, for     *)
(* every set of sessions, rooms, payloads and clock readings and every     *)
(* value of the bounds.  First the tables: what each operation does to the *)
(* rows of one session; the safety invariants, from one lemma per          *)
(* conjunct; and the refinement of Timeline.  Then the reducer: what it    *)
(* promises of every sequence of calls, those it refuses included, and     *)
(* that it implements Timeline.  Then the replay: the database says what   *)
(* the reducer says after every fixture that the reducer accepts.          *)
(***************************************************************************)
EXTENDS RecipientStoreTimeline, ReplayAgreement, SequenceTheorems, TLAPS

-----------------------------------------------------------------------------
(* What the definitions of RecipientEvents return. *)

\* Every decoded message carries a recipient key or none, a dedup key and a
\* clock reading: decode_recipient_payload, and the step normalized_recipient.
LEMMA DecodedType ==
  ASSUME NEW e \in DecodedEvents \cup NormalizedEvents
  PROVE  /\ e.recipient_key \in RecipientKeys \cup {NULL}
         /\ e.dedup_key \in DedupKeys
         /\ e.stamp \in Stamps
<1>1. \A p \in Payload : canonical_recipient_key(p) \in RecipientKeys \cup {NULL}
  BY DEF canonical_recipient_key, RecipientKeys, Payload
<1>2. CASE e \in DecodedEvents
  <2>1. PICK f \in Frames : e = decode_recipient_payload(f)
    BY <1>2 DEF DecodedEvents
  <2>2. /\ f.payload \in Payloads /\ f.envelope \in EnvelopeIds /\ f.stamp \in Stamps
        /\ f.payload \in Payload
    BY EventsAssumption DEF Frames
  <2>3. canonical_recipient_key(f.payload) \in RecipientKeys \cup {NULL}
    BY <1>1, <2>2
  <2>4. dedup_key(f) \in DedupKeys
    <3>1. msg_id(f) \in MsgIds \cup {NULL}
      BY <2>2, EventsAssumption DEF msg_id, Payload
    <3>2. f.stamp.at \in Times
      BY <2>2 DEF Stamps
    <3> QED BY <2>2, <3>1, <3>2 DEF dedup_key, DedupKeys
  <2> QED BY <2>1, <2>2, <2>3, <2>4 DEF decode_recipient_payload
<1>3. CASE e \in NormalizedEvents
  <2>1. PICK p \in Payloads, h \in Payloads, st \in Stamps : e = normalized_recipient(p, h, st)
    BY <1>3 DEF NormalizedEvents
  <2>2. p \in Payload /\ st.at \in Times
    BY EventsAssumption DEF Stamps
  <2>3. IF p.msg # NULL THEN <<"msg", p.msg>> \in DedupKeys
        ELSE <<"hash", h, st.at \div BucketMs>> \in DedupKeys
    BY <2>2 DEF DedupKeys, Payload
  <2> QED BY <1>1, <2>1, <2>2, <2>3 DEF normalized_recipient
<1> QED BY <1>2, <1>3

\* The named states are states of an interval, and waiting is not a disconnect.
LEMMA StatesFacts ==
  /\ {Waiting, EmptyRecipient, Disconnected} \subseteq States
  /\ \A k \in RecipientKeys : Active(k) \in States
  /\ Waiting # Disconnected
BY DEF States, Waiting, EmptyRecipient, Disconnected, Active

\* The state an event asks for is one of evidence: never waiting, never
\* im_disconnected, and it bears the event's recipient key.
LEMMA TargetStateType ==
  ASSUME NEW e \in DecodedEvents \cup NormalizedEvents
  PROVE  /\ TargetState(e) \in States \ {Waiting, Disconnected}
         /\ TargetState(e).recipient_key = e.recipient_key
BY DecodedType, StatesFacts
   DEF TargetState, States, Waiting, EmptyRecipient, Disconnected, Active

-----------------------------------------------------------------------------
(* What the row operations do to the interval list of one session. *)

\* The close half: only the newest row changes, and only its closing columns.
LEMMA CloseEffect ==
  ASSUME NEW s \in SessionIds, intervals[s] \in Seq(Interval), intervals[s] # <<>>,
         NEW st \in Stamps, NEW event \in DedupKeys \cup {NULL}
  PROVE  LET q == intervals[s]
             n == Len(q)
             c == _close_interval(s, st, event)
         IN /\ n \in Nat \ {0}
            /\ c \in Seq(Interval)
            /\ Len(c) = n
            /\ \A i \in 1 .. n : i # n => c[i] = q[i]
            /\ c[n].state = q[n].state
            /\ c[n].start = q[n].start
            /\ c[n].start_event = q[n].start_event
            /\ c[n].ended_at = st.at
            /\ c[n].ended_runtime = st.runtime
            /\ c[n].end_event = event
            /\ c[n].ended_mono = IF st.runtime = q[n].start.runtime THEN st.mono ELSE NULL
<1> DEFINE q == intervals[s]
           n == Len(q)
           row == q[n]
           r == [row EXCEPT !.ended_at = st.at,
                            !.ended_mono = IF st.runtime = row.start.runtime
                                           THEN st.mono ELSE NULL,
                            !.ended_runtime = st.runtime, !.end_event = event]
<1>1. n \in Nat \ {0} /\ n \in 1 .. n
  BY EmptySeq, LenProperties
<1>2. row \in Interval
  BY <1>1, ElementOfSeq
<1>3. /\ r \in Interval
      /\ r.state = row.state /\ r.start = row.start /\ r.start_event = row.start_event
      /\ r.ended_at = st.at /\ r.ended_runtime = st.runtime /\ r.end_event = event
      /\ r.ended_mono = IF st.runtime = row.start.runtime THEN st.mono ELSE NULL
  BY <1>2 DEF Interval, Stamps
<1>4. _close_interval(s, st, event) = [q EXCEPT ![n] = r]
  BY DEF _close_interval, current
<1> HIDE DEF q, n, row, r
<1>5. /\ [q EXCEPT ![n] = r] \in Seq(Interval)
      /\ Len([q EXCEPT ![n] = r]) = n
      /\ \A j \in 1 .. n : [q EXCEPT ![n] = r][j] = IF j = n THEN r ELSE q[j]
  BY <1>1, <1>3, ExceptSeq DEF q, n
<1>6. QED
  BY <1>1, <1>3, <1>4, <1>5 DEF q, n, row

\* A transition: the newest row is closed and one row is added.
LEMMA TransitionEffect ==
  ASSUME intervals \in [SessionIds -> Seq(Interval)],
         NEW s \in SessionIds, intervals[s] # <<>>,
         NEW state \in States, NEW st \in Stamps, NEW event \in DedupKeys \cup {NULL},
         _transition(s, state, st, event)
  PROVE  LET q == intervals[s]
             n == Len(q)
             new == intervals'[s]
         IN /\ intervals' \in [SessionIds -> Seq(Interval)]
            /\ \A t \in SessionIds : t # s => intervals'[t] = intervals[t]
            /\ n \in Nat \ {0} /\ Len(new) = n + 1
            /\ \A i \in 1 .. n : i # n => new[i] = q[i]
            /\ new[n].state = q[n].state
            /\ new[n].start = q[n].start
            /\ new[n].start_event = q[n].start_event
            /\ new[n].ended_at = st.at
            /\ new[n].ended_runtime = st.runtime
            /\ new[n].end_event = event
            /\ new[n].ended_mono = IF st.runtime = q[n].start.runtime THEN st.mono ELSE NULL
            /\ new[n + 1] = _open_interval(state, st, event)
<1> DEFINE q == intervals[s]
           n == Len(q)
           c == _close_interval(s, st, event)
           o == _open_interval(state, st, event)
<1>1. q \in Seq(Interval) /\ q # <<>>
  OBVIOUS
<1>2. /\ n \in Nat \ {0} /\ c \in Seq(Interval) /\ Len(c) = n
      /\ \A i \in 1 .. n : i # n => c[i] = q[i]
      /\ c[n].state = q[n].state /\ c[n].start = q[n].start
      /\ c[n].start_event = q[n].start_event
      /\ c[n].ended_at = st.at /\ c[n].ended_runtime = st.runtime
      /\ c[n].end_event = event
      /\ c[n].ended_mono = IF st.runtime = q[n].start.runtime THEN st.mono ELSE NULL
  BY <1>1, CloseEffect
<1>3. o \in Interval
  BY DEF _open_interval, Interval
<1>4. intervals' = [intervals EXCEPT ![s] = Append(c, o)]
  BY DEF _transition
<1> HIDE DEF c, o
<1>5. /\ Append(c, o) \in Seq(Interval)
      /\ Len(Append(c, o)) = Len(c) + 1
      /\ \A i \in 1 .. Len(c) : Append(c, o)[i] = c[i]
      /\ Append(c, o)[Len(c) + 1] = o
  BY <1>2, <1>3, AppendProperties
<1>6. /\ intervals' \in [SessionIds -> Seq(Interval)]
      /\ intervals'[s] = Append(c, o)
      /\ \A t \in SessionIds : t # s => intervals'[t] = intervals[t]
  BY <1>4, <1>5
<1>7. n \in 1 .. n
  BY <1>2
<1>8. QED
  BY <1>2, <1>5, <1>6, <1>7 DEF o

\* The rows of start_session: one open row, waiting for the first event.
LEMMA StartEffect ==
  ASSUME intervals \in [SessionIds -> Seq(Interval)],
         NEW s \in SessionIds, NEW r \in Rooms, NEW recording \in BOOLEAN,
         NEW st \in Stamps, start_session(s, r, recording, st)
  PROVE  /\ intervals' \in [SessionIds -> Seq(Interval)]
         /\ \A t \in SessionIds : t # s => intervals'[t] = intervals[t]
         /\ Len(intervals'[s]) = 1
         /\ intervals'[s][1] = _open_interval(Waiting, st, NULL)
<1> DEFINE o == _open_interval(Waiting, st, NULL)
<1>1. o \in Interval
  BY StatesFacts DEF _open_interval, Interval
<1>2. intervals' = [intervals EXCEPT ![s] = <<o>>]
  BY DEF start_session
<1> HIDE DEF o
<1>3. <<o>> \in Seq(Interval) /\ Len(<<o>>) = 1 /\ <<o>>[1] = o
  BY <1>1
<1>4. QED
  BY <1>2, <1>3 DEF o

\* Recovery touches open rows of abandoned sessions and nothing else.
LEMMA RecoverEffect ==
  ASSUME intervals \in [SessionIds -> Seq(Interval)],
         NEW runtime \in Runtimes, NEW at \in Times,
         recover_interrupted(runtime, at), NEW s \in SessionIds
  PROVE  /\ intervals' \in [SessionIds -> Seq(Interval)]
         /\ s \notin Abandoned => intervals'[s] = intervals[s]
         /\ Len(intervals'[s]) = Len(intervals[s])
         /\ \A i \in 1 .. Len(intervals[s]) :
              LET old == intervals[s][i]
                  new == intervals'[s][i]
              IN IF s \in Abandoned /\ old.ended_at = NULL
                 THEN /\ new.state = old.state /\ new.start = old.start
                      /\ new.start_event = old.start_event
                      /\ new.end_event = old.end_event
                      /\ new.ended_at = at /\ new.ended_mono = NULL
                      /\ new.ended_runtime = runtime
                 ELSE new = old
<1> DEFINE Row(t, i) ==
             IF intervals[t][i].ended_at = NULL
             THEN [intervals[t][i] EXCEPT !.ended_at = at, !.ended_mono = NULL,
                                          !.ended_runtime = runtime]
             ELSE intervals[t][i]
           Rows(t) == [i \in DOMAIN intervals[t] |-> Row(t, i)]
<1>1. ASSUME NEW t \in SessionIds
      PROVE  /\ Len(intervals[t]) \in Nat
             /\ DOMAIN intervals[t] = 1 .. Len(intervals[t])
             /\ \A i \in 1 .. Len(intervals[t]) : intervals[t][i] \in Interval
  <2>1. intervals[t] \in Seq(Interval)
    OBVIOUS
  <2>2. QED
    BY <2>1, LenProperties, ElementOfSeq
<1>2. ASSUME NEW t \in SessionIds, NEW i \in 1 .. Len(intervals[t])
      PROVE  /\ Row(t, i) \in Interval
             /\ intervals[t][i].ended_at = NULL =>
                  /\ Row(t, i).state = intervals[t][i].state
                  /\ Row(t, i).start = intervals[t][i].start
                  /\ Row(t, i).start_event = intervals[t][i].start_event
                  /\ Row(t, i).end_event = intervals[t][i].end_event
                  /\ Row(t, i).ended_at = at /\ Row(t, i).ended_mono = NULL
                  /\ Row(t, i).ended_runtime = runtime
             /\ intervals[t][i].ended_at # NULL => Row(t, i) = intervals[t][i]
  <2>1. intervals[t][i] \in Interval
    BY <1>1
  <2>2. QED
    BY <2>1 DEF Interval
<1>3. intervals' = [t \in SessionIds |-> IF t \in Abandoned THEN Rows(t) ELSE intervals[t]]
  BY DEF recover_interrupted
<1> HIDE DEF Row
<1>4. ASSUME NEW t \in SessionIds
      PROVE  /\ Rows(t) \in Seq(Interval)
             /\ Len(Rows(t)) = Len(intervals[t])
             /\ \A i \in 1 .. Len(intervals[t]) : Rows(t)[i] = Row(t, i)
  <2>1. Rows(t) \in [1 .. Len(intervals[t]) -> Interval]
    BY <1>1, <1>2
  <2>2. QED
    BY <2>1, <1>1, SeqDef
<1> HIDE DEF Rows
<1>5. intervals' \in [SessionIds -> Seq(Interval)]
  BY <1>3, <1>4
<1>6. CASE s \in Abandoned
  <2>1. intervals'[s] = Rows(s)
    BY <1>3, <1>6
  <2>2. QED
    BY <2>1, <1>2, <1>4, <1>5, <1>6
<1>7. CASE s \notin Abandoned
  <2>1. intervals'[s] = intervals[s]
    BY <1>3, <1>7
  <2>2. QED
    BY <2>1, <1>5, <1>7
<1>8. QED
  BY <1>6, <1>7

-----------------------------------------------------------------------------
(* Type correctness in the form the provers can use. *)

EventTables == UNION {[D -> Event] : D \in SUBSET DedupKeys}

Typed ==
  /\ sessions \in [SessionIds -> Session]
  /\ intervals \in [SessionIds -> Seq(Interval)]
  /\ events \in [SessionIds -> EventTables]

\* TypeOK, in the form that names a set for the tables of events.
LEMMA TypedIsTypeOK == Typed <=> TypeOK
<1>1. ASSUME Typed PROVE TypeOK
  <2>1. ASSUME NEW s \in SessionIds
        PROVE  /\ DOMAIN events[s] \subseteq DedupKeys
               /\ events[s] \in [DOMAIN events[s] -> Event]
    <3>1. PICK D \in SUBSET DedupKeys : events[s] \in [D -> Event]
      BY <1>1 DEF Typed, EventTables
    <3>2. QED
      BY <3>1
  <2>2. events = [s \in SessionIds |-> events[s]]
    BY <1>1 DEF Typed
  <2>3. QED
    BY <1>1, <2>1, <2>2 DEF Typed, TypeOK
<1>2. ASSUME TypeOK PROVE Typed
  <2>1. ASSUME NEW s \in SessionIds
        PROVE  events[s] \in EventTables
    BY <1>2 DEF TypeOK, EventTables
  <2>2. events \in [SessionIds -> EventTables]
    BY <1>2, <2>1 DEF TypeOK
  <2>3. QED
    BY <1>2, <2>2 DEF Typed, TypeOK
<1>3. QED
  BY <1>1, <1>2

-----------------------------------------------------------------------------
(* What a step does to the rows of one session: nothing, or one of four    *)
(* things.  The invariants and the refinement are proved from these.       *)

Kept(t) == intervals'[t] = intervals[t] /\ sessions'[t] = sessions[t]

Started(t) ==
  \E st \in Stamps :
    /\ sessions[t].status = "none"
    /\ sessions'[t].status = "active" /\ ~sessions'[t].recovered
    /\ Len(intervals'[t]) = 1
    /\ intervals'[t][1] = _open_interval(Waiting, st, NULL)

\* The newest row is closed by st and event, all other rows are kept.
NewestClosed(t, st, event) ==
  LET q == intervals[t]
      new == intervals'[t]
      n == Len(q)
  IN /\ \A i \in 1 .. n : i # n => new[i] = q[i]
     /\ new[n].state = q[n].state /\ new[n].start = q[n].start
     /\ new[n].start_event = q[n].start_event
     /\ new[n].ended_at = st.at /\ new[n].ended_runtime = st.runtime
     /\ new[n].end_event = event
     /\ new[n].ended_mono = IF st.runtime = q[n].start.runtime THEN st.mono ELSE NULL

\* A new state needs evidence unless it is im_disconnected.
Justified(t, state, st, event) ==
  \/ state = Disconnected /\ event = NULL
  \/ /\ state \notin {Waiting, Disconnected}
     /\ event \in DOMAIN events'[t] \ DOMAIN events[t]
     /\ events'[t][event].recipient_key = state.recipient_key
     /\ events'[t][event].received_at = st.at
     /\ ~events'[t][event].is_late

Moved(t) ==
  \E state \in States, st \in Stamps, event \in DedupKeys \cup {NULL} :
    /\ Writable(t) /\ _validate_close_clock(t, st)
    /\ sessions'[t] = sessions[t]
    /\ state \notin {current(t).state, Waiting}
    /\ Justified(t, state, st, event)
    /\ Len(intervals'[t]) = Len(intervals[t]) + 1
    /\ NewestClosed(t, st, event)
    /\ intervals'[t][Len(intervals[t]) + 1] = _open_interval(state, st, event)

Closed(t) ==
  \E st \in Stamps :
    /\ Writable(t) /\ _validate_close_clock(t, st)
    /\ Len(intervals'[t]) = Len(intervals[t])
    /\ NewestClosed(t, st, NULL)
    /\ sessions'[t].status \in Terminal
    /\ sessions'[t].ended_at = st.at
    /\ sessions'[t].recovered = sessions[t].recovered

Recovered(t) ==
  \E at \in Times, runtime \in Runtimes :
    /\ sessions[t].status = "active"
    /\ sessions'[t].status = "interrupted" /\ sessions'[t].ended_at = at
    /\ sessions'[t].recovered
    /\ Len(intervals'[t]) = Len(intervals[t])
    /\ \A i \in 1 .. Len(intervals[t]) :
         LET old == intervals[t][i]
             new == intervals'[t][i]
         IN IF old.ended_at = NULL
            THEN /\ new.state = old.state /\ new.start = old.start
                 /\ new.start_event = old.start_event
                 /\ new.end_event = old.end_event
                 /\ new.ended_at = at /\ new.ended_mono = NULL
                 /\ new.ended_runtime = runtime
            ELSE new = old

\* Events are only added, and what was stored of one first never changes.
EventsGrow(t) ==
  \A d \in DOMAIN events[t] :
    /\ d \in DOMAIN events'[t]
    /\ events'[t][d].recipient_key = events[t][d].recipient_key
    /\ events'[t][d].received_at = events[t][d].received_at
    /\ events'[t][d].is_late = events[t][d].is_late

\* _insert_event adds the row of the new dedup key and keeps all others.
LEMMA InsertEffect ==
  ASSUME Typed, NEW s \in SessionIds, NEW e \in DecodedEvents,
         ~_existing_event(s, e), _insert_event(s, e)
  PROVE  /\ events' \in [SessionIds -> EventTables]
         /\ \A t \in SessionIds : EventsGrow(t)
         /\ e.dedup_key \in DOMAIN events'[s] \ DOMAIN events[s]
         /\ events'[s][e.dedup_key].recipient_key = e.recipient_key
         /\ events'[s][e.dedup_key].received_at = e.stamp.at
         /\ events'[s][e.dedup_key].is_late = is_late(s, e)
<1> DEFINE d == e.dedup_key
           row == [recipient_key |-> e.recipient_key, received_at |-> e.stamp.at,
                   duplicate_count |-> 0, last_received_at |-> e.stamp.at,
                   is_late |-> is_late(s, e)]
           D == DOMAIN events[s]
           table == [x \in D \cup {d} |-> IF x \in D THEN events[s][x] ELSE row]
<1>1. d \in DedupKeys /\ row \in Event /\ d \notin D
  <2>1. is_late(s, e) \in BOOLEAN
    BY DEF is_late
  <2>2. QED
    BY <2>1, DecodedType DEF Event, Stamps, _existing_event
<1>2. events[s] \in [D -> Event] /\ D \in SUBSET DedupKeys
  BY DEF Typed, EventTables
<1>3. events' = [events EXCEPT ![s] = table]
  BY DEF _insert_event
<1>4. table \in EventTables
  <2>1. table \in [D \cup {d} -> Event]
    BY <1>1, <1>2
  <2>2. D \cup {d} \in SUBSET DedupKeys
    BY <1>1, <1>2
  <2>3. QED
    BY <2>1, <2>2 DEF EventTables
<1>5. /\ DOMAIN table = D \cup {d} /\ table[d] = row
      /\ \A x \in D : table[x] = events[s][x]
  BY <1>1
<1>6. /\ row.recipient_key = e.recipient_key /\ row.received_at = e.stamp.at
      /\ row.is_late = is_late(s, e)
  OBVIOUS
<1> HIDE DEF table, row
<1>7. /\ events' \in [SessionIds -> EventTables] /\ events'[s] = table
      /\ \A t \in SessionIds : t # s => events'[t] = events[t]
  BY <1>3, <1>4 DEF Typed
<1>8. \A t \in SessionIds : EventsGrow(t)
  BY <1>5, <1>7 DEF EventsGrow
<1>9. QED
  BY <1>1, <1>5, <1>6, <1>7, <1>8

\* A duplicate only raises the counter and the newest reception.
LEMMA DuplicateEffect ==
  ASSUME Typed, NEW s \in SessionIds, NEW e \in DecodedEvents,
         _existing_event(s, e), CountDuplicate(s, e)
  PROVE  /\ events' \in [SessionIds -> EventTables]
         /\ \A t \in SessionIds : EventsGrow(t)
<1> DEFINE d == e.dedup_key
           D == DOMAIN events[s]
           last == events[s][d].last_received_at
           count == events[s][d].duplicate_count + 1
           latest == IF last >= e.stamp.at THEN last ELSE e.stamp.at
           row == [events[s][d] EXCEPT !.duplicate_count = count,
                                       !.last_received_at = latest]
           table == [events[s] EXCEPT ![d] = row]
<1>1. events[s] \in [D -> Event] /\ D \in SUBSET DedupKeys /\ d \in D
  BY DEF Typed, EventTables, _existing_event
<1>2. /\ row \in Event
      /\ row.recipient_key = events[s][d].recipient_key
      /\ row.received_at = events[s][d].received_at
      /\ row.is_late = events[s][d].is_late
  <2>1. events[s][d] \in Event /\ e.stamp.at \in Times
    BY <1>1, DecodedType DEF Stamps
  <2>2. count \in Nat /\ latest \in Times
    BY <2>1 DEF Event
  <2> HIDE DEF count, latest
  <2>3. QED
    BY <2>1, <2>2 DEF Event
<1>3. events' = [events EXCEPT ![s] = table]
  BY DEF CountDuplicate, Typed
<1> HIDE DEF row
<1>4. /\ table \in [D -> Event] /\ table[d] = row
      /\ \A x \in D : x # d => table[x] = events[s][x]
  BY <1>1, <1>2
<1>5. table \in EventTables
  BY <1>1, <1>4 DEF EventTables
<1> HIDE DEF table
<1>6. /\ events' \in [SessionIds -> EventTables] /\ events'[s] = table
      /\ \A t \in SessionIds : t # s => events'[t] = events[t]
  BY <1>3, <1>5 DEF Typed
<1>7. DOMAIN table = D
  BY <1>4
<1>8. QED
  BY <1>1, <1>2, <1>4, <1>6, <1>7 DEF EventsGrow

-----------------------------------------------------------------------------
(* One lemma per operation: it keeps the types and is one of the kinds. *)

Kinds(t) == Kept(t) \/ Started(t) \/ Moved(t) \/ Closed(t) \/ Recovered(t)
WellDone == Typed' /\ \A t \in SessionIds : Kinds(t) /\ EventsGrow(t)

\* An operation that writes no event keeps all of them.
LEMMA EventsKept == UNCHANGED events => \A t \in SessionIds : EventsGrow(t)
BY DEF EventsGrow

\* start_session keeps the types and starts its session only.
LEMMA StartDone ==
  ASSUME Typed, NEW s \in SessionIds, NEW r \in Rooms, NEW recording \in BOOLEAN,
         NEW st \in Stamps, start_session(s, r, recording, st)
  PROVE  WellDone
<1> DEFINE row == [NoRow EXCEPT !.status = "active", !.room = r,
                                !.recording = recording, !.started_at = st.at]
<1>1. row \in Session /\ row.status = "active" /\ ~row.recovered
  BY DEF NoRow, Session, Terminal, Stamps
<1>2. sessions' = [sessions EXCEPT ![s] = row] /\ sessions[s].status = "none"
      /\ UNCHANGED events
  BY DEF start_session
<1> HIDE DEF row
<1>3. /\ sessions' \in [SessionIds -> Session] /\ sessions'[s] = row
      /\ \A t \in SessionIds : t # s => sessions'[t] = sessions[t]
  BY <1>1, <1>2 DEF Typed
<1>4. /\ intervals' \in [SessionIds -> Seq(Interval)]
      /\ \A t \in SessionIds : t # s => intervals'[t] = intervals[t]
      /\ Len(intervals'[s]) = 1
      /\ intervals'[s][1] = _open_interval(Waiting, st, NULL)
  BY StartEffect DEF Typed
<1>5. Started(s)
  BY <1>1, <1>2, <1>3, <1>4 DEF Started
<1>6. \A t \in SessionIds : t # s => Kept(t)
  BY <1>3, <1>4 DEF Kept
<1>7. Typed'
  BY <1>2, <1>3, <1>4 DEF Typed
<1>8. QED
  BY <1>2, <1>5, <1>6, <1>7, EventsKept DEF WellDone, Kinds

\* A justified transition keeps the types and moves its session only.
LEMMA TransitionDone ==
  ASSUME Typed, NEW s \in SessionIds, Writable(s),
         NEW state \in States, NEW st \in Stamps, NEW event \in DedupKeys \cup {NULL},
         state \notin {current(s).state, Waiting}, Justified(s, state, st, event),
         _transition(s, state, st, event), UNCHANGED sessions,
         events' \in [SessionIds -> EventTables],
         \A t \in SessionIds : EventsGrow(t)
  PROVE  WellDone
<1>1. intervals \in [SessionIds -> Seq(Interval)] /\ intervals[s] # <<>>
  BY DEF Typed, Writable
<1>2. /\ intervals' \in [SessionIds -> Seq(Interval)]
      /\ \A t \in SessionIds : t # s => intervals'[t] = intervals[t]
      /\ Len(intervals'[s]) = Len(intervals[s]) + 1
      /\ NewestClosed(s, st, event)
      /\ intervals'[s][Len(intervals[s]) + 1] = _open_interval(state, st, event)
  BY <1>1, TransitionEffect DEF NewestClosed
<1>3. _validate_close_clock(s, st)
  BY DEF _transition
<1>4. Moved(s)
  BY <1>2, <1>3 DEF Moved
<1>5. \A t \in SessionIds : t # s => Kept(t)
  BY <1>2 DEF Kept
<1>6. Typed'
  BY <1>2 DEF Typed
<1>7. QED
  BY <1>4, <1>5, <1>6 DEF WellDone, Kinds

\* apply_event keeps the types, and keeps or moves its session.
LEMMA ApplyDone ==
  ASSUME Typed, NEW s \in SessionIds, NEW e \in DecodedEvents, apply_event(s, e)
  PROVE  WellDone
<1>1. CASE _existing_event(s, e) /\ CountDuplicate(s, e) /\ UNCHANGED intervals
  <2>1. /\ events' \in [SessionIds -> EventTables]
        /\ \A t \in SessionIds : EventsGrow(t)
    BY <1>1, DuplicateEffect
  <2>2. UNCHANGED sessions
    BY DEF apply_event
  <2>3. QED
    BY <1>1, <2>1, <2>2 DEF WellDone, Kinds, Kept, Typed
<1>2. CASE /\ ~_existing_event(s, e) /\ _insert_event(s, e)
           /\ is_late(s, e) \/ current(s).state = TargetState(e)
           /\ UNCHANGED intervals
  <2>1. /\ events' \in [SessionIds -> EventTables]
        /\ \A t \in SessionIds : EventsGrow(t)
    BY <1>2, InsertEffect
  <2>2. UNCHANGED sessions
    BY DEF apply_event
  <2>3. QED
    BY <1>2, <2>1, <2>2 DEF WellDone, Kinds, Kept, Typed
<1>3. CASE /\ ~_existing_event(s, e) /\ _insert_event(s, e)
           /\ ~(is_late(s, e) \/ current(s).state = TargetState(e))
           /\ _transition(s, TargetState(e), e.stamp, e.dedup_key)
  <2>1. /\ events' \in [SessionIds -> EventTables]
        /\ \A t \in SessionIds : EventsGrow(t)
        /\ e.dedup_key \in DOMAIN events'[s] \ DOMAIN events[s]
        /\ events'[s][e.dedup_key].recipient_key = e.recipient_key
        /\ events'[s][e.dedup_key].received_at = e.stamp.at
        /\ events'[s][e.dedup_key].is_late = is_late(s, e)
    BY <1>3, InsertEffect
  <2>2. Writable(s) /\ UNCHANGED sessions
    BY DEF apply_event
  <2>3. /\ TargetState(e) \in States \ {Waiting, Disconnected}
        /\ TargetState(e).recipient_key = e.recipient_key
        /\ e.stamp \in Stamps /\ e.dedup_key \in DedupKeys \cup {NULL}
    BY TargetStateType, DecodedType
  <2>4. Justified(s, TargetState(e), e.stamp, e.dedup_key)
    BY <1>3, <2>1, <2>3 DEF Justified
  <2>5. TargetState(e) \notin {current(s).state, Waiting}
    BY <1>3, <2>3
  <2>6. QED
    BY <1>3, <2>1, <2>2, <2>3, <2>4, <2>5, TransitionDone
<1>4. QED
  BY <1>1, <1>2, <1>3 DEF apply_event

\* im_disconnected keeps the types, and keeps or moves its session.
LEMMA DisconnectDone ==
  ASSUME Typed, NEW s \in SessionIds, NEW st \in Stamps, im_disconnected(s, st)
  PROVE  WellDone
<1>1. Writable(s) /\ UNCHANGED <<sessions, events>>
  BY DEF im_disconnected
<1>2. CASE UNCHANGED intervals
  BY <1>1, <1>2, EventsKept DEF WellDone, Kinds, Kept, Typed
<1>3. CASE current(s).state # Disconnected /\ _transition(s, Disconnected, st, NULL)
  <2>1. Justified(s, Disconnected, st, NULL)
    BY DEF Justified
  <2>2. events' \in [SessionIds -> EventTables] /\ \A t \in SessionIds : EventsGrow(t)
    BY <1>1, EventsKept DEF Typed
  <2>3. Disconnected \in States /\ Disconnected \notin {current(s).state, Waiting}
    BY <1>3, StatesFacts
  <2>4. QED
    BY <1>1, <1>3, <2>1, <2>2, <2>3, TransitionDone
<1>4. QED
  BY <1>2, <1>3 DEF im_disconnected

\* end_session keeps the types and closes its session.
LEMMA EndDone ==
  ASSUME Typed, NEW s \in SessionIds, NEW st \in Stamps, NEW final_status \in Terminal,
         end_session(s, st, final_status)
  PROVE  WellDone
<1> DEFINE c == _close_interval(s, st, NULL)
           row == [sessions[s] EXCEPT !.status = final_status, !.ended_at = st.at,
                                      !.ended_runtime = st.runtime]
<1>1. /\ Writable(s) /\ _validate_close_clock(s, st) /\ UNCHANGED events
      /\ intervals' = [intervals EXCEPT ![s] = c]
      /\ sessions' = [sessions EXCEPT ![s] = row]
  BY DEF end_session, Typed
<1>2. intervals[s] \in Seq(Interval) /\ intervals[s] # <<>>
  BY <1>1 DEF Typed, Writable
<1>3. LET q == intervals[s]
          n == Len(q)
      IN /\ c \in Seq(Interval) /\ Len(c) = n
         /\ \A i \in 1 .. n : i # n => c[i] = q[i]
         /\ c[n].state = q[n].state /\ c[n].start = q[n].start
         /\ c[n].start_event = q[n].start_event
         /\ c[n].ended_at = st.at /\ c[n].ended_runtime = st.runtime
         /\ c[n].end_event = NULL
         /\ c[n].ended_mono = IF st.runtime = q[n].start.runtime THEN st.mono ELSE NULL
  <2>1. NULL \in DedupKeys \cup {NULL}
    OBVIOUS
  <2>2. QED
    BY <1>2, <2>1, CloseEffect
<1>4. /\ row \in Session /\ row.status = final_status /\ row.ended_at = st.at
      /\ row.recovered = sessions[s].recovered
  <2>1. sessions[s] \in Session
    BY DEF Typed
  <2>2. QED
    BY <2>1 DEF Session, Stamps
<1> HIDE DEF row, c
<1>5. /\ intervals' \in [SessionIds -> Seq(Interval)] /\ intervals'[s] = c
      /\ \A t \in SessionIds : t # s => intervals'[t] = intervals[t]
  BY <1>1, <1>3 DEF Typed
<1>6. Len(intervals'[s]) = Len(intervals[s]) /\ NewestClosed(s, st, NULL)
  BY <1>3, <1>5 DEF NewestClosed
<1>7. /\ sessions' \in [SessionIds -> Session] /\ sessions'[s] = row
      /\ \A t \in SessionIds : t # s => sessions'[t] = sessions[t]
  BY <1>1, <1>4 DEF Typed
<1>8. Closed(s)
  BY <1>1, <1>4, <1>6, <1>7 DEF Closed
<1>9. \A t \in SessionIds : t # s => Kept(t)
  BY <1>5, <1>7 DEF Kept
<1>10. Typed'
  BY <1>1, <1>5, <1>7 DEF Typed
<1>11. QED
  BY <1>1, <1>8, <1>9, <1>10, EventsKept DEF WellDone, Kinds

\* recover_interrupted keeps the types and recovers what was abandoned.
LEMMA RecoverDone ==
  ASSUME Typed, NEW runtime \in Runtimes, NEW at \in Times,
         recover_interrupted(runtime, at)
  PROVE  WellDone
<1> DEFINE Row(t) == [sessions[t] EXCEPT !.status = "interrupted", !.ended_at = at,
                                         !.ended_runtime = runtime, !.recovered = TRUE]
<1>1. intervals \in [SessionIds -> Seq(Interval)]
  BY DEF Typed
<1>2. ASSUME NEW t \in SessionIds
      PROVE  /\ Row(t) \in Session /\ Row(t).status = "interrupted"
             /\ Row(t).ended_at = at /\ Row(t).recovered
  <2>1. sessions[t] \in Session
    BY DEF Typed
  <2>2. QED
    BY <2>1 DEF Session, Terminal
<1>3. /\ UNCHANGED events /\ Abandoned # {}
      /\ sessions' = [t \in SessionIds |-> IF t \in Abandoned THEN Row(t) ELSE sessions[t]]
  BY DEF recover_interrupted
<1> HIDE DEF Row
<1>4. intervals' \in [SessionIds -> Seq(Interval)]
  BY <1>1, <1>3, RecoverEffect DEF Abandoned
<1>5. sessions' \in [SessionIds -> Session]
  BY <1>2, <1>3 DEF Typed
<1>6. Typed'
  BY <1>3, <1>4, <1>5 DEF Typed
<1>7. ASSUME NEW t \in SessionIds
      PROVE  Kinds(t)
  <2>1. CASE t \in Abandoned
    <3>1. sessions[t].status = "active" /\ sessions'[t] = Row(t)
      BY <1>3, <2>1 DEF Abandoned
    <3>2. Recovered(t)
      BY <1>1, <1>2, <2>1, <3>1, RecoverEffect DEF Recovered
    <3>3. QED
      BY <3>2 DEF Kinds
  <2>2. CASE t \notin Abandoned
    BY <1>1, <1>3, <2>2, RecoverEffect DEF Kinds, Kept
  <2>3. QED
    BY <2>1, <2>2
<1>8. QED
  BY <1>3, <1>6, <1>7, EventsKept DEF WellDone

\* Every operation of the two stores keeps the types and acts on each
\* session in one of the five ways.
LEMMA StepDone ==
  ASSUME Typed, Next
  PROVE  WellDone
<1>1. ASSUME NEW s \in SessionIds, im_reconnected(s)
      PROVE  WellDone
  BY <1>1, EventsKept DEF im_reconnected, vars, WellDone, Kinds, Kept, Typed
<1>2. QED
  BY <1>1, StartDone, ApplyDone, DisconnectDone, EndDone, RecoverDone DEF Next

-----------------------------------------------------------------------------
(***************************************************************************)
(* The safety invariants: the inductive invariant, one lemma per conjunct  *)
(* from the kinds of step above, and what follows from it.                 *)
(***************************************************************************)
\* Only recovery marks a session recovered, and it ends it at that moment.
RecoveredIsOver ==
  \A s \in SessionIds : sessions[s].recovered => sessions[s].status \in Terminal

\* TypeOK alone is not inductive: that a transition may be closed by the next
\* one needs OpenIffActive, and ClocksRunForward needs RecoveredIsOver.
IInv ==
  /\ Typed
  /\ OpenIffActive
  /\ RecoveredIsOver
  /\ EndsMeetStarts
  /\ EvidenceForEveryRecipient
  /\ ClocksRunForward
  /\ OneActivePerRoom

-----------------------------------------------------------------------------
\* The rows of a session are a sequence of intervals.
LEMMA RowFacts ==
  ASSUME Typed, NEW s \in SessionIds
  PROVE  /\ Len(intervals[s]) \in Nat
         /\ DOMAIN intervals[s] = 1 .. Len(intervals[s])
         /\ intervals[s] = <<>> <=> Len(intervals[s]) = 0
         /\ \A i \in 1 .. Len(intervals[s]) : intervals[s][i] \in Interval
<1>1. intervals[s] \in Seq(Interval)
  BY DEF Typed
<1>2. QED
  BY <1>1, LenProperties, ElementOfSeq, EmptySeq

\* A clock reading is never NULL, so a row closed by one is closed.
LEMMA StampFacts ==
  ASSUME NEW st \in Stamps
  PROVE  st.at \in Nat /\ st.at # NULL /\ st.mono \in Nat /\ st.at \in Times
BY EventsAssumption, NullAssumption DEF Stamps

\* A row that has just been opened.
LEMMA OpenRow ==
  ASSUME NEW state, NEW st, NEW event
  PROVE  LET row == _open_interval(state, st, event)
         IN /\ row.state = state /\ row.start = st /\ row.start_event = event
            /\ row.ended_at = NULL /\ row.ended_mono = NULL
BY DEF _open_interval

\* A session that is active, or not there, is not over.
LEMMA ActiveIsNotTerminal == "active" \notin Terminal /\ "none" \notin Terminal
BY DEF Terminal

-----------------------------------------------------------------------------
\* Each kind of step keeps exactly the newest row of an active session open.
LEMMA OpenStep ==
  ASSUME Typed, Typed', OpenIffActive,
         NEW s \in SessionIds, Kinds(s)
  PROVE  /\ \A i \in 1 .. Len(intervals'[s]) :
              intervals'[s][i].ended_at = NULL
                <=> sessions'[s].status = "active" /\ i = Len(intervals'[s])
         /\ sessions'[s].status = "none" <=> intervals'[s] = <<>>
<1> DEFINE q == intervals[s]
           n == Len(q)
           new == intervals'[s]
<1>1. /\ n \in Nat /\ (q = <<>> <=> n = 0)
      /\ Len(new) \in Nat /\ (new = <<>> <=> Len(new) = 0)
  <2>1. intervals[s] \in Seq(Interval) /\ intervals'[s] \in Seq(Interval)
    BY DEF Typed
  <2>2. QED
    BY <2>1, LenProperties, EmptySeq
<1>2. /\ \A i \in 1 .. n : q[i].ended_at = NULL <=> sessions[s].status = "active" /\ i = n
      /\ sessions[s].status = "none" <=> n = 0
  BY <1>1, RowFacts DEF OpenIffActive
<1>3. CASE Kept(s)
  BY <1>1, <1>2, <1>3 DEF Kept
<1>4. CASE Started(s)
  BY <1>1, <1>4, OpenRow DEF Started
<1>5. CASE Moved(s)
  <2>1. PICK state \in States, st \in Stamps, event \in DedupKeys \cup {NULL} :
          /\ Writable(s) /\ sessions'[s] = sessions[s]
          /\ Len(new) = n + 1
          /\ NewestClosed(s, st, event)
          /\ new[n + 1] = _open_interval(state, st, event)
    BY <1>5 DEF Moved
  <2>2. \A i \in 1 .. n : new[i].ended_at # NULL
    BY <1>1, <1>2, <2>1, StampFacts DEF NewestClosed
  <2>3. new[n + 1].ended_at = NULL
    BY <2>1, OpenRow
  <2>4. sessions'[s].status = "active"
    BY <2>1 DEF Writable
  <2>5. QED
    BY <1>1, <2>1, <2>2, <2>3, <2>4
<1>6. CASE Closed(s)
  <2>1. PICK st \in Stamps :
          /\ Writable(s) /\ Len(new) = n /\ NewestClosed(s, st, NULL)
          /\ sessions'[s].status \in Terminal
    BY <1>6 DEF Closed
  <2>2. \A i \in 1 .. n : new[i].ended_at # NULL
    BY <1>1, <1>2, <2>1, StampFacts DEF NewestClosed
  <2>3. n # 0
    BY <1>1, <2>1 DEF Writable
  <2>4. QED
    BY <1>1, <2>1, <2>2, <2>3, ActiveIsNotTerminal
<1>7. CASE Recovered(s)
  <2>1. PICK at \in Times :
          /\ sessions[s].status = "active" /\ sessions'[s].status = "interrupted"
          /\ Len(new) = n
          /\ \A i \in 1 .. n : IF q[i].ended_at = NULL
                               THEN new[i].ended_at = at ELSE new[i] = q[i]
    BY <1>7 DEF Recovered
  <2>2. at # NULL
    BY EventsAssumption, NullAssumption
  <2>3. QED
    BY <1>1, <1>2, <2>1, <2>2
<1>8. QED
  BY <1>3, <1>4, <1>5, <1>6, <1>7 DEF Kinds

\* Each kind of step keeps the rows gapless: only _transition adds a second row.
LEMMA MeetStep ==
  ASSUME Typed, Typed', OpenIffActive, EndsMeetStarts,
         NEW s \in SessionIds, Kinds(s),
         NEW i \in 1 .. Len(intervals'[s]) - 1
  PROVE  /\ intervals'[s][i].ended_at = intervals'[s][i + 1].start.at
         /\ intervals'[s][i].end_event = intervals'[s][i + 1].start_event
         /\ intervals'[s][i].ended_runtime = intervals'[s][i + 1].start.runtime
         /\ intervals'[s][i].state # intervals'[s][i + 1].state
<1> DEFINE q == intervals[s]
           n == Len(q)
           new == intervals'[s]
<1>1. n \in Nat /\ Len(new) \in Nat
  <2>1. intervals[s] \in Seq(Interval) /\ intervals'[s] \in Seq(Interval)
    BY DEF Typed
  <2>2. QED
    BY <2>1, LenProperties
<1>2. \A j \in 1 .. n - 1 :
        /\ q[j].ended_at = q[j + 1].start.at
        /\ q[j].end_event = q[j + 1].start_event
        /\ q[j].ended_runtime = q[j + 1].start.runtime
        /\ q[j].state # q[j + 1].state
  BY DEF EndsMeetStarts
<1>3. CASE Kept(s)
  BY <1>2, <1>3 DEF Kept
<1>4. CASE Started(s)
  BY <1>1, <1>4 DEF Started
<1>5. CASE Moved(s)
  <2>1. PICK state \in States, st \in Stamps, event \in DedupKeys \cup {NULL} :
          /\ Writable(s) /\ Len(new) = n + 1
          /\ state # current(s).state
          /\ NewestClosed(s, st, event)
          /\ new[n + 1] = _open_interval(state, st, event)
    BY <1>5 DEF Moved
  <2>2. CASE i = n
    BY <1>1, <2>1, <2>2, OpenRow DEF NewestClosed, current
  <2>3. CASE i # n
    <3>1. i \in 1 .. n - 1 /\ i + 1 \in 1 .. n /\ i \in 1 .. n
      BY <1>1, <2>1, <2>3
    <3>2. new[i] = q[i]
      BY <2>1, <2>3, <3>1 DEF NewestClosed
    <3>3. /\ new[i + 1].state = q[i + 1].state /\ new[i + 1].start = q[i + 1].start
          /\ new[i + 1].start_event = q[i + 1].start_event
      BY <2>1, <3>1 DEF NewestClosed
    <3>4. QED
      BY <1>2, <3>1, <3>2, <3>3
  <2>4. QED
    BY <2>2, <2>3
<1>6. CASE Closed(s)
  <2>1. PICK st \in Stamps : Len(new) = n /\ NewestClosed(s, st, NULL)
    BY <1>6 DEF Closed
  <2>2. i \in 1 .. n - 1 /\ i + 1 \in 1 .. n /\ i \in 1 .. n /\ i # n
    BY <1>1, <2>1
  <2>3. new[i] = q[i]
    BY <2>1, <2>2 DEF NewestClosed
  <2>4. /\ new[i + 1].state = q[i + 1].state /\ new[i + 1].start = q[i + 1].start
        /\ new[i + 1].start_event = q[i + 1].start_event
    BY <2>1, <2>2 DEF NewestClosed
  <2>5. QED
    BY <1>2, <2>2, <2>3, <2>4
<1>7. CASE Recovered(s)
  <2>1. /\ Len(new) = n
        /\ \A j \in 1 .. n :
             IF q[j].ended_at = NULL
             THEN /\ new[j].state = q[j].state /\ new[j].start = q[j].start
                  /\ new[j].start_event = q[j].start_event
             ELSE new[j] = q[j]
    BY <1>7 DEF Recovered
  <2>2. i \in 1 .. n - 1 /\ i + 1 \in 1 .. n /\ i \in 1 .. n /\ i # n
    BY <1>1, <2>1
  <2>3. q[i].ended_at # NULL
    BY <2>2, RowFacts DEF OpenIffActive
  <2>4. new[i] = q[i]
    BY <2>1, <2>2, <2>3
  <2>5. /\ new[i + 1].state = q[i + 1].state /\ new[i + 1].start = q[i + 1].start
        /\ new[i + 1].start_event = q[i + 1].start_event
    BY <2>1, <2>2
  <2>6. QED
    BY <1>2, <2>2, <2>4, <2>5
<1>8. QED
  BY <1>3, <1>4, <1>5, <1>6, <1>7 DEF Kinds

\* What EvidenceForEveryRecipient asks of a row, in a table of events.
Proven(iv, table) ==
  IF iv.state \in {Waiting, Disconnected} THEN iv.start_event = NULL
  ELSE /\ iv.start_event \in DOMAIN table
       /\ table[iv.start_event].recipient_key = iv.state.recipient_key
       /\ table[iv.start_event].received_at = iv.start.at
       /\ ~table[iv.start_event].is_late

\* Each kind of step keeps the evidence of every row, and adds a row with its own.
LEMMA EvidenceStep ==
  ASSUME Typed, Typed', EvidenceForEveryRecipient,
         NEW s \in SessionIds, Kinds(s), EventsGrow(s)
  PROVE  /\ \A i \in 1 .. Len(intervals'[s]) : Proven(intervals'[s][i], events'[s])
         /\ \A i, j \in 1 .. Len(intervals'[s]) :
              /\ intervals'[s][i].start_event = intervals'[s][j].start_event
              /\ intervals'[s][i].start_event # NULL
              => i = j
<1> DEFINE q == intervals[s]
           n == Len(q)
           new == intervals'[s]
           Same(i) == /\ new[i].state = q[i].state /\ new[i].start = q[i].start
                      /\ new[i].start_event = q[i].start_event
<1>1. /\ n \in Nat /\ Len(new) \in Nat
      /\ DOMAIN q = 1 .. n
  <2>1. intervals[s] \in Seq(Interval) /\ intervals'[s] \in Seq(Interval)
    BY DEF Typed
  <2>2. QED
    BY <2>1, LenProperties
<1>2. /\ \A i \in 1 .. n : Proven(q[i], events[s])
      /\ \A i, j \in 1 .. n :
           q[i].start_event = q[j].start_event /\ q[i].start_event # NULL => i = j
  BY <1>1 DEF EvidenceForEveryRecipient, Proven
<1>3. ASSUME NEW i \in 1 .. n, Same(i)
      PROVE  Proven(new[i], events'[s])
  <2>1. Proven(q[i], events[s])
    BY <1>2
  <2>2. CASE q[i].state \in {Waiting, Disconnected}
    BY <1>3, <2>1, <2>2 DEF Proven
  <2>3. CASE q[i].state \notin {Waiting, Disconnected}
    <3>1. q[i].start_event \in DOMAIN events[s]
      BY <2>1, <2>3 DEF Proven
    <3>2. QED
      BY <1>3, <2>1, <2>3, <3>1 DEF Proven, EventsGrow
  <2>4. QED
    BY <2>2, <2>3
<1>4. ASSUME Len(new) = n, \A i \in 1 .. n : Same(i)
      PROVE  /\ \A i \in 1 .. Len(new) : Proven(new[i], events'[s])
             /\ \A i, j \in 1 .. Len(new) :
                  new[i].start_event = new[j].start_event /\ new[i].start_event # NULL
                  => i = j
  BY <1>2, <1>3, <1>4
<1>5. CASE Kept(s)
  BY <1>4, <1>5 DEF Kept
<1>6. CASE Started(s)
  <2>1. PICK st \in Stamps : Len(new) = 1 /\ new[1] = _open_interval(Waiting, st, NULL)
    BY <1>6 DEF Started
  <2>2. QED
    BY <2>1, OpenRow DEF Proven
<1>7. CASE Moved(s)
  <2>1. PICK state \in States, st \in Stamps, event \in DedupKeys \cup {NULL} :
          /\ Justified(s, state, st, event)
          /\ Len(new) = n + 1
          /\ NewestClosed(s, st, event)
          /\ new[n + 1] = _open_interval(state, st, event)
    BY <1>7 DEF Moved
  <2>2. \A i \in 1 .. n : Same(i)
    BY <1>1, <2>1 DEF NewestClosed
  <2>3. /\ new[n + 1].state = state /\ new[n + 1].start = st
        /\ new[n + 1].start_event = event
    BY <2>1, OpenRow
  <2>4. Proven(new[n + 1], events'[s])
    BY <2>1, <2>3 DEF Proven, Justified
  <2>5. \A i \in 1 .. n : new[i].start_event # NULL => new[i].start_event # event
    <3>1. SUFFICES ASSUME NEW i \in 1 .. n, new[i].start_event # NULL
                   PROVE  new[i].start_event # event
      OBVIOUS
    <3>2. Proven(q[i], events[s]) /\ q[i].start_event # NULL
      BY <1>2, <2>2, <3>1
    <3>3. q[i].start_event \in DOMAIN events[s]
      BY <3>2 DEF Proven
    <3>4. QED
      BY <2>1, <2>2, <3>1, <3>3 DEF Justified
  <2>6. \A i \in 1 .. Len(new) : i \in 1 .. n \/ i = n + 1
    BY <1>1, <2>1
  <2>7. \A i \in 1 .. Len(new) : Proven(new[i], events'[s])
    BY <1>3, <2>2, <2>4, <2>6
  <2>8. ASSUME NEW i \in 1 .. Len(new), NEW j \in 1 .. Len(new),
               new[i].start_event = new[j].start_event, new[i].start_event # NULL
        PROVE  i = j
    BY <1>2, <2>2, <2>3, <2>5, <2>6, <2>8
  <2>9. QED
    BY <2>7, <2>8
<1>8. CASE Closed(s)
  <2>1. PICK st \in Stamps : Len(new) = n /\ NewestClosed(s, st, NULL)
    BY <1>8 DEF Closed
  <2>2. \A i \in 1 .. n : Same(i)
    BY <1>1, <2>1 DEF NewestClosed
  <2>3. QED
    BY <1>4, <2>1, <2>2
<1>9. CASE Recovered(s)
  <2>1. Len(new) = n /\ \A i \in 1 .. n : Same(i)
    BY <1>9 DEF Recovered
  <2>2. QED
    BY <1>4, <2>1
<1>10. QED
  BY <1>5, <1>6, <1>7, <1>8, <1>9 DEF Kinds

\* Only a session that is over is marked recovered.
LEMMA RecoveredStep ==
  ASSUME RecoveredIsOver, NEW s \in SessionIds, Kinds(s), sessions'[s].recovered
  PROVE  sessions'[s].status \in Terminal
<1>1. sessions[s].recovered => sessions[s].status \in Terminal
  BY DEF RecoveredIsOver
<1>2. QED
  BY <1>1 DEF Kinds, Kept, Started, Moved, Closed, Recovered, Terminal

\* Each kind of step closes a row by readings it has checked, or by recovery.
LEMMA ClockStep ==
  ASSUME Typed, Typed', OpenIffActive, RecoveredIsOver, ClocksRunForward,
         NEW s \in SessionIds, Kinds(s),
         NEW i \in 1 .. Len(intervals'[s])
  PROVE  LET iv == intervals'[s][i]
         IN /\ iv.ended_mono # NULL =>
                 iv.ended_runtime = iv.start.runtime /\ iv.ended_mono >= iv.start.mono
            /\ iv.ended_at # NULL =>
                 \/ iv.ended_at >= iv.start.at
                 \/ sessions'[s].recovered /\ i = Len(intervals'[s])
<1> DEFINE q == intervals[s]
           n == Len(q)
           new == intervals'[s]
           Mono(iv) == iv.ended_mono # NULL =>
                         iv.ended_runtime = iv.start.runtime /\ iv.ended_mono >= iv.start.mono
           Wall(iv) == iv.ended_at # NULL => iv.ended_at >= iv.start.at
<1>1. n \in Nat /\ Len(new) \in Nat /\ DOMAIN q = 1 .. n
  <2>1. intervals[s] \in Seq(Interval) /\ intervals'[s] \in Seq(Interval)
    BY DEF Typed
  <2>2. QED
    BY <2>1, LenProperties
<1>2. \A j \in 1 .. n :
        Mono(q[j]) /\ (Wall(q[j]) \/ (sessions[s].recovered /\ j = n))
  BY <1>1 DEF ClocksRunForward
<1>3. sessions[s].status = "active" => \A j \in 1 .. n : Wall(q[j])
  BY <1>2, ActiveIsNotTerminal DEF RecoveredIsOver
<1>4. ASSUME NEW st \in Stamps, NEW event,
             Writable(s), _validate_close_clock(s, st), NewestClosed(s, st, event)
      PROVE  Mono(new[n]) /\ Wall(new[n])
  BY <1>4 DEF _validate_close_clock, NewestClosed, current
<1>5. CASE Kept(s)
  BY <1>2, <1>5 DEF Kept
<1>6. CASE Started(s)
  <2>1. PICK st \in Stamps : Len(new) = 1 /\ new[1] = _open_interval(Waiting, st, NULL)
    BY <1>6 DEF Started
  <2>2. QED
    BY <2>1, OpenRow
<1>7. CASE Moved(s)
  <2>1. PICK state \in States, st \in Stamps, event \in DedupKeys \cup {NULL} :
          /\ Writable(s) /\ _validate_close_clock(s, st)
          /\ Len(new) = n + 1
          /\ NewestClosed(s, st, event)
          /\ new[n + 1] = _open_interval(state, st, event)
    BY <1>7 DEF Moved
  <2>2. CASE i = n + 1
    BY <2>1, <2>2, OpenRow
  <2>3. CASE i = n
    BY <1>4, <2>1, <2>3
  <2>4. CASE i \notin {n, n + 1}
    <3>1. i \in 1 .. n /\ new[i] = q[i] /\ sessions[s].status = "active"
      BY <1>1, <2>1, <2>4 DEF NewestClosed, Writable
    <3>2. QED
      BY <1>2, <1>3, <3>1
  <2>5. QED
    BY <2>2, <2>3, <2>4
<1>8. CASE Closed(s)
  <2>1. PICK st \in Stamps :
          /\ Writable(s) /\ _validate_close_clock(s, st)
          /\ Len(new) = n /\ NewestClosed(s, st, NULL)
    BY <1>8 DEF Closed
  <2>2. CASE i = n
    BY <1>4, <2>1, <2>2
  <2>3. CASE i # n
    <3>1. i \in 1 .. n /\ new[i] = q[i] /\ sessions[s].status = "active"
      BY <2>1, <2>3 DEF NewestClosed, Writable
    <3>2. QED
      BY <1>2, <1>3, <3>1
  <2>4. QED
    BY <2>2, <2>3
<1>9. CASE Recovered(s)
  <2>1. PICK at \in Times :
          /\ sessions[s].status = "active" /\ sessions'[s].recovered
          /\ Len(new) = n
          /\ \A j \in 1 .. n : IF q[j].ended_at = NULL
                               THEN new[j].ended_mono = NULL ELSE new[j] = q[j]
    BY <1>9 DEF Recovered
  <2>2. CASE i = n
    BY <1>2, <1>3, <2>1, <2>2
  <2>3. CASE i # n
    <3>1. q[i].ended_at # NULL
      BY <1>1, <2>1, <2>3 DEF OpenIffActive
    <3>2. new[i] = q[i]
      BY <2>1, <3>1
    <3>3. QED
      BY <1>2, <1>3, <2>1, <3>2
  <2>4. QED
    BY <2>2, <2>3
<1>10. QED
  BY <1>5, <1>6, <1>7, <1>8, <1>9 DEF Kinds

\* A session becomes active only in start_session, and its room never moves.
LEMMA OneActiveStep ==
  ASSUME Typed, OneActivePerRoom, Next
  PROVE  OneActivePerRoom'
<1> DEFINE Live(t) == sessions[t].status = "active"
           Live1(t) == sessions'[t].status = "active"
<1>1. ASSUME \A t \in SessionIds : Live1(t) => Live(t) /\ sessions'[t].room = sessions[t].room
      PROVE  OneActivePerRoom'
  BY <1>1 DEF OneActivePerRoom
<1>2. ASSUME NEW s \in SessionIds, NEW r \in Rooms, NEW recording \in BOOLEAN,
             NEW st \in Stamps, start_session(s, r, recording, st)
      PROVE  OneActivePerRoom'
  <2>1. /\ \A t \in SessionIds : t # s => sessions'[t] = sessions[t]
        /\ sessions'[s].room = r
    BY <1>2 DEF start_session, Typed, NoRow
  <2>2. \A t \in SessionIds : t # s /\ Live1(t) => sessions[t].room # r
    BY <1>2, <2>1 DEF start_session
  <2>3. QED
    BY <2>1, <2>2 DEF OneActivePerRoom
<1>3. ASSUME NEW s \in SessionIds, NEW e \in DecodedEvents, apply_event(s, e)
      PROVE  OneActivePerRoom'
  BY <1>1, <1>3 DEF apply_event
<1>4. ASSUME NEW s \in SessionIds, NEW st \in Stamps, im_disconnected(s, st)
      PROVE  OneActivePerRoom'
  BY <1>1, <1>4 DEF im_disconnected
<1>5. ASSUME NEW s \in SessionIds, im_reconnected(s)
      PROVE  OneActivePerRoom'
  BY <1>1, <1>5 DEF im_reconnected, vars
<1>6. ASSUME NEW s \in SessionIds, NEW st \in Stamps, NEW final_status \in Terminal,
             end_session(s, st, final_status)
      PROVE  OneActivePerRoom'
  <2>1. \A t \in SessionIds : t # s => sessions'[t] = sessions[t]
    BY <1>6 DEF end_session, Typed
  <2>2. sessions'[s].status = final_status
    BY <1>6 DEF end_session, Typed, Session
  <2>3. QED
    BY <1>1, <2>1, <2>2, ActiveIsNotTerminal
<1>7. ASSUME NEW runtime \in Runtimes, NEW at \in Times, recover_interrupted(runtime, at)
      PROVE  OneActivePerRoom'
  <2>1. \A t \in SessionIds : t \notin Abandoned => sessions'[t] = sessions[t]
    BY <1>7 DEF recover_interrupted
  <2>2. \A t \in SessionIds : t \in Abandoned => sessions'[t].status = "interrupted"
    BY <1>7 DEF recover_interrupted, Typed, Session
  <2>3. QED
    BY <1>1, <2>1, <2>2
<1>8. QED
  BY <1>2, <1>3, <1>4, <1>5, <1>6, <1>7 DEF Next

-----------------------------------------------------------------------------
\* The inductive invariant holds of the empty tables.
LEMMA InitEstablishes == Init => IInv
<1> SUFFICES ASSUME Init PROVE IInv
  OBVIOUS
<1>1. /\ \A s \in SessionIds : sessions[s] = NoRow /\ intervals[s] = <<>>
      /\ sessions = [s \in SessionIds |-> NoRow]
      /\ intervals = [s \in SessionIds |-> <<>>]
  BY DEF Init
<1>2. Typed
  <2>1. NoRow \in Session
    BY DEF NoRow, Session
  <2>2. <<>> \in Seq(Interval)
    OBVIOUS
  <2>3. [d \in {} |-> NULL] \in EventTables
    <3>1. {} \in SUBSET DedupKeys /\ [d \in {} |-> NULL] \in [{} -> Event]
      OBVIOUS
    <3>2. QED
      BY <3>1 DEF EventTables
  <2>4. events = [s \in SessionIds |-> [d \in {} |-> NULL]]
    BY DEF Init
  <2>5. QED
    BY <1>1, <2>1, <2>2, <2>3, <2>4 DEF Typed
<1>3. \A s \in SessionIds : /\ sessions[s].status = "none" /\ ~sessions[s].recovered
                            /\ DOMAIN intervals[s] = {} /\ Len(intervals[s]) = 0
  BY <1>1 DEF NoRow
<1>4. OpenIffActive
  BY <1>1, <1>3 DEF OpenIffActive
<1>5. RecoveredIsOver /\ OneActivePerRoom
  BY <1>3 DEF RecoveredIsOver, OneActivePerRoom
<1>6. EndsMeetStarts
  BY <1>3 DEF EndsMeetStarts
<1>7. EvidenceForEveryRecipient /\ ClocksRunForward
  BY <1>3 DEF EvidenceForEveryRecipient, ClocksRunForward
<1>8. QED
  BY <1>2, <1>4, <1>5, <1>6, <1>7 DEF IInv

\* Each operation preserves the inductive invariant.
LEMMA NextPreserves == IInv /\ Next => IInv'
<1> SUFFICES ASSUME IInv, Next PROVE IInv'
  OBVIOUS
<1>1. Typed' /\ \A s \in SessionIds : Kinds(s) /\ EventsGrow(s)
  BY StepDone DEF IInv, WellDone
<1>2. \A s \in SessionIds : DOMAIN intervals'[s] = 1 .. Len(intervals'[s])
  <2>1. ASSUME NEW s \in SessionIds
        PROVE  DOMAIN intervals'[s] = 1 .. Len(intervals'[s])
    <3>1. intervals'[s] \in Seq(Interval)
      BY <1>1 DEF Typed
    <3>2. QED
      BY <3>1, LenProperties
  <2>2. QED
    BY <2>1
<1>3. OpenIffActive'
  BY <1>1, <1>2, OpenStep DEF IInv, OpenIffActive
<1>4. RecoveredIsOver'
  BY <1>1, RecoveredStep DEF IInv, RecoveredIsOver
<1>5. EndsMeetStarts'
  BY <1>1, MeetStep DEF IInv, EndsMeetStarts
<1>6. EvidenceForEveryRecipient'
  BY <1>1, <1>2, EvidenceStep DEF IInv, EvidenceForEveryRecipient, Proven
<1>7. ClocksRunForward'
  BY <1>1, <1>2, ClockStep DEF IInv, ClocksRunForward
<1>8. OneActivePerRoom'
  BY OneActiveStep DEF IInv
<1>9. QED
  BY <1>1, <1>3, <1>4, <1>5, <1>6, <1>7, <1>8 DEF IInv

\* The inductive invariant says nothing of anything but the tables.
LEMMA StutterKeeps == IInv /\ UNCHANGED vars => IInv'
BY DEF IInv, vars, Typed, OpenIffActive, RecoveredIsOver, EndsMeetStarts,
       EvidenceForEveryRecipient, ClocksRunForward, OneActivePerRoom

\* The inductive invariant holds in every reachable state of the tables.
THEOREM Invariance == Spec => []IInv
<1>1. IInv /\ [Next]_vars => IInv'
  BY NextPreserves, StutterKeeps
<1>2. QED
  BY InitEstablishes, <1>1, PTL DEF Spec

\* Every row of the three tables keeps its columns' types.
THEOREM TypeCorrect == Spec => []TypeOK
<1>1. IInv => TypeOK
  BY TypedIsTypeOK DEF IInv
<1>2. QED
  BY Invariance, <1>1, PTL

\* An active session has one open interval, its newest, and no other session
\* has any: what _require_open_interval relies on holds in every state.
THEOREM OneOpenInterval == Spec => []OpenIffActive
<1>1. IInv => OpenIffActive
  BY DEF IInv
<1>2. QED
  BY Invariance, <1>1, PTL

\* The interval list of a session is gapless and never repeats a state, with
\* the same event closing one interval and opening the next.
THEOREM GaplessTimeline == Spec => []EndsMeetStarts
<1>1. IInv => EndsMeetStarts
  BY DEF IInv
<1>2. QED
  BY Invariance, <1>1, PTL

\* No interval names a recipient without a stored, timely event that named
\* that recipient, and no event is the evidence of two intervals.
THEOREM EvidenceTheorem == Spec => []EvidenceForEveryRecipient
<1>1. IInv => EvidenceForEveryRecipient
  BY DEF IInv
<1>2. QED
  BY Invariance, <1>1, PTL

\* A room never has two active sessions.
THEOREM ActiveSessionUnique == Spec => []OneActivePerRoom
<1>1. IInv => OneActivePerRoom
  BY DEF IInv
<1>2. QED
  BY Invariance, <1>1, PTL

\* No interval ends before it starts, save one that recovery closed.
THEOREM ClockTheorem == Spec => []ClocksRunForward
<1>1. IInv => ClocksRunForward
  BY DEF IInv
<1>2. QED
  BY Invariance, <1>1, PTL

-----------------------------------------------------------------------------
\* Each kind of step keeps what is settled of one session.
LEMMA SettledStep ==
  ASSUME IInv, Next, NEW s \in SessionIds
  PROVE  /\ sessions[s].status \in Terminal => sessions'[s] = sessions[s]
         /\ \A i \in DOMAIN intervals[s] :
              /\ i \in DOMAIN intervals'[s]
              /\ intervals[s][i].ended_at # NULL => intervals'[s][i] = intervals[s][i]
              /\ intervals'[s][i].state = intervals[s][i].state
              /\ intervals'[s][i].start = intervals[s][i].start
<1> DEFINE q == intervals[s]
           n == Len(q)
           new == intervals'[s]
<1>1. Typed /\ Typed' /\ Kinds(s)
  BY StepDone DEF IInv, WellDone
<1>2. /\ n \in Nat /\ Len(new) \in Nat
      /\ DOMAIN q = 1 .. n /\ DOMAIN new = 1 .. Len(new)
      /\ (q = <<>> <=> n = 0)
  <2>1. intervals[s] \in Seq(Interval) /\ intervals'[s] \in Seq(Interval)
    BY <1>1 DEF Typed
  <2>2. QED
    BY <2>1, LenProperties, EmptySeq
<1>3. /\ \A i \in 1 .. n : q[i].ended_at = NULL <=> sessions[s].status = "active" /\ i = n
      /\ sessions[s].status = "none" <=> n = 0
  BY <1>2 DEF IInv, OpenIffActive
<1>4. CASE Kept(s)
  BY <1>4 DEF Kept
<1>5. CASE Started(s)
  BY <1>2, <1>3, <1>5, ActiveIsNotTerminal DEF Started
<1>6. CASE Moved(s)
  <2>1. PICK st \in Stamps, event \in DedupKeys \cup {NULL} :
          /\ sessions'[s] = sessions[s] /\ Writable(s)
          /\ Len(new) = n + 1 /\ NewestClosed(s, st, event)
    BY <1>6 DEF Moved
  <2>2. QED
    BY <1>2, <1>3, <2>1, ActiveIsNotTerminal DEF NewestClosed, Writable
<1>7. CASE Closed(s)
  <2>1. PICK st \in Stamps :
          /\ Writable(s) /\ Len(new) = n /\ NewestClosed(s, st, NULL)
    BY <1>7 DEF Closed
  <2>2. QED
    BY <1>2, <1>3, <2>1, ActiveIsNotTerminal DEF NewestClosed, Writable
<1>8. CASE Recovered(s)
  BY <1>2, <1>3, <1>8, ActiveIsNotTerminal DEF Recovered
<1>9. QED
  BY <1>1, <1>4, <1>5, <1>6, <1>7, <1>8 DEF Kinds

\* No operation, in any order, rewrites what was settled before.
THEOREM HistoryIsSettled == Spec => SettledHistory
<1> DEFINE Settled ==
      \A s \in SessionIds :
        /\ sessions[s].status \in Terminal => sessions'[s] = sessions[s]
        /\ \A i \in DOMAIN intervals[s] :
             /\ i \in DOMAIN intervals'[s]
             /\ intervals[s][i].ended_at # NULL => intervals'[s][i] = intervals[s][i]
             /\ intervals'[s][i].state = intervals[s][i].state
             /\ intervals'[s][i].start = intervals[s][i].start
        /\ \A d \in DOMAIN events[s] :
             /\ d \in DOMAIN events'[s]
             /\ events'[s][d].recipient_key = events[s][d].recipient_key
             /\ events'[s][d].received_at = events[s][d].received_at
             /\ events'[s][d].is_late = events[s][d].is_late
<1>1. IInv /\ [Next]_vars => [Settled]_vars
  <2>1. SUFFICES ASSUME IInv, Next PROVE Settled
    OBVIOUS
  <2>2. \A s \in SessionIds : EventsGrow(s)
    BY <2>1, StepDone DEF IInv, WellDone
  <2>3. QED
    BY <2>1, <2>2, SettledStep DEF EventsGrow
<1> HIDE DEF Settled
<1>2. Spec => [][Settled]_vars
  BY Invariance, <1>1, PTL DEF Spec
<1>3. QED
  BY <1>2 DEF SettledHistory, Settled

-----------------------------------------------------------------------------
(***************************************************************************)
(* The write transactions implement Timeline, for the rows of any session. *)
(***************************************************************************)
\* The track has one entry for each row, with the row's state and start.
LEMMA TrackFacts ==
  ASSUME Len(intervals[Watched]) \in Nat
  PROVE  /\ Len(Track) = Len(intervals[Watched])
         /\ \A i \in 1 .. Len(intervals[Watched]) :
              /\ Track[i].state = intervals[Watched][i].state
              /\ Track[i].from = intervals[Watched][i].start.at
BY DEF Track

\* Empty tables are an empty timeline.
LEMMA InitImplements == Init => T!Init
<1> SUFFICES ASSUME Init PROVE T!Init
  OBVIOUS
<1>1. intervals[Watched] = <<>> /\ sessions[Watched].status = "none"
  BY WatchedAssumption DEF Init, NoRow
<1>2. Track = <<>>
  BY <1>1 DEF Track
<1>3. QED
  BY <1>1, <1>2, ActiveIsNotTerminal DEF T!Init, ClosedBy, ClosedAt

\* Each operation of the store is a step of Timeline, or leaves it alone.
LEMMA StepImplements == IInv /\ Next => T!Next \/ UNCHANGED T!vars
<1> SUFFICES ASSUME IInv, Next PROVE T!Next \/ UNCHANGED T!vars
  OBVIOUS
<1> DEFINE q == intervals[Watched]
           n == Len(q)
           new == intervals'[Watched]
           old == sessions[Watched]
           row == sessions'[Watched]
           Entries(r) == [i \in 1 .. Len(r) |-> [state |-> r[i].state, from |-> r[i].start.at]]
<1>1. Typed /\ Typed' /\ Kinds(Watched)
  BY StepDone, WatchedAssumption DEF IInv, WellDone
<1>2. /\ n \in Nat /\ Len(new) \in Nat /\ DOMAIN q = 1 .. n /\ DOMAIN new = 1 .. Len(new)
      /\ (q = <<>> <=> n = 0)
  <2>1. q \in Seq(Interval) /\ new \in Seq(Interval)
    BY <1>1, WatchedAssumption DEF Typed
  <2>2. QED
    BY <2>1, LenProperties, EmptySeq
<1>3. /\ \A i \in 1 .. n : q[i].ended_at = NULL <=> old.status = "active" /\ i = n
      /\ old.status = "none" <=> n = 0
      /\ old.status = "active" => ~old.recovered
  BY <1>2, WatchedAssumption, ActiveIsNotTerminal DEF IInv, OpenIffActive, RecoveredIsOver
<1>4. Track = Entries(q) /\ Track' = Entries(new)
  BY DEF Track
<1>5. /\ Len(Entries(q)) = n /\ (n # 0 => Entries(q) # <<>>)
      /\ \A i \in 1 .. n : /\ Entries(q)[i].state = q[i].state
                           /\ Entries(q)[i].from = q[i].start.at
  BY <1>2
<1>6. /\ ClosedBy = IF old.status \notin Terminal THEN "no"
                    ELSE IF old.recovered THEN "restart" ELSE "owner"
      /\ ClosedBy' = IF row.status \notin Terminal THEN "no"
                     ELSE IF row.recovered THEN "restart" ELSE "owner"
      /\ ClosedAt = IF old.status \in Terminal THEN old.ended_at ELSE 0
      /\ ClosedAt' = IF row.status \in Terminal THEN row.ended_at ELSE 0
  BY DEF ClosedBy, ClosedAt
<1>7. ASSUME Len(new) = n,
             \A i \in 1 .. n : new[i].state = q[i].state /\ new[i].start = q[i].start
      PROVE  Track' = Track
  BY <1>4, <1>7
<1> HIDE DEF Entries
<1>8. CASE Kept(Watched)
  BY <1>4, <1>6, <1>8 DEF Kept, T!vars
<1>9. CASE Started(Watched)
  <2>1. PICK st \in Stamps :
          /\ old.status = "none" /\ row.status = "active"
          /\ Len(new) = 1 /\ new[1] = _open_interval(Waiting, st, NULL)
    BY <1>9 DEF Started
  <2>2. Entries(q) = <<>>
    BY <1>2, <1>3, <2>1 DEF Entries
  <2>3. Entries(new) = <<[state |-> Waiting, from |-> st.at]>>
    <3>1. new[1].state = Waiting /\ new[1].start = st
      BY <2>1, OpenRow
    <3>2. QED
      BY <2>1, <3>1 DEF Entries
  <2>4. T!Begin(st.at)
    BY <1>4, <1>6, <2>1, <2>2, <2>3, ActiveIsNotTerminal DEF T!Begin
  <2>5. QED
    BY <2>4, StampFacts DEF T!Next
<1>10. CASE Moved(Watched)
  <2>1. PICK state \in States, st \in Stamps, event \in DedupKeys \cup {NULL} :
          /\ Writable(Watched) /\ _validate_close_clock(Watched, st)
          /\ row = old
          /\ state \notin {current(Watched).state, Waiting}
          /\ Len(new) = n + 1
          /\ NewestClosed(Watched, st, event)
          /\ new[n + 1] = _open_interval(state, st, event)
    BY <1>10 DEF Moved
  <2>2. n # 0 /\ old.status = "active"
    BY <1>2, <2>1 DEF Writable
  <2>3. \A i \in 1 .. n : new[i].state = q[i].state /\ new[i].start = q[i].start
    BY <1>2, <2>1 DEF NewestClosed
  <2>4. new[n + 1].state = state /\ new[n + 1].start = st
    BY <2>1, OpenRow
  <2>5. Entries(new) = Append(Entries(q), [state |-> state, from |-> st.at])
    BY <1>2, <2>1, <2>3, <2>4 DEF Entries
  <2>6. T!Last.state = current(Watched).state /\ T!Last.from = current(Watched).start.at
    BY <1>2, <1>4, <1>5, <2>2 DEF T!Last, current
  <2>7. T!Switch(state, st.at)
    BY <1>4, <1>5, <1>6, <2>1, <2>2, <2>5, <2>6, ActiveIsNotTerminal
       DEF T!Switch, _validate_close_clock
  <2>8. QED
    BY <2>7, StampFacts DEF T!Next
<1>11. CASE Closed(Watched)
  <2>1. PICK st \in Stamps :
          /\ Writable(Watched) /\ _validate_close_clock(Watched, st)
          /\ Len(new) = n /\ NewestClosed(Watched, st, NULL)
          /\ row.status \in Terminal /\ row.ended_at = st.at
          /\ row.recovered = old.recovered
    BY <1>11 DEF Closed
  <2>2. n # 0 /\ old.status = "active"
    BY <1>2, <2>1 DEF Writable
  <2>3. \A i \in 1 .. n : new[i].state = q[i].state /\ new[i].start = q[i].start
    BY <1>2, <2>1 DEF NewestClosed
  <2>4. Track' = Track
    BY <1>7, <2>1, <2>3
  <2>5. T!Last.from = current(Watched).start.at
    BY <1>2, <1>4, <1>5, <2>2 DEF T!Last, current
  <2>6. T!Close(st.at)
    BY <1>3, <1>4, <1>5, <1>6, <2>1, <2>2, <2>4, <2>5, ActiveIsNotTerminal
       DEF T!Close, _validate_close_clock
  <2>7. QED
    BY <2>6, StampFacts DEF T!Next
<1>12. CASE Recovered(Watched)
  <2>1. PICK at \in Times :
          /\ old.status = "active" /\ row.status = "interrupted"
          /\ row.ended_at = at /\ row.recovered
          /\ Len(new) = n
          /\ \A i \in 1 .. n : new[i].state = q[i].state /\ new[i].start = q[i].start
    BY <1>12 DEF Recovered
  <2>2. Track' = Track
    BY <1>7, <2>1
  <2>3. T!CloseAfterRestart(at)
    BY <1>3, <1>4, <1>5, <1>6, <2>1, <2>2, ActiveIsNotTerminal
       DEF T!CloseAfterRestart, Terminal
  <2>4. QED
    BY <2>1, <2>3 DEF T!Next
<1>13. QED
  BY <1>1, <1>8, <1>9, <1>10, <1>11, <1>12 DEF Kinds

\* A stuttering step of the store is one of Timeline.
LEMMA StutterImplements == UNCHANGED vars => UNCHANGED T!vars
BY DEF vars, T!vars, Track, ClosedBy, ClosedAt

\* Whatever the order of frames, transport changes, endings and recoveries,
\* the rows of any one session are a Timeline.
THEOREM Implementation == Spec => ImplementsTimeline
<1>1. IInv /\ [Next]_vars => [T!Next]_(T!vars)
  BY StepImplements, StutterImplements
<1>2. QED
  BY Invariance, InitImplements, <1>1, PTL DEF Spec, ImplementsTimeline, T!Spec

-----------------------------------------------------------------------------
(* The reducer. *)

\* Reducer and database speak of the same events, states and clock readings.
LEMMA SameEvents ==
  /\ R!Stamps = Stamps /\ R!States = States /\ R!DedupKeys = DedupKeys
  /\ R!RecipientKeys = RecipientKeys /\ R!DecodedEvents = DecodedEvents
  /\ R!NormalizedEvents = NormalizedEvents
  /\ R!Waiting = Waiting /\ R!Disconnected = Disconnected
  /\ \A e : R!TargetState(e) = TargetState(e)
  /\ R!CanonicalEvent = Event
<1>1. /\ R!Stamps = Stamps /\ R!RecipientKeys = RecipientKeys /\ R!DedupKeys = DedupKeys
      /\ R!Waiting = Waiting /\ R!Disconnected = Disconnected
      /\ R!EmptyRecipient = EmptyRecipient /\ \A k : R!Active(k) = Active(k)
  BY DEF R!Stamps, Stamps, R!RecipientKeys, RecipientKeys, R!DedupKeys, DedupKeys,
         R!Waiting, Waiting, R!Disconnected, Disconnected, R!EmptyRecipient, EmptyRecipient,
         R!Active, Active
<1>2. R!States = States
  BY <1>1 DEF R!States, States
<1>3. R!Frames = Frames
  BY <1>1 DEF R!Frames, Frames
<1>4. \A f : R!decode_recipient_payload(f) = decode_recipient_payload(f)
  BY DEF R!decode_recipient_payload, decode_recipient_payload, R!dedup_key, dedup_key,
         R!msg_id, msg_id, R!canonical_recipient_key, canonical_recipient_key
<1>5. R!DecodedEvents = DecodedEvents
  BY <1>3, <1>4 DEF R!DecodedEvents, DecodedEvents
<1>6. \A e : R!TargetState(e) = TargetState(e)
  BY <1>1 DEF R!TargetState, TargetState
<1>7. R!CanonicalEvent = Event
  BY <1>1 DEF R!CanonicalEvent, Event
<1>8. R!NormalizedEvents = NormalizedEvents
  <2>1. \A p, h, st : R!normalized_recipient(p, h, st) = normalized_recipient(p, h, st)
    BY DEF R!normalized_recipient, normalized_recipient, R!canonical_recipient_key,
           canonical_recipient_key
  <2> QED BY <1>1, <2>1 DEF R!NormalizedEvents, NormalizedEvents
<1> QED BY <1>1, <1>2, <1>5, <1>6, <1>7, <1>8

\* Gapless, its states in order, and each recipient on evidence.
RedInv ==
  /\ red_intervals \in Seq(R!Interval) /\ red_events \in EventTables
  /\ red_connected \in BOOLEAN /\ red_ended \in BOOLEAN
  /\ red_ended => red_intervals # <<>>
  /\ R!Gapless
  /\ R!EvidenceForEveryRecipient

\* The kinds of step, as far as intervals and the end are concerned.
RedBegun(st) ==
  /\ red_intervals = <<>> /\ Len(red_intervals') = 1
  /\ red_intervals'[1] = R!_open(Waiting, st)
  /\ red_ended' = red_ended

\* The newest interval is closed by st, the others stay.
RedNewest(st) ==
  LET n == Len(red_intervals)
  IN /\ \A i \in 1 .. n : /\ red_intervals'[i].state = red_intervals[i].state
                          /\ red_intervals'[i].start = red_intervals[i].start
                          /\ i # n => red_intervals'[i] = red_intervals[i]
     /\ red_intervals'[n].ended_at = st.at
     /\ red_intervals'[n].ended_runtime = st.runtime

RedMoved(state, st) ==
  LET n == Len(red_intervals)
  IN /\ ~red_ended /\ red_intervals # <<>> /\ R!ClockOk(R!current, st)
     /\ state \notin {R!current.state, Waiting}
     /\ Len(red_intervals') = n + 1 /\ RedNewest(st)
     /\ red_intervals'[n + 1] = R!_open(state, st)
     /\ red_ended' = red_ended

RedClosed(st) ==
  /\ ~red_ended /\ red_intervals # <<>> /\ R!ClockOk(R!current, st)
  /\ Len(red_intervals') = Len(red_intervals) /\ RedNewest(st)
  /\ red_ended'

\* An open interval is a well-formed one.
LEMMA RedOpenRow ==
  ASSUME NEW state \in States, NEW st \in Stamps
  PROVE  LET row == R!_open(state, st)
         IN row \in R!Interval /\ row.state = state /\ row.start = st /\ row.ended_at = NULL
BY SameEvents DEF R!_open, R!Interval

\* What _close does to the newest interval.
LEMMA RedCloseEffect ==
  ASSUME red_intervals \in Seq(R!Interval), red_intervals # <<>>, NEW st \in Stamps
  PROVE  LET n == Len(red_intervals)
             new == R!CloseCurrent(st)
         IN /\ n \in Nat \ {0} /\ new \in Seq(R!Interval) /\ Len(new) = n
            /\ \A i \in 1 .. n : /\ new[i].state = red_intervals[i].state
                                 /\ new[i].start = red_intervals[i].start
                                 /\ i # n => new[i] = red_intervals[i]
            /\ new[n].ended_at = st.at /\ new[n].ended_runtime = st.runtime
<1> DEFINE q == red_intervals
           n == Len(q)
           row == q[n]
           closed == R!_close(row, st)
<1>1. n \in Nat \ {0} /\ n \in 1 .. n
  BY EmptySeq, LenProperties
<1>2. row \in R!Interval
  BY <1>1, ElementOfSeq
<1>3. /\ closed \in R!Interval /\ closed.state = row.state /\ closed.start = row.start
      /\ closed.ended_at = st.at /\ closed.ended_runtime = st.runtime
  BY <1>2 DEF R!_close, R!Interval, Stamps
<1>4. R!CloseCurrent(st) = [q EXCEPT ![n] = closed]
  BY DEF R!CloseCurrent, R!current
<1> HIDE DEF q, n, row, closed
<1>5. /\ [q EXCEPT ![n] = closed] \in Seq(R!Interval)
      /\ Len([q EXCEPT ![n] = closed]) = n
      /\ \A j \in 1 .. n : [q EXCEPT ![n] = closed][j] = IF j = n THEN closed ELSE q[j]
  BY <1>1, <1>3, ExceptSeq DEF q, n
<1>6. QED
  BY <1>1, <1>3, <1>4, <1>5 DEF q, n, row

\* A transition closes the newest interval and opens the next.
LEMMA RedTransition ==
  ASSUME red_intervals \in Seq(R!Interval), red_intervals # <<>>, ~red_ended,
         NEW state \in States \ {Waiting}, NEW st \in Stamps,
         state # R!current.state, R!_transition(state, st), red_ended' = red_ended
  PROVE  red_intervals' \in Seq(R!Interval) /\ RedMoved(state, st)
<1> DEFINE n == Len(red_intervals)
           c == R!CloseCurrent(st)
           o == R!_open(state, st)
<1>1. /\ n \in Nat \ {0} /\ c \in Seq(R!Interval) /\ Len(c) = n
      /\ \A i \in 1 .. n : /\ c[i].state = red_intervals[i].state
                           /\ c[i].start = red_intervals[i].start
                           /\ i # n => c[i] = red_intervals[i]
      /\ c[n].ended_at = st.at /\ c[n].ended_runtime = st.runtime
  BY RedCloseEffect
<1>2. o \in R!Interval
  BY RedOpenRow
<1>3. red_intervals' = Append(c, o) /\ R!ClockOk(R!current, st)
  BY DEF R!_transition
<1> HIDE DEF c, o
<1>4. /\ Append(c, o) \in Seq(R!Interval) /\ Len(Append(c, o)) = Len(c) + 1
      /\ \A i \in 1 .. Len(c) : Append(c, o)[i] = c[i]
      /\ Append(c, o)[Len(c) + 1] = o
  BY <1>1, <1>2, AppendProperties
<1>5. n \in 1 .. n
  BY <1>1
<1> QED BY <1>1, <1>3, <1>4, <1>5 DEF RedMoved, RedNewest, o

\* Stored events stay what they are, but for their duplicates.
RedEventsGrow ==
  \A d \in DOMAIN red_events :
    /\ d \in DOMAIN red_events'
    /\ red_events'[d].recipient_key = red_events[d].recipient_key
    /\ red_events'[d].received_at = red_events[d].received_at
    /\ red_events'[d].is_late = red_events[d].is_late

\* Some stored event says what the state shows, received at that time.
Shows(table, state, at) ==
  \E d \in DOMAIN table :
    /\ table[d].recipient_key = state.recipient_key
    /\ table[d].received_at = at
    /\ ~table[d].is_late

RedKinds ==
  \/ red_intervals' = red_intervals /\ red_ended' = red_ended
  \/ \E st \in Stamps :
       \/ RedBegun(st) \/ RedClosed(st)
       \/ \E state \in States :
            /\ RedMoved(state, st)
            /\ state \notin {Waiting, Disconnected} => Shows(red_events', state, st.at)

RedDone ==
  /\ red_intervals' \in Seq(R!Interval) /\ red_events' \in EventTables
  /\ red_connected' \in BOOLEAN /\ red_ended' \in BOOLEAN
  /\ RedEventsGrow /\ RedKinds

\* A session that has begun and not ended has an open interval, and only such.
LEMMA RedOpen ==
  ASSUME RedInv
  PROVE  R!HasCurrent <=> red_intervals # <<>> /\ ~red_ended
<1>1. red_intervals # <<>> => Len(red_intervals) \in DOMAIN red_intervals
  BY EmptySeq, LenProperties DEF RedInv
<1> QED BY <1>1 DEF RedInv, R!Gapless, R!HasCurrent, R!current

\* What stores an event leaves the others alone.
LEMMA RedRecord ==
  ASSUME RedInv, NEW e \in DecodedEvents \cup NormalizedEvents, R!RecordEvent(e), ~R!IsDuplicate(e)
  PROVE  /\ red_events' \in EventTables /\ RedEventsGrow
         /\ e.dedup_key \in DOMAIN red_events'
         /\ red_events'[e.dedup_key].recipient_key = e.recipient_key
         /\ red_events'[e.dedup_key].received_at = e.stamp.at
         /\ red_events'[e.dedup_key].is_late = R!IsLate(e)
<1> DEFINE k == e.dedup_key
           D == DOMAIN red_events
           row == [recipient_key |-> e.recipient_key, received_at |-> e.stamp.at,
                   duplicate_count |-> 0, last_received_at |-> e.stamp.at,
                   is_late |-> R!IsLate(e)]
<1>1. k \in DedupKeys /\ e.recipient_key \in RecipientKeys \cup {NULL} /\ e.stamp.at \in Times
  BY DecodedType DEF Stamps
<1>2. row \in Event /\ row.recipient_key = e.recipient_key /\ row.received_at = e.stamp.at
      /\ row.is_late = R!IsLate(e)
  BY <1>1 DEF Event, R!IsLate
<1>3. PICK T0 \in SUBSET DedupKeys : red_events \in [T0 -> Event]
  BY DEF RedInv, EventTables
<1>4. k \notin D /\ D = T0
  BY <1>3 DEF R!IsDuplicate
<1>5. red_events' = [d \in D \cup {k} |-> IF d \in D THEN red_events[d] ELSE row]
  BY DEF R!RecordEvent
<1> HIDE DEF row, k, D
<1>6. red_events' \in [T0 \cup {k} -> Event]
  BY <1>2, <1>3, <1>4, <1>5
<1>7. red_events' \in EventTables
  BY <1>1, <1>6 DEF EventTables, k
<1>8. /\ DOMAIN red_events' = D \cup {k} /\ red_events'[k] = row
      /\ \A d \in D : red_events'[d] = red_events[d]
  BY <1>4, <1>5
<1> QED BY <1>2, <1>7, <1>8 DEF RedEventsGrow, k, D

\* A duplicate is counted and changes nothing else.
LEMMA RedDuplicate ==
  ASSUME RedInv, NEW e \in DecodedEvents \cup NormalizedEvents, R!CountDuplicate(e), R!IsDuplicate(e)
  PROVE  red_events' \in EventTables /\ RedEventsGrow
<1> DEFINE k == e.dedup_key
           old == red_events[k]
           last == IF old.last_received_at >= e.stamp.at THEN old.last_received_at ELSE e.stamp.at
           row == [old EXCEPT !.duplicate_count = old.duplicate_count + 1,
                              !.last_received_at = last]
<1>1. PICK T0 \in SUBSET DedupKeys : red_events \in [T0 -> Event]
  BY DEF RedInv, EventTables
<1>2. k \in T0 /\ k \in DOMAIN red_events /\ old \in Event /\ e.stamp.at \in Times
  BY <1>1, DecodedType DEF R!IsDuplicate, Stamps
<1>3. /\ row \in Event /\ row.recipient_key = old.recipient_key
      /\ row.received_at = old.received_at /\ row.is_late = old.is_late
  <2>1. last \in Times /\ old.duplicate_count + 1 \in Nat
    BY <1>2 DEF Event
  <2> HIDE DEF last, old
  <2> QED BY <1>2, <2>1 DEF Event
<1>4. red_events' = [red_events EXCEPT ![k] = row]
  BY <1>1, <1>2 DEF R!CountDuplicate, Event
<1> HIDE DEF row, k
<1>5. red_events' \in [T0 -> Event]
  BY <1>1, <1>2, <1>3, <1>4
<1>6. \A d \in DOMAIN red_events : red_events'[d] = IF d = k THEN row ELSE red_events[d]
  BY <1>4
<1>7. DOMAIN red_events' = DOMAIN red_events
  BY <1>4
<1> QED BY <1>3, <1>5, <1>6, <1>7 DEF EventTables, RedEventsGrow

\* Each call is one of the kinds, and stores what its intervals rest on.
LEMMA RedStep ==
  ASSUME RedInv, R!Next
  PROVE  RedDone
<1> USE SameEvents
<1>1. UNCHANGED red_events => red_events' \in EventTables /\ RedEventsGrow
  BY DEF RedInv, RedEventsGrow
<1>2. ASSUME NEW st \in Stamps, R!start_session(st) PROVE RedDone
  <2>1. R!_open(Waiting, st) \in R!Interval
    BY RedOpenRow, StatesFacts
  <2>2. red_intervals' = <<R!_open(Waiting, st)>> /\ red_intervals = <<>>
    BY <1>2 DEF R!start_session
  <2> QED BY <1>1, <1>2, <2>1, <2>2 DEF R!start_session, RedInv, RedDone, RedKinds, RedBegun
<1>3. ASSUME NEW st \in Stamps, R!im_disconnected(st) PROVE RedDone
  <2>1. red_intervals # <<>> /\ ~red_ended /\ UNCHANGED <<red_events, red_ended>>
        /\ red_connected' \in BOOLEAN
    BY <1>3, RedOpen DEF R!im_disconnected
  <2>2. CASE R!current.state = Disconnected
    BY <1>1, <1>3, <2>1, <2>2 DEF R!im_disconnected, RedInv, RedDone, RedKinds
  <2>3. CASE R!current.state # Disconnected
    <3>1. R!_transition(Disconnected, st) /\ Disconnected \in States \ {Waiting}
      BY <1>3, <2>3, StatesFacts DEF R!im_disconnected
    <3>2. red_intervals' \in Seq(R!Interval) /\ RedMoved(Disconnected, st)
      BY <2>1, <2>3, <3>1, RedTransition DEF RedInv
    <3> QED BY <1>1, <2>1, <3>1, <3>2 DEF RedInv, RedDone, RedKinds
  <2> QED BY <2>2, <2>3
<1>4. ASSUME NEW st \in Stamps, R!RefuseDisconnect(st) PROVE RedDone
  BY <1>1, <1>4 DEF R!RefuseDisconnect, RedInv, RedDone, RedKinds
<1>5. ASSUME NEW st \in Stamps, R!end_session(st) PROVE RedDone
  <2>1. red_intervals # <<>> /\ ~red_ended
    BY <1>5, RedOpen DEF R!end_session
  <2>2. RedClosed(st) /\ red_intervals' \in Seq(R!Interval)
    BY <1>5, <2>1, RedCloseEffect DEF R!end_session, RedClosed, RedNewest, RedInv
  <2> QED BY <1>1, <1>5, <2>2 DEF R!end_session, RedDone, RedKinds
<1>6. ASSUME R!im_reconnected PROVE RedDone
  BY <1>1, <1>6 DEF R!im_reconnected, RedInv, RedDone, RedKinds
<1>7. ASSUME NEW e \in DecodedEvents \cup NormalizedEvents, R!apply_event(e) PROVE RedDone
  <2>1. red_intervals # <<>> /\ ~red_ended /\ UNCHANGED <<red_connected, red_ended>>
    BY <1>7, RedOpen DEF R!apply_event
  <2>2. CASE UNCHANGED red_intervals
    <3>1. red_events' \in EventTables /\ RedEventsGrow
      BY <1>7, RedRecord, RedDuplicate DEF R!apply_event
    <3> QED BY <2>1, <2>2, <3>1 DEF RedInv, RedDone, RedKinds
  <2>3. CASE ~UNCHANGED red_intervals
    <3> DEFINE state == R!TargetState(e)
    <3>1. /\ ~R!IsDuplicate(e) /\ R!RecordEvent(e) /\ ~R!IsLate(e)
          /\ R!current.state # state /\ R!_transition(state, e.stamp)
      BY <1>7, <2>3 DEF R!apply_event
    <3>2. state \in States \ {Waiting, Disconnected} /\ state.recipient_key = e.recipient_key
          /\ e.stamp \in Stamps
      BY TargetStateType, DecodedType
    <3> HIDE DEF state
    <3>3. red_intervals' \in Seq(R!Interval) /\ RedMoved(state, e.stamp)
      BY <2>1, <3>1, <3>2, RedTransition DEF RedInv
    <3>4. red_events' \in EventTables /\ RedEventsGrow /\ Shows(red_events', state, e.stamp.at)
      BY <3>1, <3>2, RedRecord DEF Shows
    <3> QED BY <2>1, <3>2, <3>3, <3>4 DEF RedInv, RedDone, RedKinds
  <2> QED BY <2>2, <2>3
<1>8. ASSUME NEW e \in DecodedEvents \cup NormalizedEvents, R!RefuseFrame(e) PROVE RedDone
  <2>1. red_events' \in EventTables /\ RedEventsGrow
    BY <1>8, RedRecord DEF R!RefuseFrame
  <2> QED BY <1>8, <2>1 DEF R!RefuseFrame, RedInv, RedDone, RedKinds
<1> QED BY <1>2, <1>3, <1>4, <1>5, <1>6, <1>7, <1>8 DEF R!Next

\* A new reducer promises all of it.
LEMMA RedStarts == R!Init => RedInv
<1> SUFFICES ASSUME R!Init PROVE RedInv
  OBVIOUS
<1>1. red_intervals = <<>> /\ red_events = [d \in {} |-> NULL] /\ red_connected = FALSE
      /\ red_ended = FALSE
  BY DEF R!Init
<1>2. red_events \in [{} -> Event]
  BY <1>1
<1>3. red_events \in EventTables
  BY <1>2 DEF EventTables
<1>4. /\ <<>> \in Seq(R!Interval) /\ DOMAIN red_intervals = {} /\ Len(red_intervals) = 0
  BY <1>1
<1>5. R!Gapless /\ R!EvidenceForEveryRecipient
  BY <1>1, <1>4 DEF R!Gapless, R!EvidenceForEveryRecipient
<1> QED BY <1>1, <1>3, <1>4, <1>5 DEF RedInv

\* Lengths and domains before and after a step.
LEMMA RedLengths ==
  ASSUME RedInv, RedDone
  PROVE  LET n == Len(red_intervals)
             m == Len(red_intervals')
         IN /\ n \in Nat /\ m \in Nat
            /\ DOMAIN red_intervals = 1 .. n /\ DOMAIN red_intervals' = 1 .. m
            /\ (red_intervals = <<>> <=> n = 0) /\ (red_intervals' = <<>> <=> m = 0)
<1>1. red_intervals \in Seq(R!Interval) /\ red_intervals' \in Seq(R!Interval)
  BY DEF RedInv, RedDone
<1> QED BY <1>1, LenProperties, EmptySeq

\* Closing the newest interval and opening the next leaves no gap.
LEMMA RedGapless ==
  ASSUME RedInv, RedDone
  PROVE  R!Gapless' /\ (red_ended' => red_intervals' # <<>>)
<1> DEFINE q == red_intervals
           new == red_intervals'
           n == Len(q)
           m == Len(new)
<1>1. /\ n \in Nat /\ m \in Nat /\ DOMAIN q = 1 .. n /\ DOMAIN new = 1 .. m
      /\ (q = <<>> <=> n = 0) /\ (new = <<>> <=> m = 0)
  BY RedLengths
<1>2. /\ \A i \in 1 .. n : q[i].ended_at = NULL <=> ~red_ended /\ i = n
      /\ \A i \in 1 .. n - 1 : /\ q[i].ended_at = q[i + 1].start.at
                               /\ q[i].ended_runtime = q[i + 1].start.runtime
      /\ red_ended => n # 0
  BY <1>1 DEF RedInv, R!Gapless
<1>3. SUFFICES /\ \A i \in 1 .. m : new[i].ended_at = NULL <=> ~red_ended' /\ i = m
               /\ \A i \in 1 .. m - 1 : /\ new[i].ended_at = new[i + 1].start.at
                                        /\ new[i].ended_runtime = new[i + 1].start.runtime
               /\ red_ended' => m # 0
  BY <1>1 DEF R!Gapless
<1>4. \A st \in Stamps : st.at # NULL
  BY StampFacts
<1>5. CASE red_intervals' = red_intervals /\ red_ended' = red_ended
  BY <1>2, <1>5
<1>6. CASE \E st \in Stamps : RedBegun(st)
  <2>1. PICK st \in Stamps : RedBegun(st)
    BY <1>6
  <2>2. m = 1 /\ new[1].ended_at = NULL /\ red_ended' = red_ended /\ ~red_ended
    BY <1>1, <1>2, <2>1, RedOpenRow, StatesFacts DEF RedBegun
  <2> QED BY <2>2
<1>7. CASE \E st \in Stamps : RedClosed(st)
  <2>1. PICK st \in Stamps : RedClosed(st)
    BY <1>7
  <2>2. /\ ~red_ended /\ n # 0 /\ m = n /\ red_ended'
        /\ \A i \in 1 .. n : /\ new[i].start = q[i].start
                             /\ i # n => new[i] = q[i]
        /\ new[n].ended_at = st.at
    BY <1>1, <2>1 DEF RedClosed, RedNewest
  <2> HIDE DEF q, new, m, n
  <2>3. ASSUME NEW i \in 1 .. m PROVE new[i].ended_at # NULL
    BY <1>1, <1>2, <1>4, <2>2
  <2>4. ASSUME NEW i \in 1 .. m - 1
        PROVE  /\ new[i].ended_at = new[i + 1].start.at
               /\ new[i].ended_runtime = new[i + 1].start.runtime
    <3>1. i \in 1 .. n - 1 /\ i \in 1 .. n /\ i + 1 \in 1 .. n /\ i # n
      BY <1>1, <2>2
    <3> QED BY <1>2, <2>2, <3>1
  <2> QED BY <2>2, <2>3, <2>4
<1>8. CASE \E st \in Stamps, state \in States : RedMoved(state, st)
  <2>1. PICK st \in Stamps, state \in States : RedMoved(state, st)
    BY <1>8
  <2>2. /\ ~red_ended /\ n # 0 /\ m = n + 1 /\ ~red_ended'
        /\ \A i \in 1 .. n : /\ new[i].start = q[i].start
                             /\ i # n => new[i] = q[i]
        /\ new[n].ended_at = st.at /\ new[n].ended_runtime = st.runtime
        /\ new[n + 1] = R!_open(state, st)
    BY <1>1, <2>1 DEF RedMoved, RedNewest
  <2>3. new[n + 1].ended_at = NULL /\ new[n + 1].start = st
    BY <2>2, RedOpenRow
  <2> HIDE DEF new, q, m, n
  <2>4. ASSUME NEW i \in 1 .. m PROVE new[i].ended_at = NULL <=> i = m
    <3>1. CASE i = m
      BY <2>2, <2>3, <3>1
    <3>2. CASE i = n
      BY <1>1, <1>4, <2>2, <3>2
    <3>3. CASE i \notin {n, m}
      <4>1. i \in 1 .. n /\ i # n
        BY <1>1, <2>2, <3>3
      <4> QED BY <1>2, <2>2, <3>3, <4>1
    <3> QED BY <3>1, <3>2, <3>3
  <2>5. ASSUME NEW i \in 1 .. m - 1
        PROVE  new[i].ended_at = new[i + 1].start.at /\ new[i].ended_runtime = new[i + 1].start.runtime
    <3>1. CASE i = n
      BY <1>1, <2>2, <2>3, <3>1
    <3>2. CASE i # n
      <4>1. i \in 1 .. n - 1 /\ i \in 1 .. n /\ i + 1 \in 1 .. n
        BY <1>1, <2>2, <3>2
      <4>2. new[i] = q[i] /\ new[i + 1].start = q[i + 1].start
        BY <2>2, <3>2, <4>1
      <4> QED BY <1>2, <4>1, <4>2
    <3> QED BY <3>1, <3>2
  <2> QED BY <1>1, <2>2, <2>4, <2>5
<1> QED BY <1>5, <1>6, <1>7, <1>8 DEF RedDone, RedKinds

\* What an interval rests on stays, and a new one comes with its evidence.
LEMMA RedEvident ==
  ASSUME RedInv, RedDone
  PROVE  R!EvidenceForEveryRecipient'
<1> DEFINE q == red_intervals
           new == red_intervals'
           n == Len(q)
           m == Len(new)
<1>1. /\ n \in Nat /\ m \in Nat /\ DOMAIN q = 1 .. n /\ DOMAIN new = 1 .. m
  BY RedLengths
<1>2. \A i \in 1 .. n : q[i].state \notin {Waiting, Disconnected}
                        => Shows(red_events, q[i].state, q[i].start.at)
  BY <1>1, SameEvents DEF RedInv, R!EvidenceForEveryRecipient, Shows
<1>3. \A state, at : Shows(red_events, state, at) => Shows(red_events', state, at)
  BY DEF RedDone, RedEventsGrow, Shows
<1>4. SUFFICES ASSUME NEW i \in 1 .. m, new[i].state \notin {Waiting, Disconnected}
               PROVE  Shows(red_events', new[i].state, new[i].start.at)
  BY <1>1, SameEvents DEF R!EvidenceForEveryRecipient, Shows
<1>5. i \in 1 .. n /\ new[i].state = q[i].state /\ new[i].start = q[i].start
      => Shows(red_events', new[i].state, new[i].start.at)
  BY <1>2, <1>3, <1>4
<1>6. CASE red_intervals' = red_intervals /\ red_ended' = red_ended
  BY <1>4, <1>5, <1>6
<1>7. CASE \E st \in Stamps : RedBegun(st)
  <2>1. PICK st \in Stamps : RedBegun(st)
    BY <1>7
  <2>2. i = 1 /\ new[1].state = Waiting
    BY <1>1, <2>1, RedOpenRow, StatesFacts DEF RedBegun
  <2> QED BY <1>4, <2>2
<1>8. CASE \E st \in Stamps : RedClosed(st)
  <2>1. PICK st \in Stamps : RedClosed(st)
    BY <1>8
  <2> QED BY <1>4, <1>5, <2>1 DEF RedClosed, RedNewest
<1>9. CASE \E st \in Stamps, state \in States :
             /\ RedMoved(state, st)
             /\ state \notin {Waiting, Disconnected} => Shows(red_events', state, st.at)
  <2>1. PICK st \in Stamps, state \in States :
             /\ RedMoved(state, st)
             /\ state \notin {Waiting, Disconnected} => Shows(red_events', state, st.at)
    BY <1>9
  <2>2. CASE i \in 1 .. n
    BY <1>5, <2>1, <2>2 DEF RedMoved, RedNewest
  <2>3. CASE i \notin 1 .. n
    <3>1. i = n + 1 /\ new[i].state = state /\ new[i].start = st
      BY <1>1, <2>1, <2>3, RedOpenRow DEF RedMoved
    <3> QED BY <1>4, <2>1, <3>1 DEF Shows
  <2> QED BY <2>2, <2>3
<1> QED BY <1>6, <1>7, <1>8, <1>9 DEF RedDone, RedKinds

\* RedInv holds after every sequence of calls.
LEMMA RedAlways == R!Spec => []RedInv
<1>1. RedInv /\ R!Next => RedInv'
  <2> SUFFICES ASSUME RedInv, R!Next PROVE RedInv'
    OBVIOUS
  <2>1. RedDone
    BY RedStep
  <2>2. R!Gapless' /\ R!EvidenceForEveryRecipient' /\ (red_ended' => red_intervals' # <<>>)
    BY <2>1, RedGapless, RedEvident
  <2> QED BY <2>1, <2>2 DEF RedInv, RedDone
<1>2. RedInv /\ UNCHANGED R!vars => RedInv'
  BY DEF RedInv, R!vars, R!Gapless, R!EvidenceForEveryRecipient
<1> QED BY RedStarts, <1>1, <1>2, PTL DEF R!Spec

\* After every sequence of calls, refused ones included: the intervals follow each
\* other without a gap and only the newest is open, and each recipient they show
\* rests on a stored event of its own (apply_event, im_disconnected, end_session).
THEOREM ReducerIsGapless == R!Spec => [](R!Gapless /\ R!EvidenceForEveryRecipient)
<1>1. RedInv => R!Gapless /\ R!EvidenceForEveryRecipient
  BY DEF RedInv
<1> QED BY <1>1, RedAlways, PTL

\* Intervals, events and flags of the reducer keep their types.
THEOREM ReducerTypeCorrect == R!Spec => []R!TypeOK
<1>1. RedInv => R!TypeOK
  BY SameEvents DEF RedInv, R!TypeOK, EventTables
<1> QED BY <1>1, RedAlways, PTL

-----------------------------------------------------------------------------
(* The reducer implements Timeline. *)

\* A new reducer is an empty timeline.
LEMMA RedInitImplements == R!Init => R!T!Init
<1> SUFFICES ASSUME R!Init PROVE R!T!Init
  OBVIOUS
<1>1. red_intervals = <<>> /\ red_ended = FALSE
  BY DEF R!Init
<1>2. R!Track = <<>>
  BY <1>1 DEF R!Track
<1> QED BY <1>1, <1>2 DEF R!T!Init

\* Each call is a step of Timeline, or leaves it alone.
LEMMA RedStepImplements == RedInv /\ R!Next => R!T!Next \/ UNCHANGED R!T!vars
<1> SUFFICES ASSUME RedInv, R!Next PROVE R!T!Next \/ UNCHANGED R!T!vars
  OBVIOUS
<1> DEFINE q == red_intervals
           n == Len(q)
           new == red_intervals'
           m == Len(new)
           Entries(r) == [i \in 1 .. Len(r) |-> [state |-> r[i].state, from |-> r[i].start.at]]
<1>1. RedDone
  BY RedStep
<1>2. /\ n \in Nat /\ m \in Nat /\ (q = <<>> <=> n = 0) /\ (new = <<>> <=> m = 0)
  BY <1>1, RedLengths
<1>3. red_ended => n # 0
  BY <1>2 DEF RedInv
<1>4. R!Track = Entries(q) /\ R!Track' = Entries(new)
  BY DEF R!Track
<1>5. /\ Len(Entries(q)) = n /\ (n # 0 => Entries(q) # <<>>) /\ (n = 0 => Entries(q) = <<>>)
      /\ \A i \in 1 .. n : /\ Entries(q)[i].state = q[i].state
                           /\ Entries(q)[i].from = q[i].start.at
  BY <1>2
<1>6. ASSUME m = n,
             \A i \in 1 .. n : new[i].state = q[i].state /\ new[i].start = q[i].start
      PROVE  R!Track' = R!Track
  BY <1>4, <1>6
<1>7. n # 0 => /\ R!T!Last.state = R!current.state /\ R!T!Last.from = R!current.start.at
               /\ R!Track # <<>>
  BY <1>2, <1>4, <1>5 DEF R!T!Last, R!current
<1>8. CASE red_intervals' = red_intervals /\ red_ended' = red_ended
  BY <1>8 DEF R!T!vars, R!Track, R!current
<1>9. CASE \E st \in Stamps : RedBegun(st)
  <2>1. PICK st \in Stamps : RedBegun(st)
    BY <1>9
  <2>2. n = 0 /\ m = 1 /\ new[1].state = Waiting /\ new[1].start = st
        /\ ~red_ended /\ ~red_ended'
    BY <1>2, <1>3, <2>1, RedOpenRow, StatesFacts DEF RedBegun
  <2>3. Entries(new) = <<[state |-> Waiting, from |-> st.at]>>
    BY <2>2
  <2>4. R!T!Begin(st.at)
    BY <1>4, <1>5, <2>2, <2>3, SameEvents DEF R!T!Begin
  <2> QED BY <2>4, StampFacts DEF R!T!Next
<1>10. CASE \E st \in Stamps : RedClosed(st)
  <2>1. PICK st \in Stamps : RedClosed(st)
    BY <1>10
  <2>2. /\ n # 0 /\ m = n /\ ~red_ended /\ red_ended' /\ R!ClockOk(R!current, st)
        /\ \A i \in 1 .. n : new[i].state = q[i].state /\ new[i].start = q[i].start
        /\ R!current'.ended_at = st.at
    BY <1>2, <2>1 DEF RedClosed, RedNewest, R!current
  <2>3. R!Track' = R!Track
    BY <1>6, <2>2
  <2>4. R!T!Close(st.at)
    BY <1>7, <2>2, <2>3 DEF R!T!Close, R!ClockOk
  <2> QED BY <2>4, StampFacts DEF R!T!Next
<1>11. CASE \E st \in Stamps, state \in States : RedMoved(state, st)
  <2>1. PICK st \in Stamps, state \in States : RedMoved(state, st)
    BY <1>11
  <2>2. /\ n # 0 /\ m = n + 1 /\ ~red_ended /\ ~red_ended' /\ R!ClockOk(R!current, st)
        /\ \A i \in 1 .. n : new[i].state = q[i].state /\ new[i].start = q[i].start
        /\ state \notin {R!current.state, Waiting}
        /\ new[n + 1].state = state /\ new[n + 1].start = st
    BY <1>2, <2>1, RedOpenRow DEF RedMoved, RedNewest
  <2>3. Entries(new) = Append(Entries(q), [state |-> state, from |-> st.at])
    BY <1>2, <2>2
  <2>4. R!T!Switch(state, st.at)
    BY <1>4, <1>7, <2>2, <2>3, SameEvents DEF R!T!Switch, R!ClockOk
  <2> QED BY <2>4, StampFacts, SameEvents DEF R!T!Next
<1> QED BY <1>1, <1>8, <1>9, <1>10, <1>11 DEF RedDone, RedKinds

\* Whatever is called, and refused half way: the reducer implements Timeline.
THEOREM ReducerImplements == R!Spec => ReducerImplementsTimeline
<1>1. UNCHANGED R!vars => UNCHANGED R!T!vars
  BY DEF R!vars, R!T!vars, R!Track, R!current
<1>2. RedInv /\ [R!Next]_(R!vars) => [R!T!Next]_(R!T!vars)
  BY RedStepImplements, <1>1
<1> QED
  BY RedInitImplements, RedAlways, <1>2, PTL
     DEF R!Spec, ReducerImplementsTimeline, R!ImplementsTimeline, R!T!Spec

-----------------------------------------------------------------------------
(* The replay. *)

\* All the database does in a replay is done by the store's transactions.
LEMMA ReplayUsesTheStore == ReplaySpec => Spec
<1>1. ReplayInit => Init
  BY DEF ReplayInit
<1>2. [ReplayNext]_allvars => [Next]_vars
  <2> SUFFICES ASSUME [ReplayNext]_allvars PROVE Next \/ UNCHANGED vars
    OBVIOUS
  <2> USE FixtureAssumption
  <2>1. ASSUME NEW st \in Stamps, session_started(st) PROVE Next \/ UNCHANGED vars
    BY <2>1 DEF session_started, Follow, Next
  <2>2. ASSUME NEW st \in Stamps, disconnected(st) PROVE Next \/ UNCHANGED vars
    BY <2>2 DEF disconnected, Follow, Next
  <2>3. ASSUME NEW st \in Stamps, session_ended(st) PROVE Next \/ UNCHANGED vars
    BY <2>3 DEF session_ended, Follow, Next, Terminal
  <2>4. ASSUME reconnected PROVE Next \/ UNCHANGED vars
    BY <2>4 DEF reconnected, Follow, im_reconnected, Raise
  <2>5. ASSUME NEW e \in DecodedEvents, frame(e) PROVE Next \/ UNCHANGED vars
    BY <2>5 DEF frame, Follow, Next, Raise
  <2>6. ASSUME NEW e \in NormalizedEvents, normalized(e) PROVE UNCHANGED vars
    BY <2>6 DEF normalized, Raise
  <2>7. ASSUME undecodable \/ fixture_over PROVE UNCHANGED vars
    BY <2>7 DEF undecodable, fixture_over, Raise
  <2> QED
    BY <2>1, <2>2, <2>3, <2>4, <2>5, <2>6, <2>7 DEF ReplayNext, FixtureStep, allvars, vars
<1> QED BY <1>1, <1>2, PTL DEF ReplaySpec, Spec

\* The reducer is called in a replay as it may be called by anybody.
LEMMA ReplayUsesTheReducer == ReplaySpec => R!Spec
<1>1. ReplayInit => R!Init
  BY DEF ReplayInit
<1>2. [ReplayNext]_allvars => [R!Next]_(R!vars)
  BY SameEvents
     DEF ReplayNext, FixtureStep, session_started, disconnected, session_ended, reconnected,
         frame, normalized, undecodable, fixture_over, run_undecodable, run_started, run_frame, run_disconnected, run_reconnected, run_ended,
         R!Next, R!vars, allvars, reducer
<1> QED BY <1>1, <1>2, PTL DEF ReplaySpec, R!Spec

\* A row of the database says what an interval of the reducer says.
SaysThe(row, interval) ==
  row.state = interval.state /\ row.start = interval.start /\ row.ended_at = interval.ended_at

\* Row by row and event by event, the database says what the reducer says.
Agree ==
  LET rows == intervals[FixtureSession]
  IN /\ Len(rows) = Len(red_intervals)
     /\ \A i \in 1 .. Len(red_intervals) : SaysThe(rows[i], red_intervals[i])
     /\ events[FixtureSession] = red_events
Alone == \A s \in SessionIds : s # FixtureSession => sessions[s].status = "none"

\* Until the tool raises they agree; the verdict at the end is the row limit's.
AgreeInv ==
  replaying =>
  /\ tool # "refused"
  /\ tool # "raised" => Agree /\ Alone
  /\ tool \in {"agree", "differ"} => (tool = "agree" <=> Len(red_intervals) <= ListLimit)

\* The two are at the same place of a session's life, so what the one asks of
\* its newest interval the other asks as well.
LEMMA SamePlace ==
  ASSUME IInv, RedInv, Agree
  PROVE  LET rows == intervals[FixtureSession]
             status == sessions[FixtureSession].status
         IN /\ rows \in Seq(Interval)
            /\ (rows = <<>> <=> red_intervals = <<>>)
            /\ (status = "none" <=> red_intervals = <<>>)
            /\ (R!HasCurrent => status = "active" /\ Writable(FixtureSession))
            /\ red_intervals # <<>> =>
                 /\ current(FixtureSession).state = R!current.state
                 /\ current(FixtureSession).start = R!current.start
                 /\ ~red_ended => status = "active"
<1> DEFINE rows == intervals[FixtureSession]
           n == Len(rows)
           status == sessions[FixtureSession].status
<1>1. rows \in Seq(Interval) /\ red_intervals \in Seq(R!Interval)
  BY FixtureAssumption DEF IInv, Typed, RedInv
<1>2. /\ n \in Nat /\ n = Len(red_intervals) /\ DOMAIN rows = 1 .. n
      /\ DOMAIN red_intervals = 1 .. n
      /\ (rows = <<>> <=> n = 0) /\ (red_intervals = <<>> <=> n = 0)
  BY <1>1, LenProperties, EmptySeq DEF Agree
<1>3. /\ \A i \in 1 .. n : rows[i].ended_at = NULL <=> status = "active" /\ i = n
      /\ status = "none" <=> n = 0
  BY <1>2, FixtureAssumption DEF IInv, OpenIffActive
<1>4. \A i \in 1 .. n : red_intervals[i].ended_at = NULL <=> ~red_ended /\ i = n
  BY <1>2 DEF RedInv, R!Gapless
<1>5. \A i \in 1 .. n : SaysThe(rows[i], red_intervals[i])
  BY <1>2 DEF Agree
<1>6. CASE n = 0
  BY <1>1, <1>2, <1>3, <1>6 DEF R!HasCurrent
<1>7. CASE n # 0
  <2>1. n \in 1 .. n
    BY <1>2, <1>7
  <2>2. status = "active" <=> ~red_ended
    BY <1>3, <1>4, <1>5, <2>1 DEF SaysThe
  <2>3. /\ current(FixtureSession).state = R!current.state
        /\ current(FixtureSession).start = R!current.start
        /\ current(FixtureSession).ended_at = R!current.ended_at
    BY <1>2, <1>5, <2>1 DEF SaysThe, current, R!current
  <2>4. R!HasCurrent <=> ~red_ended
    BY <1>2, <1>4, <1>7, <2>1 DEF R!HasCurrent, R!current
  <2> QED BY <1>1, <1>2, <1>3, <1>7, <2>2, <2>3, <2>4 DEF Writable, R!HasCurrent
<1> QED BY <1>6, <1>7

\* The clocks are compared alike.
LEMMA SameClockCheck ==
  ASSUME IInv, RedInv, Agree, red_intervals # <<>>, NEW st
  PROVE  R!ClockOk(R!current, st) <=> _validate_close_clock(FixtureSession, st)
BY SamePlace DEF R!ClockOk, _validate_close_clock

\* A transition on both sides leaves the same intervals.
LEMMA BothMove ==
  ASSUME IInv, RedInv, Agree, red_intervals # <<>>, ~red_ended, UNCHANGED red_ended,
         NEW state \in States \ {Waiting}, state # R!current.state,
         NEW st \in Stamps, NEW event \in DedupKeys \cup {NULL},
         R!_transition(state, st), _transition(FixtureSession, state, st, event)
  PROVE  /\ Len(intervals'[FixtureSession]) = Len(red_intervals')
         /\ \A i \in 1 .. Len(red_intervals') :
              SaysThe(intervals'[FixtureSession][i], red_intervals'[i])
<1> DEFINE rows == intervals[FixtureSession]
           next == intervals'[FixtureSession]
           n == Len(rows)
<1>1. rows \in Seq(Interval) /\ rows # <<>> /\ intervals \in [SessionIds -> Seq(Interval)]
  BY SamePlace DEF IInv, Typed
<1>2. /\ n \in Nat \ {0} /\ Len(next) = n + 1
      /\ \A i \in 1 .. n : i # n => next[i] = rows[i]
      /\ next[n].state = rows[n].state /\ next[n].start = rows[n].start
      /\ next[n].ended_at = st.at /\ next[n + 1] = _open_interval(state, st, event)
  BY <1>1, FixtureAssumption, TransitionEffect
<1>3. RedMoved(state, st)
  BY RedTransition DEF RedInv
<1>4. /\ n = Len(red_intervals) /\ Len(red_intervals') = n + 1
      /\ \A i \in 1 .. n : SaysThe(rows[i], red_intervals[i])
      /\ \A i \in 1 .. n : /\ red_intervals'[i].state = red_intervals[i].state
                           /\ red_intervals'[i].start = red_intervals[i].start
                           /\ i # n => red_intervals'[i] = red_intervals[i]
      /\ red_intervals'[n].ended_at = st.at
      /\ red_intervals'[n + 1] = R!_open(state, st)
  BY <1>3 DEF RedMoved, RedNewest, Agree
<1>5. SaysThe(next[n + 1], red_intervals'[n + 1])
  BY <1>2, <1>4 DEF SaysThe, _open_interval, R!_open
<1> HIDE DEF rows, next, n
<1>6. \A i \in 1 .. n : SaysThe(next[i], red_intervals'[i])
  BY <1>2, <1>4 DEF SaysThe
<1>7. \A i \in 1 .. n + 1 : i \in 1 .. n \/ i = n + 1
  BY <1>2
<1> QED BY <1>2, <1>4, <1>5, <1>6, <1>7 DEF next

\* Before a step of the replay.
Agreed == IInv /\ RedInv /\ Agree /\ Alone /\ tool = "driving"

\* What is the same of the intervals and of the events is the same of both.
LEMMA BothSame ==
  ASSUME Agreed, UNCHANGED <<red_intervals, intervals>>
  PROVE  /\ Len(intervals'[FixtureSession]) = Len(red_intervals')
         /\ \A i \in 1 .. Len(red_intervals') :
              SaysThe(intervals'[FixtureSession][i], red_intervals'[i])
BY DEF Agreed, Agree, SaysThe

\* Both store a new event as the same.
LEMMA BothRecord ==
  ASSUME Agreed, red_intervals # <<>>, NEW e \in DecodedEvents,
         R!RecordEvent(e), _insert_event(FixtureSession, e)
  PROVE  events'[FixtureSession] = red_events'
<1>1. is_late(FixtureSession, e) <=> R!IsLate(e)
  BY SamePlace DEF Agreed, is_late, R!IsLate
<1>2. events[FixtureSession] = red_events /\ events \in [SessionIds -> EventTables]
  BY DEF Agreed, Agree, IInv, Typed
<1> DEFINE row(late) == [recipient_key |-> e.recipient_key, received_at |-> e.stamp.at,
                         duplicate_count |-> 0, last_received_at |-> e.stamp.at,
                         is_late |-> late]
           table(late) == [d \in DOMAIN red_events \cup {e.dedup_key} |->
                            IF d \in DOMAIN red_events THEN red_events[d] ELSE row(late)]
<1>3. events'[FixtureSession] = table(is_late(FixtureSession, e))
  BY <1>2, FixtureAssumption DEF _insert_event
<1>4. red_events' = table(R!IsLate(e))
  BY DEF R!RecordEvent
<1>5. is_late(FixtureSession, e) = R!IsLate(e)
  BY <1>1 DEF is_late, R!IsLate
<1> QED BY <1>3, <1>4, <1>5

\* Both count a duplicate alike.
LEMMA BothCount ==
  ASSUME Agreed, NEW e \in DecodedEvents, R!IsDuplicate(e),
         R!CountDuplicate(e), CountDuplicate(FixtureSession, e)
  PROVE  events'[FixtureSession] = red_events'
<1>1. events[FixtureSession] = red_events /\ events \in [SessionIds -> EventTables]
  BY DEF Agreed, Agree, IInv, Typed
<1> DEFINE k == e.dedup_key
           old == red_events[k]
           last == IF old.last_received_at >= e.stamp.at THEN old.last_received_at ELSE e.stamp.at
           row == [old EXCEPT !.duplicate_count = old.duplicate_count + 1,
                              !.last_received_at = last]
<1>2. red_events' = [red_events EXCEPT ![k] = row]
  <2>1. PICK T0 \in SUBSET DedupKeys : red_events \in [T0 -> Event]
    BY DEF Agreed, RedInv, EventTables
  <2>2. k \in T0 /\ old \in Event
    BY <2>1 DEF R!IsDuplicate
  <2> QED BY <2>1, <2>2 DEF R!CountDuplicate, Event
<1>3. events'[FixtureSession] = [red_events EXCEPT ![k] = row]
  BY <1>1, FixtureAssumption DEF CountDuplicate
<1> QED BY <1>2, <1>3

\* After one that the database has taken, or that the tool does not replay.
AgreedStep == tool' = "raised" \/ (tool' = "driving" /\ Agree' /\ Alone')

\* Both begin with the same waiting interval; no other session has the room.
LEMMA StartAgrees ==
  ASSUME Agreed, NEW st \in Stamps, session_started(st)
  PROVE  AgreedStep
<1>1. R!start_session(st) /\ red_intervals = <<>>
  BY DEF session_started, run_started, R!start_session
<1>2. sessions[FixtureSession].status = "none"
  BY <1>1, SamePlace DEF Agreed
<1>3. StartAccepted(FixtureSession, FixtureRoom)
  BY <1>2 DEF StartAccepted, Agreed, Alone
<1>4. start_session(FixtureSession, FixtureRoom, FALSE, st) /\ UNCHANGED tool
  BY <1>3 DEF session_started, Follow
<1>5. /\ intervals'[FixtureSession] = <<_open_interval(Waiting, st, NULL)>>
      /\ events' = events /\ \A s \in SessionIds : s # FixtureSession => sessions'[s] = sessions[s]
  BY <1>4, FixtureAssumption DEF start_session, Agreed, IInv, Typed
<1>6. red_intervals' = <<R!_open(Waiting, st)>> /\ red_events' = red_events
  BY <1>1, SameEvents DEF R!start_session
<1>7. SaysThe(_open_interval(Waiting, st, NULL), R!_open(Waiting, st))
  BY DEF SaysThe, _open_interval, R!_open
<1> HIDE DEF SaysThe
<1>8. Agree'
  BY <1>5, <1>6, <1>7 DEF Agree, Agreed
<1> QED BY <1>4, <1>5, <1>8 DEF AgreedStep, Agreed, Alone

\* The reducer's bound counts the same events (its instance copies Cardinality).
LEMMA SameCardinality == \A set : R!Cardinality(set) = Cardinality(set)
  BY Zenon DEF R!Cardinality, Cardinality

\* A frame: duplicates, late events, events of the same state and transitions.
LEMMA FrameAgrees ==
  ASSUME Agreed, NEW e \in DecodedEvents, frame(e)
  PROVE  AgreedStep
<1> DEFINE s == FixtureSession
<1>0. SUFFICES ASSUME run_frame(e), Follow(FrameAccepted(s, e), apply_event(s, e))
               PROVE  AgreedStep
  BY DEF frame, Raise, AgreedStep
<1>1. R!apply_event(e) /\ R!HasCurrent /\ red_intervals # <<>> /\ ~red_ended /\ UNCHANGED red_ended
  BY <1>0 DEF run_frame, R!apply_event, R!HasCurrent
<1>2. /\ Writable(s) /\ current(s).state = R!current.state /\ current(s).start = R!current.start
      /\ events[s] = red_events
  BY <1>1, SamePlace DEF Agreed, Agree
<1>3. /\ (_existing_event(s, e) <=> R!IsDuplicate(e)) /\ (is_late(s, e) <=> R!IsLate(e))
      /\ R!TargetState(e) = TargetState(e)
  BY <1>2, SameEvents DEF _existing_event, R!IsDuplicate, is_late, R!IsLate
<1>4. R!ClockOk(R!current, e.stamp) <=> _validate_close_clock(s, e.stamp)
  BY <1>1, SameClockCheck DEF Agreed
<1>5. Len(intervals[s]) = Len(red_intervals)
  BY DEF Agreed, Agree
<1>6. FrameAccepted(s, e)
  <2>1. CASE R!IsDuplicate(e)
    BY <1>1, <1>2, <1>3, <2>1 DEF FrameAccepted, R!apply_event, R!CountDuplicate
  <2>2. CASE ~R!IsDuplicate(e)
    <3>0. R!RecordEvent(e)
      BY <1>1, <2>2 DEF R!apply_event
    <3>1. Cardinality(DOMAIN events[s]) < MaxEvents
      <4>1. Cardinality(DOMAIN red_events) < MaxEvents
        BY <3>0, SameCardinality DEF R!RecordEvent
      <4> QED BY <1>2, <4>1
    <3>2. is_late(s, e) \/ current(s).state = TargetState(e) \/ MayTransit(s, e.stamp)
      BY <1>1, <1>2, <1>3, <1>4, <1>5, <2>2 DEF R!apply_event, R!_transition, MayTransit
    <3> QED BY <1>2, <1>3, <2>2, <3>1, <3>2 DEF FrameAccepted
  <2> QED BY <2>1, <2>2
<1>7. apply_event(s, e) /\ UNCHANGED tool /\ UNCHANGED sessions
  BY <1>0, <1>6 DEF Follow, apply_event
<1>8. events'[s] = red_events'
  BY <1>1, <1>3, <1>7, BothRecord, BothCount DEF apply_event, R!apply_event
<1>9. /\ Len(intervals'[s]) = Len(red_intervals')
      /\ \A i \in 1 .. Len(red_intervals') : SaysThe(intervals'[s][i], red_intervals'[i])
  <2>1. CASE R!IsDuplicate(e) \/ R!IsLate(e) \/ R!current.state = TargetState(e)
    <3>1. UNCHANGED <<red_intervals, intervals>>
      BY <1>1, <1>2, <1>3, <1>7, <2>1 DEF apply_event, R!apply_event
    <3> QED BY <3>1, BothSame
  <2>2. CASE ~(R!IsDuplicate(e) \/ R!IsLate(e) \/ R!current.state = TargetState(e))
    <3>1. /\ R!_transition(TargetState(e), e.stamp)
          /\ _transition(s, TargetState(e), e.stamp, e.dedup_key)
      BY <1>1, <1>2, <1>3, <1>7, <2>2 DEF apply_event, R!apply_event
    <3>2. /\ TargetState(e) \in States \ {Waiting} /\ e.stamp \in Stamps
          /\ e.dedup_key \in DedupKeys \cup {NULL}
      BY TargetStateType, DecodedType
    <3> QED BY <1>1, <2>2, <3>1, <3>2, BothMove DEF Agreed
  <2> QED BY <2>1, <2>2
<1> QED BY <1>7, <1>8, <1>9 DEF AgreedStep, Agreed, Agree, Alone

\* A disconnect closes the interval on both sides, or finds both disconnected.
LEMMA DisconnectAgrees ==
  ASSUME Agreed, NEW st \in Stamps, disconnected(st)
  PROVE  AgreedStep
<1> DEFINE s == FixtureSession
<1>1. /\ R!im_disconnected(st) /\ R!HasCurrent /\ red_intervals # <<>> /\ ~red_ended
      /\ UNCHANGED <<red_ended, red_events>>
  BY DEF disconnected, run_disconnected, R!im_disconnected, R!HasCurrent
<1>2. Writable(s) /\ current(s).state = R!current.state
  BY <1>1, SamePlace DEF Agreed
<1>3. R!ClockOk(R!current, st) <=> _validate_close_clock(s, st)
  BY <1>1, SameClockCheck DEF Agreed
<1>4. Len(intervals[s]) = Len(red_intervals)
  BY DEF Agreed, Agree
<1>5. DisconnectAccepted(s, st)
  BY <1>1, <1>2, <1>3, <1>4, SameEvents
     DEF DisconnectAccepted, MayTransit, R!im_disconnected, R!_transition
<1>6. im_disconnected(s, st) /\ UNCHANGED <<tool, sessions, events>>
  BY <1>5 DEF disconnected, Follow, im_disconnected
<1>7. /\ Len(intervals'[s]) = Len(red_intervals')
      /\ \A i \in 1 .. Len(red_intervals') : SaysThe(intervals'[s][i], red_intervals'[i])
  <2>1. CASE R!current.state = Disconnected
    <3>1. UNCHANGED <<red_intervals, intervals>>
      BY <1>1, <1>2, <1>6, <2>1, SameEvents DEF im_disconnected, R!im_disconnected
    <3> QED BY <3>1, BothSame
  <2>2. CASE R!current.state # Disconnected
    <3>1. R!_transition(Disconnected, st) /\ _transition(s, Disconnected, st, NULL)
      BY <1>1, <1>2, <1>6, <2>2, SameEvents DEF im_disconnected, R!im_disconnected
    <3>2. Disconnected \in States \ {Waiting} /\ NULL \in DedupKeys \cup {NULL}
      BY StatesFacts
    <3> QED BY <1>1, <2>2, <3>1, <3>2, BothMove DEF Agreed
  <2> QED BY <2>1, <2>2
<1> QED BY <1>1, <1>6, <1>7 DEF AgreedStep, Agreed, Agree, Alone

\* A reconnect is accepted and leaves both alone, or comes before the start.
LEMMA ReconnectAgrees ==
  ASSUME Agreed, reconnected
  PROVE  AgreedStep
<1>0. SUFFICES ASSUME Begun PROVE AgreedStep
  BY DEF reconnected, Raise, AgreedStep
<1>1. red_intervals # <<>> /\ ~red_ended /\ UNCHANGED <<red_intervals, red_events>>
  BY <1>0 DEF reconnected, Begun, run_reconnected, R!im_reconnected
<1>2. sessions[FixtureSession].status = "active"
  BY <1>1, SamePlace DEF Agreed
<1>3. UNCHANGED tool /\ UNCHANGED vars
  BY <1>0, <1>2 DEF reconnected, Follow, im_reconnected
<1> QED BY <1>1, <1>3, BothSame DEF AgreedStep, Agreed, Agree, Alone, vars

\* The end closes the newest interval on both sides.
LEMMA EndAgrees ==
  ASSUME Agreed, NEW st \in Stamps, session_ended(st)
  PROVE  AgreedStep
<1> DEFINE s == FixtureSession
           n == Len(red_intervals)
           c == _close_interval(s, st, NULL)
           rc == R!CloseCurrent(st)
<1>1. /\ R!end_session(st) /\ R!HasCurrent /\ red_intervals # <<>> /\ R!ClockOk(R!current, st)
      /\ red_intervals' = rc /\ UNCHANGED red_events
  BY DEF session_ended, run_ended, R!end_session, R!HasCurrent
<1>2. Writable(s) /\ intervals[s] \in Seq(Interval) /\ intervals[s] # <<>>
  BY <1>1, SamePlace DEF Agreed
<1>3. _validate_close_clock(s, st)
  BY <1>1, SameClockCheck DEF Agreed
<1>4. end_session(s, st, "ended") /\ UNCHANGED tool
  BY <1>2, <1>3 DEF session_ended, Follow, EndAccepted
<1>5. /\ intervals'[s] = c /\ UNCHANGED events
      /\ \A t \in SessionIds : t # s => sessions'[t] = sessions[t]
  BY <1>4, FixtureAssumption DEF end_session, Agreed, IInv, Typed
<1>6. /\ Len(c) = Len(intervals[s])
      /\ \A i \in 1 .. Len(c) : i # Len(c) => c[i] = intervals[s][i]
      /\ c[Len(c)].state = intervals[s][Len(c)].state
      /\ c[Len(c)].start = intervals[s][Len(c)].start
      /\ c[Len(c)].ended_at = st.at
  <2>1. NULL \in DedupKeys \cup {NULL}
    OBVIOUS
  <2> QED BY <1>2, <2>1, FixtureAssumption, CloseEffect
<1>7. /\ Len(rc) = n /\ n \in Nat \ {0}
      /\ \A i \in 1 .. n : /\ rc[i].state = red_intervals[i].state
                           /\ rc[i].start = red_intervals[i].start
                           /\ i # n => rc[i] = red_intervals[i]
      /\ rc[n].ended_at = st.at
  BY <1>1, RedCloseEffect DEF Agreed, RedInv
<1>8. Len(intervals[s]) = n /\ \A i \in 1 .. n : SaysThe(intervals[s][i], red_intervals[i])
  BY DEF Agreed, Agree
<1> HIDE DEF c, rc, n
<1>9. n \in 1 .. n
  BY <1>7
<1>10. Len(c) = n /\ \A i \in 1 .. n : SaysThe(c[i], rc[i])
  BY <1>6, <1>7, <1>8, <1>9 DEF SaysThe
<1>11. Agree'
  BY <1>1, <1>5, <1>7, <1>10 DEF Agree, Agreed, s
<1> QED BY <1>4, <1>5, <1>11 DEF AgreedStep, Agreed, Alone, s

\* Rows that agree have the same projection, and a list that is cut off is
\* shorter than what the reducer says.
LEMMA Projected ==
  ASSUME IInv, RedInv, Agree
  PROVE  /\ Projection(intervals[FixtureSession]) = Projection(red_intervals)
         /\ Projection(list_intervals) = Projection(red_intervals)
              <=> Len(red_intervals) <= ListLimit
<1> DEFINE rows == intervals[FixtureSession]
           n == Len(red_intervals)
           m == IF Len(rows) < ListLimit THEN Len(rows) ELSE ListLimit
<1>1. rows \in Seq(Interval) /\ red_intervals \in Seq(R!Interval)
  BY FixtureAssumption DEF IInv, Typed, RedInv
<1>2. /\ DOMAIN rows = 1 .. n /\ DOMAIN red_intervals = 1 .. n
      /\ n \in Nat /\ Len(rows) = n
  BY <1>1, LenProperties DEF Agree
<1>3. \A i \in 1 .. n : Compact(rows[i]) = Compact(red_intervals[i])
  BY DEF Agree, SaysThe, Compact
<1>4. /\ m \in Nat /\ m <= n /\ (m = n <=> n <= ListLimit)
  <2>1. ListLimit \in Nat /\ n \in Nat /\ m = IF n < ListLimit THEN n ELSE ListLimit
    BY <1>2, FixtureAssumption
  <2> HIDE DEF m, n
  <2> QED BY <2>1
<1> HIDE DEF rows, n, m
<1>5. Projection(rows) = Projection(red_intervals)
  BY <1>2, <1>3 DEF Projection
<1>6. /\ DOMAIN SubSeq(rows, 1, m) = 1 .. m
      /\ \A i \in 1 .. m : SubSeq(rows, 1, m)[i] = rows[i]
  BY <1>1, <1>2, <1>4
<1>7. list_intervals = SubSeq(rows, 1, m)
  BY DEF list_intervals, rows, m
<1>8. ASSUME m = n PROVE Projection(list_intervals) = Projection(red_intervals)
  BY <1>2, <1>3, <1>6, <1>7, <1>8 DEF Projection
<1>9. ASSUME m # n PROVE Projection(list_intervals) # Projection(red_intervals)
  <2>1. /\ DOMAIN Projection(list_intervals) = 1 .. m
        /\ DOMAIN Projection(red_intervals) = 1 .. n
    BY <1>2, <1>6, <1>7 DEF Projection
  <2>2. n \in 1 .. n /\ n \notin 1 .. m
    BY <1>2, <1>4, <1>9
  <2> QED BY <2>1, <2>2
<1> QED BY <1>4, <1>5, <1>8, <1>9 DEF rows, n

\* At the end the verdict is that of the row limit.
LEMMA OverAgrees ==
  ASSUME Agreed, fixture_over
  PROVE  AgreeInv'
<1>1. UNCHANGED reducer /\ UNCHANGED vars
  BY DEF fixture_over, Raise
<1>2. Agree' /\ Alone' /\ Len(red_intervals') = Len(red_intervals)
  BY <1>1 DEF Agreed, Agree, SaysThe, Alone, vars, reducer
<1>3. /\ tool' \in {"raised", "agree", "differ"}
      /\ tool' \in {"agree", "differ"} =>
           (tool' = "agree" <=> Projection(list_intervals) = Projection(red_intervals))
  BY DEF fixture_over, Raise
<1>4. Projection(list_intervals) = Projection(red_intervals) <=> Len(red_intervals) <= ListLimit
  BY Projected DEF Agreed
<1> QED BY <1>2, <1>3, <1>4 DEF AgreeInv

\* Until the tool raises, nothing the reducer accepts is refused by the database,
\* and row by row, event by event they say the same.
LEMMA AgreeAlways == ReplaySpec => []AgreeInv
<1>1. ReplayInit => AgreeInv
  <2> SUFFICES ASSUME ReplayInit PROVE AgreeInv
    OBVIOUS
  <2>1. /\ intervals[FixtureSession] = <<>> /\ events[FixtureSession] = [d \in {} |-> NULL]
        /\ red_intervals = <<>> /\ red_events = [d \in {} |-> NULL] /\ tool = "driving"
        /\ \A s \in SessionIds : sessions[s].status = "none"
    BY FixtureAssumption DEF ReplayInit, Init, R!Init, NoRow
  <2> QED BY <2>1 DEF AgreeInv, Agree, Alone
<1>2. IInv /\ RedInv /\ AgreeInv /\ ReplayNext => AgreeInv'
  <2> SUFFICES ASSUME IInv, RedInv, AgreeInv, ReplayNext, replaying
               PROVE  AgreeInv'
    BY DEF AgreeInv, ReplayNext
  <2>1. Agreed /\ FixtureStep
    BY DEF Agreed, AgreeInv, ReplayNext
  <2>2. AgreedStep \/ fixture_over
    <3>1. undecodable \/ (\E e \in NormalizedEvents : normalized(e)) => AgreedStep
      BY DEF undecodable, normalized, Raise, AgreedStep
    <3> QED
      BY <2>1, <3>1, StartAgrees, FrameAgrees, DisconnectAgrees, ReconnectAgrees, EndAgrees
         DEF FixtureStep
  <2> QED BY <2>1, <2>2, OverAgrees DEF AgreedStep, AgreeInv
<1>3. AgreeInv /\ UNCHANGED allvars => AgreeInv'
  BY DEF AgreeInv, Agree, SaysThe, Alone, allvars, vars, reducer
<1>4. ReplaySpec => []IInv
  BY ReplayUsesTheStore, Invariance, PTL
<1>5. ReplaySpec => []RedInv
  BY ReplayUsesTheReducer, RedAlways, PTL
<1> QED BY <1>1, <1>2, <1>3, <1>4, <1>5, PTL DEF ReplaySpec

\* Until the tool raises at a step it does not replay, the database accepts every
\* step that the reducer accepts, and its intervals and events, with their duplicate
\* counts and late marks, are those of the reducer.  A fixture replayed to its end
\* passes the comparison if and only if it has at most ListLimit intervals.
THEOREM ReplaysAgree == ReplaySpec => []ProjectionsAgree
<1>1. IInv /\ RedInv /\ AgreeInv => ProjectionsAgree
  BY Projected DEF AgreeInv, Agree, ProjectionsAgree
<1>2. ReplaySpec => []IInv
  BY ReplayUsesTheStore, Invariance, PTL
<1>3. ReplaySpec => []RedInv
  BY ReplayUsesTheReducer, RedAlways, PTL
<1> QED BY <1>1, <1>2, <1>3, AgreeAlways, PTL
=============================================================================
