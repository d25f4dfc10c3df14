---------------------------- MODULE ExportPlanner ----------------------------
(***************************************************************************)
(* ExportPlanner.build (app/postprocess/planner.py): which media an export *)
(* of a finished recording plays for each of its recipient intervals.      *)
(* Times are milliseconds; media times count from the start of the         *)
(* recording, interval times are readings of the wall clock.               *)
(*                                                                         *)
(* media is a set of rows [sequence, status, start, end]; intervals a      *)
(* sequence, in order of time and id, of [id, started, ended], ended NULL  *)
(* while open; session is [status, started].                               *)
(***************************************************************************)
EXTENDS Integers, Sequences, FiniteSetsExt, SequencesExt

CONSTANT Open  \* the ended_at_ms of an interval that is still open

Exportable == {"closed", "verified", "recovered"}
\* An interval this short, in milliseconds, is left out.  The code compares
\* seconds as floats, whose rounding decides at exactly one millisecond; it is
\* taken as left out.
Sliver == 1

\* The elements of S in the order `before', a set of pairs (ORDER BY).
InOrder(S, before) ==
    CHOOSE s \in [1 .. Cardinality(S) -> S] : \A i, j \in DOMAIN s : i < j => <<s[i], s[j]>> \in before

Earlier(media) ==
    {p \in media \X media :
        \/ p[1].start < p[2].start
        \/ p[1].start = p[2].start /\ p[1].sequence < p[2].sequence}

\* The media a plan may use.
Sources(media) == {m \in media : m.status \in Exportable /\ m.end > m.start}

MediaStart(sources) == Min({m.start : m \in sources})
MediaEnd(sources) == Max({m.end : m \in sources})

\* The part of an interval the media covers.
Begin(session, sources, i) == Max({MediaStart(sources), i.started - session.started})
End(session, sources, i) == Min({MediaEnd(sources), i.ended - session.started})
Exported(session, sources, i) ==
    i.ended # Open /\ End(session, sources, i) - Begin(session, sources, i) > Sliver

Selected(sources, begin, end) ==
    LET selected == {m \in sources : m.end > begin /\ m.start < end} IN InOrder(selected, Earlier(selected))

\* Mistake: the trim counts from the first media of the session.
TrimFromMediaStart(session, sources, i) ==
    LET begin == Begin(session, sources, i)
        end == End(session, sources, i)
    IN  [interval |-> i.id, sources |-> Selected(sources, begin, end),
         trim |-> begin - MediaStart(sources), duration |-> end - begin]

\* One output: the media it reads, how much of it is skipped and how long it is.
Output(session, sources, i) ==
    LET begin == Begin(session, sources, i)
        end == End(session, sources, i)
        selected == Selected(sources, begin, end)
    IN  [interval |-> i.id, sources |-> selected,
         trim |-> Max({0, begin - Head(selected).start}), duration |-> end - begin]

\* The intervals a plan exports, in their order: closed, long enough, and with
\* media inside.
Chosen(session, sources, intervals) ==
    LET chosen == {n \in DOMAIN intervals :
                      LET i == intervals[n] IN
                      /\ Exported(session, sources, i)
                      /\ Selected(sources, Begin(session, sources, i), End(session, sources, i)) # <<>>}
        indices == InOrder(chosen, {p \in chosen \X chosen : p[1] < p[2]})
    IN  [k \in DOMAIN indices |-> intervals[indices[k]]]

\* ExportPlanError is the empty set: the session did not end, has no media, or
\* no interval to export.
build(session, media, intervals) ==
    LET sources == Sources(media)
        chosen == Chosen(session, sources, intervals)
    IN  IF session.status # "ended" \/ sources = {} THEN {}
        ELSE IF chosen = <<>> THEN {}
        ELSE {[k \in DOMAIN chosen |-> Output(session, sources, chosen[k])]}

-----------------------------------------------------------------------------
\* The milliseconds of the recording that FFmpeg copies for an output: its
\* sources end to end, cut by -ss and -t (executor.py).
Played(o) ==
    LET joined == FlattenSeq([s \in DOMAIN o.sources |->
                      [k \in 1 .. o.sources[s].end - o.sources[s].start |-> o.sources[s].start + k - 1]])
    IN  ToSet(SubSeq(joined, o.trim + 1, Min({o.trim + o.duration, Len(joined)})))

\* An export plays the media of its own interval, all of it and nothing of its
\* neighbours', wherever the interval and the segments are cut; and an interval
\* is exported whenever there is that much to play (build).  It is so while the
\* media has no gap inside the interval: trim and duration do not see one.
ExportsOwnInterval(session, media, intervals) ==
    LET covered(i) == {t \in UNION {m.start .. m.end - 1 : m \in Sources(media)} :
                          session.started + t \in i.started .. i.ended - 1}
    IN  \A plan \in build(session, media, intervals) :
          \A n \in DOMAIN intervals :
            LET i == intervals[n]
                exports == {k \in DOMAIN plan : plan[k].interval = i.id}
            IN  /\ i.ended = Open => exports = {}
                /\ \A k \in exports : plan[k].duration = Cardinality(covered(i)) => Played(plan[k]) = covered(i)
                /\ i.ended # Open /\ Cardinality(covered(i)) > Sliver => Cardinality(exports) = 1
=============================================================================
