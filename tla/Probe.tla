-------------------------------- MODULE Probe --------------------------------
(***************************************************************************)
(* The WSS probe, run_probe of app/douyin/probe.py: a loop that receives   *)
(* frames, keeps and counts them and answers some, a heartbeat task beside *)
(* it on the same connection, and the report written at the end.           *)
(*                                                                         *)
(* A frame is text, or binary with a body that inspect_frame accepts       *)
(* ("sound"), refuses ("malformed"), or fails on with an error that is no  *)
(* EnvelopeDecodeError ("corrupt"); its messages are of the target method  *)
(* or not, and decode or not.  The url, the options, the headers and the   *)
(* output directory are already accepted; the loop has the deadline.       *)
(***************************************************************************)
EXTENDS Integers, Sequences, FiniteSets, Functions, SequencesExt

CONSTANTS ProbeFrames,  \* what the server may send
          max_frames,   \* of the options
          MaxBeats,     \* bound: pings of the heartbeat
          MaxIoErrors   \* bound: writes that fail

ProbeMessage == [target : BOOLEAN, decodes : BOOLEAN]
ProbeFrame == [body : {"text", "sound", "malformed", "corrupt"}, messages : Seq(ProbeMessage),
               need_ack : BOOLEAN]

ASSUME ProbeFramesAssumption == ProbeFrames \subseteq ProbeFrame
ASSUME ProbeAssumption == max_frames \in Nat \ {0} /\ MaxBeats \in Nat /\ MaxIoErrors \in Nat

VARIABLES at,            \* where run_probe is
          options,       \* send_ack, send_application_heartbeat
          websocket,     \* "none", "open" or "closed" (closing is closed: nothing is sent)
          heartbeat_task, heartbeat_counter,
          counts,        \* the counters, target_files and the rows of frames.jsonl
          payloads,      \* files of target-payloads: <<frame, message>> -> message
          transport_error, \* "none" (an empty string), an exception that is reported, or "uncaught"
          probe_report,  \* report.json, once or never
          received,      \* frames the loop got, in order
          pings, io_errors

transport == <<websocket, heartbeat_task, heartbeat_counter, pings>>
kept == <<counts, payloads, received, io_errors>>
pvars == <<at, options, transport, kept, transport_error, probe_report>>

NoCounts == [frame |-> 0, binary |-> 0, parse_error |-> 0, message |-> 0, target |-> 0,
             decoded |-> 0, failed |-> 0, ack |-> 0, rows |-> 0, files |-> <<>>]
ProbeInit ==
    /\ at = "connecting" /\ options \in [ack : BOOLEAN, heartbeat : BOOLEAN]
    /\ websocket = "none" /\ heartbeat_task = "none" /\ heartbeat_counter = 0 /\ pings = 0
    /\ counts = NoCounts /\ payloads = <<>> /\ received = <<>> /\ io_errors = 0
    /\ transport_error = "none" /\ probe_report = <<>>

Leaves(error) == at' = "leaving" /\ transport_error' = error
Sends(f) == options.ack /\ f.body = "sound" /\ f.need_ack

-----------------------------------------------------------------------------
connect ==
    /\ at = "connecting"
    /\ \/ /\ websocket' = "open" /\ at' = "receiving"
          /\ heartbeat_task' = IF options.heartbeat THEN "asleep" ELSE "none"
          /\ UNCHANGED transport_error
       \/ Leaves("refused") /\ UNCHANGED <<websocket, heartbeat_task>>
    /\ UNCHANGED <<options, heartbeat_counter, pings, kept, probe_report>>

\* Mistake: a payload is listed before its file is there.
ListedFirst(s, path) == [s.c EXCEPT !.files = Append(@, path)]
\* A payload's path is listed once its file is written.
Listed(s, path) == IF s.ok THEN [s.c EXCEPT !.files = Append(@, path)] ELSE s.c

\* One message, the i-th of frame n; s is what there is (counters c, files d)
\* and whether all went well so far; the write of message `bad' fails.
TargetMessage(s, m, n, i, bad) ==
    LET path == <<n, i>>
        met == [s EXCEPT !.c.target = @ + 1, !.ok = i # bad,
                         !.d = IF i = bad THEN @ ELSE [p \in DOMAIN @ \cup {path} |->
                                                         IF p = path THEN m ELSE @[p]]]
        listed == [met EXCEPT !.c = Listed(met, path)]
    IN  IF ~s.ok \/ ~m.target THEN s
        ELSE IF i = bad THEN listed
        ELSE IF m.decodes THEN [listed EXCEPT !.c.decoded = @ + 1]
        ELSE [listed EXCEPT !.c.failed = @ + 1]

\* The messages of frame f, the n-th, one after the other.
TargetMessages(sound, f, n, bad) ==
    LET after[i \in 0 .. Len(f.messages)] ==
            IF i = 0 THEN sound ELSE TargetMessage(after[i - 1], f.messages[i], n, i, bad)
    IN  after[Len(f.messages)]

\* Every frame gets a row of frames.jsonl, a malformed one with its error.
Row(c, f) == [c EXCEPT !.rows = @ + 1]

\* A frame up to the acknowledgement, or to its row when there is none: no
\* await is between.  Write 0 is the frame's own file (a text has none), write
\* i the payload of message i, and then comes the row; the write of number
\* `bad' fails, and what it leaves of its file is not looked at.
Handled(f, n, bad) ==
    LET new == [counts EXCEPT !.frame = @ + 1, !.binary = @ + (IF f.body = "text" THEN 0 ELSE 1)]
        begun == [c |-> new, d |-> payloads, ok |-> f.body = "text" \/ bad # 0]
        sound == [begun EXCEPT !.c.message = @ + Len(f.messages)]
        parsed == CASE ~begun.ok \/ f.body \in {"text", "corrupt"} -> begun
                    [] begun.ok /\ f.body = "malformed" -> [begun EXCEPT !.c.parse_error = @ + 1]
                    [] begun.ok /\ f.body = "sound" -> TargetMessages(sound, f, n, bad)
    IN  IF ~parsed.ok \/ f.body = "corrupt" \/ Sends(f) THEN parsed
        ELSE IF bad = Len(f.messages) + 1 THEN [parsed EXCEPT !.ok = FALSE]
        ELSE [parsed EXCEPT !.c = Row(@, f)]

\* The loop's next round, unless it has its frames.
Again(c) == IF c.frame < max_frames THEN "receiving" ELSE "leaving"

\* What arrived before the connection was lost is still received.
frame ==
    /\ at = "receiving"
    /\ \E f \in ProbeFrames : \E bad \in 0 .. Len(f.messages) + 2 :
          LET s == Handled(f, Len(received) + 1, bad)
              fails == ~s.ok
          IN  /\ fails => io_errors < MaxIoErrors
              /\ received' = Append(received, f) /\ counts' = s.c /\ payloads' = s.d
              /\ io_errors' = IF fails THEN io_errors + 1 ELSE io_errors
              /\ IF fails THEN Leaves("OSError")
                 ELSE IF f.body = "corrupt" THEN Leaves("uncaught")
                 ELSE /\ at' = IF Sends(f) THEN "acking" ELSE Again(s.c)
                      /\ UNCHANGED transport_error
    /\ UNCHANGED <<options, transport, probe_report>>

\* The ACK is sent and its frame gets its row; or the connection is closed, or
\* the row cannot be written.
ack ==
    /\ at = "acking"
    /\ LET sent_ack == [counts EXCEPT !.ack = @ + 1]
       IN  \/ /\ websocket = "open" /\ counts' = Row(sent_ack, Last(received))
              /\ at' = Again(counts') /\ UNCHANGED <<transport_error, io_errors>>
           \/ /\ websocket = "open" /\ io_errors < MaxIoErrors
              /\ counts' = sent_ack /\ io_errors' = io_errors + 1 /\ Leaves("OSError")
           \/ /\ websocket = "closed" /\ Leaves("ConnectionClosed") /\ UNCHANGED <<counts, io_errors>>
    /\ UNCHANGED <<options, transport, payloads, received, probe_report>>

\* The deadline, or recv finds the connection closed.
loop_ends ==
    /\ at = "receiving" /\ at' = "leaving"
    /\ UNCHANGED <<options, transport, kept, transport_error, probe_report>>

\* The server, or a keepalive ping without an answer.
connection_lost ==
    /\ websocket = "open" /\ websocket' = "closed"
    /\ UNCHANGED <<at, options, heartbeat_task, heartbeat_counter, pings, kept,
                   transport_error, probe_report>>

\* _heartbeat_loop: the ping of a connection that is closed, or closing, raises.
heartbeat ==
    /\ at \notin {"returned", "raised"}
    /\ \/ /\ heartbeat_task = "asleep" /\ websocket = "open" /\ pings < MaxBeats
          /\ heartbeat_task' = "sending" /\ pings' = pings + 1 /\ UNCHANGED heartbeat_counter
       \/ /\ heartbeat_task \in {"asleep", "sending"} /\ websocket = "closed"
          /\ heartbeat_task' = "failed" /\ UNCHANGED <<heartbeat_counter, pings>>
       \/ /\ heartbeat_task = "sending" /\ websocket = "open"
          /\ heartbeat_task' = "asleep" /\ heartbeat_counter' = heartbeat_counter + 1
          /\ UNCHANGED pings
    /\ UNCHANGED <<at, options, websocket, kept, transport_error, probe_report>>

\* The end of `async with': the closing handshake, while the heartbeat runs on.
leave ==
    /\ at = "leaving" /\ at' = "finally"
    /\ websocket' = IF websocket = "open" THEN "closed" ELSE websocket
    /\ UNCHANGED <<options, heartbeat_task, heartbeat_counter, pings, kept, transport_error, probe_report>>

\* The heartbeat is cancelled and awaited; one that failed raises its own
\* exception here, past the except clause, and there is no report.
finally ==
    /\ at = "finally"
    /\ at' = IF heartbeat_task = "failed" \/ transport_error = "uncaught" THEN "raised" ELSE "reporting"
    /\ heartbeat_task' = IF heartbeat_task \in {"asleep", "sending"} THEN "cancelled" ELSE heartbeat_task
    /\ UNCHANGED <<options, websocket, heartbeat_counter, pings, kept, transport_error, probe_report>>

ProbeReport == [counts |-> counts, connected |-> websocket # "none", error |-> transport_error,
                heartbeats |-> heartbeat_counter]
write_report ==
    /\ at = "reporting"
    /\ \/ at' = "returned" /\ probe_report' = <<ProbeReport>> /\ UNCHANGED io_errors
       \/ /\ io_errors < MaxIoErrors /\ io_errors' = io_errors + 1
          /\ at' = "raised" /\ UNCHANGED probe_report
    /\ UNCHANGED <<options, transport, counts, payloads, received, transport_error>>

ProbeNext == \/ connect \/ frame \/ ack \/ loop_ends \/ connection_lost \/ heartbeat
             \/ leave \/ finally \/ write_report

ProbeSpec == ProbeInit /\ [][ProbeNext]_pvars

-----------------------------------------------------------------------------
\* What a report should say of frames `fs' that were handled to their end.
Sum(fs, Of(_)) == SumFunction([i \in DOMAIN fs |-> Of(fs[i])])
Reported(fs) ==
    LET Met(f, P(_)) == IF f.body # "sound" THEN 0 ELSE Cardinality({i \in DOMAIN f.messages : P(f.messages[i])})
        Is(b) == IF b THEN 1 ELSE 0
    IN  [frame |-> Len(fs), rows |-> Len(fs),
         binary |-> Sum(fs, LAMBDA f : Is(f.body # "text")),
         parse_error |-> Sum(fs, LAMBDA f : Is(f.body = "malformed")),
         message |-> Sum(fs, LAMBDA f : Met(f, LAMBDA m : TRUE)),
         target |-> Sum(fs, LAMBDA f : Met(f, LAMBDA m : m.target)),
         decoded |-> Sum(fs, LAMBDA f : Met(f, LAMBDA m : m.target /\ m.decodes)),
         failed |-> Sum(fs, LAMBDA f : Met(f, LAMBDA m : m.target /\ ~m.decodes)),
         ack |-> Sum(fs, LAMBDA f : Is(Sends(f)))]
Counters == DOMAIN NoCounts \ {"files"}

\* The report agrees with what is on disk and with what came in: without an
\* error its counters are those of the frames received, with one they lie
\* between those without and those with the frame it failed on; the files it
\* lists are the payloads of the target messages, each in place and each with
\* its outcome; and at most one ping was sent that it does not count
\* (run_probe, whose handlers, locals and heartbeat share these counters).
ReportIsHonest ==
    \A i \in DOMAIN probe_report :
        LET r == probe_report[i]
            all == Reported(received)
            done == IF r.error = "OSError" \/ r.error = "ConnectionClosed" THEN Reported(Front(received)) ELSE all
        IN  /\ \A k \in Counters : done[k] <= r.counts[k] /\ r.counts[k] <= all[k]
            /\ r.counts.frame = all.frame
            /\ Len(r.counts.files) = r.counts.decoded + r.counts.failed
            /\ ToSet(r.counts.files) = DOMAIN payloads
            /\ \A p \in DOMAIN payloads : payloads[p] = received[p[1]].messages[p[2]]
            /\ r.heartbeats <= pings /\ pings <= r.heartbeats + 1
            /\ ~r.connected => received = <<>>

\* A private capture leaves its report.json, whatever the connection does
\* (docs/protocol/CAPTURE_RUNBOOK.md:63).  It does not when a heartbeat meets
\* the closing connection, or a gzip body is damaged.
EveryProbeReports == at # "raised" \/ io_errors > 0
=============================================================================
