-------------------------- MODULE EvidenceCapture --------------------------
(***************************************************************************)
(* A capture of private protocol evidence: the probe attached to a running *)
(* Chrome (tools/douyin_interactive_evidence.py), the bundle it writes and *)
(* the fixture exported from it after a human's approval                   *)
(* (app/douyin/evidence.py).                                               *)
(*                                                                         *)
(* The probe is one task; Chrome fills its queue through the CDP reader.   *)
(* Taking an event and capturing its frame happens without an await, but   *)
(* any of the files it writes may fail.  A frame is its size, how far      *)
(* inspect_frame gets with it and its messages; a message whether it is of *)
(* the target method, its size, whether it can be decoded, and the         *)
(* recipient's key.                                                        *)
(***************************************************************************)
EXTENDS Integers, Sequences, FiniteSets, Functions, SequencesExt

CONSTANTS Requests,      \* request ids of WebSockets
          Trusted,       \* those sanitize_websocket_url accepts
          Keys,          \* recipients a message may name
          Frames,        \* binary frames Chrome may show
          Contracts,     \* recipient contracts
          Aliases,       \* bound: keys the reviewer may name
          MaxFrames, MaxFrameBytes, MaxTotalBytes, \* EvidenceLimits
          QueueSize,     \* bound of CdpClient.events
          MaxEvents,     \* bound: events Chrome sends
          MaxFaults,     \* bound: writes that fail
          NULL

Bodies == {"sound", "malformed", "corrupt"}
CapturedMessage == [target : BOOLEAN, size : Nat, decodes : BOOLEAN, key : Keys \cup {NULL}]
CapturedFrame == [size : Nat, body : Bodies, messages : Seq(CapturedMessage)]

ASSUME FramesAssumption == Frames \subseteq CapturedFrame
ASSUME EvidenceAssumption ==
    /\ Trusted \subseteq Requests /\ MaxFrames \in Nat \ {0} /\ MaxFrameBytes \in Nat \ {0}
    /\ MaxTotalBytes \in Nat /\ MaxFrameBytes <= MaxTotalBytes
    /\ QueueSize \in Nat \ {0} /\ MaxEvents \in Nat /\ MaxFaults \in Nat
    /\ NULL \notin {"EvidenceError", "OSError", "EOFError"}

VARIABLES phase,     \* "connect" -> "run" -> "finalize" -> "closed", or "crashed"
          queue,     \* events read and not yet taken
          reader,    \* "reading", "failed" or "ended"
          accepted,  \* accepted_requests
          bundle,    \* the EvidenceBundle
          disk,      \* files: <<directory, frame number, message index>> -> content
          status,    \* status of the report
          manifest, report, \* what finalize wrote, or NULL
          fixture,   \* the exported fixture, or NULL
          seen,      \* binary frames of trusted sockets that arrived, in order
          sent, faults

vars == <<phase, queue, reader, accepted, bundle, disk, status, manifest, report, fixture,
          seen, sent, faults>>
outputs == <<manifest, report, fixture>>

Empty == [frames |-> <<>>, targets |-> <<>>, total |-> 0, methods |-> 0,
          decoded |-> 0, undecoded |-> 0, unparsed |-> 0]
Events == [kind : {"created"}, request : Requests]
             \cup [kind : {"frame"}, request : Requests, frame : Frames]
             \cup [kind : {"navigated"}, home : BOOLEAN]
Payloads == UNION {{m \in ToSet(f.messages) : m.target} : f \in Frames}
Bytes(files) == SumFunction([p \in DOMAIN files |-> files[p].size])

-----------------------------------------------------------------------------
(* EvidenceBundle.capture_binary_frame.  b is the bundle, d the disk, err   *)
(* what was raised; n counts the files written, the one numbered `bad'     *)
(* fails.                                                                  *)

Start(b, d) == [b |-> b, d |-> d, err |-> NULL, n |-> 0]

\* Mistake: the new bytes are left out of the comparison.
FitsAlready(b, size) == size <= MaxFrameBytes /\ b.total <= MaxTotalBytes
\* _reserve, _reserve_payload: the size is counted before the file is written.
Fits(b, size) == size <= MaxFrameBytes /\ b.total + size <= MaxTotalBytes
Reserve(b, size) == [b EXCEPT !.total = @ + size]

\* _write_private: O_EXCL refuses a file that exists; a write that fails
\* leaves no file.
Write(s, path, content, bad) ==
    IF path \in DOMAIN s.d \/ s.n + 1 = bad THEN [s EXCEPT !.err = "OSError"]
    ELSE [s EXCEPT !.d = [p \in DOMAIN @ \cup {path} |-> IF p = path THEN content ELSE @[p]],
                   !.n = @ + 1]

\* One message of a parsed frame.  A target's payload is reserved, written and
\* recorded; then decoded.
Message(s, m, sequence, index, bad) ==
    LET counted == [s EXCEPT !.b.methods = @ + 1]
        reserved == [counted EXCEPT !.b = Reserve(@, m.size)]
        path == <<"target-payloads", sequence, index>>
        written == Write(reserved, path, m, bad)
    IN  IF s.err # NULL THEN s
        ELSE IF ~m.target THEN counted
        ELSE IF ~Fits(s.b, m.size) THEN [counted EXCEPT !.err = "EvidenceError"]
        ELSE IF written.err # NULL THEN written
        ELSE [written EXCEPT !.b.targets = Append(@, [path |-> path, content |-> m]),
                             !.b.decoded = @ + (IF m.decodes THEN 1 ELSE 0),
                             !.b.undecoded = @ + (IF m.decodes THEN 0 ELSE 1)]

\* The messages of frame f up to the last, one after the other.
Messages(written, f, sequence, bad) ==
    LET after[i \in 0 .. Len(f.messages)] ==
            IF i = 0 THEN written ELSE Message(after[i - 1], f.messages[i], sequence, i, bad)
    IN  after[Len(f.messages)]

\* The frame's record.
Recorded(s, path, f) ==
    [s EXCEPT !.b.frames = Append(@, [path |-> path, content |-> f]),
              !.b.unparsed = @ + (IF f.body = "sound" THEN 0 ELSE 1)]

\* A malformed frame is counted.  A gzip body that is cut short or damaged makes
\* GzipFile.read raise EOFError or zlib.error, which are no OSError: it is not
\* turned into EnvelopeDecodeError.  The record comes last: whatever is raised
\* before leaves none.
capture_binary_frame(b, d, f, bad) ==
    LET sequence == Len(b.frames) + 1
        path == <<"frames", sequence, 0>>
        written == Write(Start(Reserve(b, f.size), d), path, f, bad)
        done == CASE f.body = "sound" -> Messages(written, f, sequence, bad)
                  [] f.body = "malformed" -> written
                  [] f.body = "corrupt" -> [written EXCEPT !.err = "EOFError"]
    IN  IF Len(b.frames) >= MaxFrames \/ ~Fits(b, f.size)
        THEN [Start(b, d) EXCEPT !.err = "EvidenceError"]
        ELSE IF written.err # NULL THEN written
        ELSE IF done.err # NULL THEN done
        ELSE Recorded(done, path, f)

-----------------------------------------------------------------------------
(* The CDP connection.                                                     *)

\* Only wss at the default port of the allowed hosts, without credentials or a
\* fragment; any other URL raises, and its request is not accepted.
sanitize_websocket_url(request) == request \in Trusted

\* A frame at place i of the events that wait, whose socket is accepted or will
\* be by an event before it.
Awaited(events, i) ==
    /\ events[i].kind = "frame"
    /\ \/ events[i].request \in accepted
       \/ \E j \in 1 .. i - 1 : /\ events[j].kind = "created" /\ events[j].request = events[i].request
                                /\ sanitize_websocket_url(events[j].request)

\* _reader: an event that finds the queue full is an error, and so is a broken
\* connection; one that was closed in order just ends the reader.
event_arrives ==
    /\ phase = "run" /\ reader = "reading" /\ sent < MaxEvents
    /\ sent' = sent + 1
    /\ \E e \in Events :
          LET events == Append(queue, e) IN
          /\ seen' = IF Awaited(events, Len(events)) THEN Append(seen, e.frame) ELSE seen
          /\ IF Len(queue) = QueueSize THEN reader' = "failed" /\ UNCHANGED queue
             ELSE queue' = events /\ UNCHANGED reader
    /\ UNCHANGED <<phase, accepted, bundle, disk, status, outputs, faults>>

connection_ends ==
    /\ phase = "run" /\ reader = "reading" /\ reader' \in {"failed", "ended"}
    /\ UNCHANGED <<phase, queue, accepted, bundle, disk, status, outputs, seen, sent, faults>>

\* The except clauses: EvidenceError, or OSError and the errors of the socket.
\* Any other error leaves the probe before finalize.
Fail(error) ==
    /\ phase' = IF error = "EOFError" THEN "crashed" ELSE "finalize"
    /\ status' = CASE error = "EvidenceError" -> "failed" [] error = "OSError" -> "connection-failed"
                   [] error = "EOFError" -> status

\* The socket opens and the domains are enabled, or not.
connected ==
    /\ phase = "connect"
    /\ \/ phase' = "run" /\ UNCHANGED status
       \/ Fail("EvidenceError") \/ Fail("OSError")
    /\ UNCHANGED <<queue, reader, accepted, bundle, disk, outputs, seen, sent, faults>>

\* raise_if_failed, at once or when the wait for an event times out.  The
\* event that was just taken is lost with those still in the queue.
reader_failed ==
    /\ phase = "run" /\ reader = "failed" /\ Fail("EvidenceError")
    /\ UNCHANGED <<queue, reader, accepted, bundle, disk, outputs, seen, sent, faults>>

\* The status of a capture that was not cut short.
Observed == IF bundle'.targets # <<>> THEN "target-observed"
            ELSE IF bundle'.frames # <<>> THEN "transport-observed" ELSE "completed-no-target"

\* process_cdp_event.
Take(kind) == /\ phase = "run" /\ reader # "failed" /\ queue # <<>> /\ Head(queue).kind = kind
              /\ queue' = Tail(queue)

websocket_created ==
    /\ Take("created")
    /\ accepted' = IF sanitize_websocket_url(Head(queue).request) THEN accepted \cup {Head(queue).request}
                   ELSE accepted
    /\ UNCHANGED <<phase, reader, bundle, disk, status, outputs, seen, sent, faults>>

\* The main frame went somewhere: another page ends the capture.
frame_navigated ==
    /\ Take("navigated")
    /\ IF Head(queue).home THEN UNCHANGED <<phase, status>> ELSE Fail("EvidenceError")
    /\ UNCHANGED <<reader, accepted, bundle, disk, outputs, seen, sent, faults>>

frame_received ==
    LET f == Head(queue).frame IN
    /\ Take("frame")
    /\ \/ /\ Head(queue).request \notin accepted
          /\ UNCHANGED <<phase, bundle, disk, status, faults>>
       \/ /\ Head(queue).request \in accepted
          /\ \E bad \in 0 .. (IF faults < MaxFaults THEN 1 + Len(f.messages) ELSE 0) :
                LET s == capture_binary_frame(bundle, disk, f, bad) IN
                /\ bundle' = s.b /\ disk' = s.d
                /\ faults' = IF s.err = "OSError" THEN faults + 1 ELSE faults
                /\ IF s.err # NULL THEN Fail(s.err)
                   ELSE IF Len(s.b.frames) >= MaxFrames THEN phase' = "finalize" /\ status' = Observed
                   ELSE UNCHANGED <<phase, status>>
    /\ UNCHANGED <<reader, accepted, outputs, seen, sent>>

\* The deadline, whether or not anything is still connected.
deadline ==
    /\ phase = "run" /\ phase' = "finalize" /\ UNCHANGED bundle /\ status' = Observed
    /\ UNCHANGED <<queue, reader, accepted, disk, outputs, seen, sent, faults>>

\* finalize: the manifest, then the public report; a write that fails ends it.
Manifest(contract) == [frames |-> bundle.frames, targets |-> bundle.targets,
                       total |-> bundle.total, contract |-> contract]
Report == [status |-> status, frames |-> Len(bundle.frames), targets |-> Len(bundle.targets),
           methods |-> bundle.methods, decoded |-> bundle.decoded, undecoded |-> bundle.undecoded]
finalize ==
    /\ phase = "finalize" /\ phase' = "closed"
    /\ \E files \in {2} \cup (IF faults < MaxFaults THEN {0, 1} ELSE {}), contract \in Contracts :
          /\ manifest' = IF files > 0 THEN Manifest(contract) ELSE NULL
          /\ report' = IF files > 1 THEN Report ELSE NULL
          /\ faults' = IF files < 2 THEN faults + 1 ELSE faults
    /\ UNCHANGED <<queue, reader, accepted, bundle, disk, status, fixture, seen, sent>>

-----------------------------------------------------------------------------
(* export_approved_fixture, later and by hand.                             *)

\* Someone changes or removes a payload file after the capture.
payload_changes ==
    /\ phase = "closed" /\ fixture = NULL /\ faults < MaxFaults
    /\ \E p \in {q \in DOMAIN disk : q[1] = "target-payloads"} :
          \/ \E m \in Payloads : disk' = [disk EXCEPT ![p] = m]
          \/ disk' = [q \in DOMAIN disk \ {p} |-> disk[q]]
    /\ faults' = faults + 1
    /\ UNCHANGED <<phase, queue, reader, accepted, bundle, status, outputs, seen, sent>>

\* Mistake: the file's hash is not compared.
Present(t, aliases) == /\ t.path \in DOMAIN disk /\ disk[t.path].decodes
                       /\ disk[t.path].key \in aliases \cup {NULL}
\* What may become an event: the record is in the manifest, the file is there
\* with the recorded hash, it decodes, and its recipient has an alias.
Approvable(t, aliases) ==
    /\ t.path \in DOMAIN disk /\ disk[t.path] = t.content /\ disk[t.path].decodes
    /\ disk[t.path].key \in aliases \cup {NULL}

export_approved_fixture(reviewed, of, contract, approved, aliases) ==
    /\ phase = "closed" /\ manifest # NULL /\ fixture = NULL
    /\ reviewed /\ of = manifest /\ contract = manifest.contract /\ approved # {}
    /\ \A p \in approved : \E t \in ToSet(manifest.targets) : t.path = p /\ Approvable(t, aliases)
    /\ fixture' = [events |-> {[path |-> p, content |-> disk[p]] : p \in approved},
                   contract |-> contract]
    /\ UNCHANGED <<phase, queue, reader, accepted, bundle, disk, status, manifest, report,
                   seen, sent, faults>>

export == \E reviewed \in BOOLEAN, of \in {manifest, Manifest(CHOOSE c \in Contracts : TRUE)},
             contract \in Contracts, aliases \in SUBSET Aliases,
             approved \in SUBSET {p \in DOMAIN disk : p[1] = "target-payloads"} :
             export_approved_fixture(reviewed, of, contract, approved, aliases)

-----------------------------------------------------------------------------
Init == /\ phase = "connect" /\ queue = <<>> /\ reader = "reading" /\ accepted = {}
        /\ bundle = Empty /\ disk = <<>> /\ status = "completed-no-target"
        /\ manifest = NULL /\ report = NULL /\ fixture = NULL
        /\ seen = <<>> /\ sent = 0 /\ faults = 0

Next == \/ connected \/ event_arrives \/ connection_ends \/ reader_failed \/ websocket_created
        \/ frame_navigated \/ frame_received \/ deadline \/ finalize
        \/ payload_changes \/ export

Spec == Init /\ [][Next]_vars

-----------------------------------------------------------------------------
Failures == {"failed", "connection-failed"}

\* The limit on bytes covers the frames and the payloads taken out of them, and
\* what is counted is what is on disk until a write fails (_reserve,
\* _reserve_payload and the order they are called in).
BundleIsAccounted ==
    /\ bundle.total <= MaxTotalBytes
    /\ phase \in {"run", "finalize"} => Bytes(disk) <= bundle.total
    /\ phase = "run" => Bytes(disk) = bundle.total

\* The frames of trusted sockets that still wait.
Waiting ==
    LET upto[k \in 0 .. Len(queue)] ==
            IF k = 0 THEN <<>>
            ELSE IF Awaited(queue, k) THEN Append(upto[k - 1], queue[k].frame) ELSE upto[k - 1]
    IN  upto[Len(queue)]

\* What may be missing: the frame the capture failed on, and one that found the
\* queue full.
Failed == SeqOf(Frames, IF status \in Failures \/ phase = "crashed" THEN 1 ELSE 0)
Refused == SeqOf(Frames, IF reader = "failed" THEN 1 ELSE 0)

\* The binary frames of trusted sockets are in the manifest in the order they
\* arrived in, whether or not they could be parsed and whatever their messages
\* were.  Missing are, in this order, the one the capture failed on, those that
\* waited in the queue when it ended, and one that found the queue full, with
\* which the reader failed; no other frame is lost, out of order or twice there
\* (CdpClient._reader, process_cdp_event, capture_binary_frame).
FramesAreRecorded ==
    \E failed \in Failed, refused \in Refused :
        seen = [i \in DOMAIN bundle.frames |-> bundle.frames[i].content] \o failed \o Waiting \o refused

\* Both together: what the bundle counts and lists is what was kept of what
\* arrived.
BundleIsComplete == BundleIsAccounted /\ FramesAreRecorded

\* A captured frame that cannot be decoded is an EnvelopeDecodeError, which the
\* bundle counts (app/douyin/envelope.py:22): the capture then ends with its
\* manifest and report.
UndecodableFramesAreCounted == phase # "crashed"

\* An event of an exported fixture is a payload of the target method that this
\* capture received, in the frame its path names, unchanged since, decodable.
FixtureIsEvidence ==
    fixture # NULL => \A e \in fixture.events :
        LET f == seen[e.path[2]] IN
        /\ e.path[2] \in DOMAIN seen /\ e.path[3] \in DOMAIN f.messages
        /\ e.content = f.messages[e.path[3]] /\ e.content.target /\ e.content.decodes
=============================================================================
