--------------------------- MODULE StreamResolver ---------------------------
(***************************************************************************)
(* The stream resolver (app/douyin/stream_resolver.py) and the static page *)
(* check it starts with (app/douyin/live_page.py): a bounded cache of      *)
(* stream candidates, filled from the static page or, one browser at a     *)
(* time, from what a headless Chrome was seen to load.                     *)
(*                                                                         *)
(* A call is a task inside resolve.  Chrome moves on its own: it opens     *)
(* other pages, sends events, loses its connection, exits, or ignores      *)
(* every request short of SIGKILL.  The timeout of wait_for and the        *)
(* cancellation of the task strike at any await, those of the clean-up     *)
(* included.  A candidate is the page that asked for it and whether the    *)
(* answer was a 2xx; hosts, paths and signatures are left out.             *)
(***************************************************************************)
EXTENDS Naturals, Sequences, FiniteSets, SequencesExt

CONSTANTS Calls,         \* tasks that may be inside resolve
          Rooms,         \* normalized room URLs
          MaxRedirects,  \* redirects the static check follows
          MaxCached,     \* max_cached_rooms
          MaxCandidates, \* _MAX_BROWSER_CANDIDATES
          QueueSize,     \* bound of _CdpClient.events
          MaxEvents,     \* bound: events and page changes of one browser
          MaxCalls,      \* bound: calls of resolve
          NULL

ASSUME StreamsAssumption ==
    /\ MaxCached \in Nat \ {0} /\ MaxCandidates \in Nat \ {0} /\ QueueSize \in Nat \ {0}
    /\ MaxRedirects \in Nat /\ MaxEvents \in Nat /\ MaxCalls \in Nat

VARIABLES cache,   \* entries of rooms, least recently used first
          call,    \* the state of each call, and of the browser it runs
          left,    \* number of Chromes that outlived an interrupted clean-up
          closed,  \* _closed
          calls    \* calls made so far

vars == <<cache, call, left, closed, calls>>

Idle == [pc |-> "idle", room |-> NULL, page |-> NULL, hops |-> 0, queue |-> <<>>,
         seen |-> {}, pending |-> {}, asked |-> NULL, linked |-> FALSE, cdp |-> FALSE,
         up |-> FALSE, timer |-> FALSE, sent |-> 0, why |-> NULL]

Observing == {"target", "enable", "loop", "body", "location"}
Stopping == {"stop_close", "stop_wait", "stop_term"}
At(c, pc) == call[c].pc = pc
Set(c, k) == call' = [call EXCEPT ![c] = k]

\* Mistake: the lock is given up before the clean-up.
UnlockedCleanup(c) == call[c].pc \in {"spawn"} \cup Observing

\* `async with self._browser_lock' spans the observation and its clean-up.
HoldsBrowserLock(c) == call[c].pc \in {"spawn"} \cup Observing \cup Stopping
BrowserLockFree == \A c \in Calls : ~HoldsBrowserLock(c)

-----------------------------------------------------------------------------
(* The cache: OrderedDict in least-recently-used order.  `from' and `final' *)
(* only say where an entry comes from: the static page or the browser, and  *)
(* the page that answered or was open at the end.                           *)

Cached(r) == \E i \in DOMAIN cache : cache[i].room = r
Position(r) == CHOOSE i \in DOMAIN cache : cache[i].room = r
Without(r) == IF Cached(r) THEN RemoveAt(cache, Position(r)) ELSE cache

\* _store: the entry becomes the youngest; the oldest ones leave.
Stored(r, media, from, final) ==
    LET all == Append(Without(r), [room |-> r, media |-> media, from |-> from, final |-> final])
    IN  IF Len(all) > MaxCached THEN Tail(all) ELSE all

\* cached_candidates moves the room's entry to the end.
cached_candidates(r) ==
    /\ Cached(r) /\ cache' = Append(Without(r), cache[Position(r)])
    /\ UNCHANGED <<call, left, closed, calls>>

\* discard: the room service calls it when a room changes its URL or is disabled.
discard(r) == /\ Cached(r) /\ cache' = Without(r)
              /\ UNCHANGED <<call, left, closed, calls>>

\* _purge_expired, at whatever moment an entry's time is over.
purge_expired == /\ \E i \in DOMAIN cache : cache' = RemoveAt(cache, i)
                 /\ UNCHANGED <<call, left, closed, calls>>

close == /\ ~closed /\ closed' = TRUE /\ cache' = <<>>
         /\ UNCHANGED <<call, left, calls>>

-----------------------------------------------------------------------------
(* resolve: the static page first.                                         *)

resolve(c) ==
    /\ At(c, "idle") /\ ~closed /\ calls < MaxCalls
    /\ calls' = calls + 1
    /\ \E r \in Rooms : Set(c, [Idle EXCEPT !.pc = "static", !.room = r, !.page = r])
    /\ UNCHANGED <<cache, left, closed>>

Waiting(r) == [Idle EXCEPT !.pc = "lock", !.room = r]

\* A redirect inside the allowed hosts is followed, to any page there; one too
\* many, a target outside or a network error gives no candidates.
redirected(c) ==
    /\ At(c, "static")
    /\ \/ /\ call[c].hops < MaxRedirects
          /\ \E p \in Rooms : Set(c, [call[c] EXCEPT !.page = p, !.hops = @ + 1])
       \/ Set(c, Waiting(call[c].room))
    /\ UNCHANGED <<cache, left, closed, calls>>

\* inspect_live_page: candidates count only if nothing before them decides.
live_state(success, blocked, media) ==
    IF ~success THEN "error" ELSE IF blocked THEN "blocked"
    ELSE IF media # {} THEN "live" ELSE "unknown"
Usable(success, blocked, media) ==
    IF live_state(success, blocked, media) = "live" THEN media ELSE {}

\* The candidates of the page are checked once more; those that are not of an
\* allowed CDN are left out.
_validated_candidates(media, allowed) == IF allowed THEN media ELSE {}

\* The page answers.  With usable candidates the call ends here: they replace
\* what is cached.  Otherwise it waits for the browser.
answered(c) ==
    LET k == call[c] IN
    /\ At(c, "static")
    /\ \E success, blocked, allowed \in BOOLEAN, media \in {{}, {[page |-> k.page, ok |-> TRUE]}} :
          LET found == _validated_candidates(Usable(success, blocked, media), allowed) IN
          /\ cache' = IF found # {} THEN Stored(k.room, found, "static", k.page) ELSE cache
          /\ Set(c, IF found # {} THEN Idle ELSE Waiting(k.room))
    /\ UNCHANGED <<left, closed, calls>>

-----------------------------------------------------------------------------
(* observe_stream_candidates_with_chrome, under the browser lock.          *)

\* After the observation resolve goes on without an await.  What the browser saw
\* replaces what is cached; if it saw nothing, or took too long, the cached
\* candidates go, whoever stored them.  A cancelled call changes nothing.
Return(c, k) ==
    /\ cache' = IF k.why = "cancelled" THEN cache
                ELSE IF k.why = NULL /\ k.seen # {} THEN Stored(k.room, k.seen, "browser", k.page)
                ELSE Without(k.room)
    /\ Set(c, Idle)

\* The lock is taken and the clock of wait_for starts.
locked(c) ==
    /\ At(c, "lock") /\ BrowserLockFree
    /\ Set(c, [call[c] EXCEPT !.pc = "spawn", !.timer = TRUE])
    /\ UNCHANGED <<cache, left, closed, calls>>

\* Chrome starts, or is not installed or cannot be started.
spawned(c) ==
    /\ At(c, "spawn")
    /\ \/ Set(c, [call[c] EXCEPT !.pc = "target", !.up = TRUE]) /\ UNCHANGED cache
       \/ Return(c, call[c])
    /\ UNCHANGED <<left, closed, calls>>

\* The event loop is over; the except clause: nothing seen so far counts.
Over(k, pc) == [k EXCEPT !.pc = pc, !.queue = <<>>, !.pending = {}, !.asked = NULL, !.sent = 0]
\* Mistake: the except clause keeps the candidates.
KeepsSeen(k) == Over(k, "stop_close")
Failed(k) == [Over(k, "stop_close") EXCEPT !.seen = {}]

\* _wait_page_target: the page target appears and the WebSocket opens.  Whatever
\* goes wrong, here and later, ends the observation.
target_found(c) ==
    LET k == call[c] IN
    /\ At(c, "target")
    /\ \/ k.up /\ Set(c, [k EXCEPT !.pc = "enable", !.linked = TRUE, !.cdp = TRUE])
       \/ Set(c, Failed(k))
    /\ UNCHANGED <<cache, left, closed, calls>>

\* The domains are enabled and the room is opened.
connected(c) ==
    LET k == call[c] IN
    /\ At(c, "enable")
    /\ \/ k.linked /\ Set(c, [k EXCEPT !.pc = "loop", !.page = k.room])
       \/ Set(c, Failed(k))
    /\ UNCHANGED <<cache, left, closed, calls>>

\* _CdpClient._reader: a full queue loses its oldest event.
Queued(q, e) == Append(IF Len(q) = QueueSize THEN Tail(q) ELSE q, e)

Answers == [kind : {"media", "api"}, ok : BOOLEAN] \cup [kind : {"failed", "finished"}, ok : {TRUE}]

\* Chrome: it sends an event of the page it shows, goes to another page, loses
\* its connection, or exits.
chrome(c) ==
    LET k == call[c] IN
    /\ k.up
    /\ \/ /\ k.linked /\ k.pc \in {"loop", "body"} /\ k.sent < MaxEvents
          /\ \E e \in Answers :
                Set(c, [k EXCEPT !.queue = Queued(@, <<e, k.page>>), !.sent = @ + 1])
       \/ /\ k.pc \in {"loop", "body"} /\ k.sent < MaxEvents
          /\ \E p \in Rooms \ {k.page} : Set(c, [k EXCEPT !.page = p, !.sent = @ + 1])
       \/ k.linked /\ Set(c, [k EXCEPT !.linked = FALSE])
       \/ Set(c, [k EXCEPT !.linked = FALSE, !.up = FALSE])
    /\ UNCHANGED <<cache, left, closed, calls>>

\* candidates.setdefault, up to the limit.
Noted(seen, m) == IF Cardinality(seen) < MaxCandidates THEN seen \cup {m} ELSE seen

\* One event of the loop.  Only 2xx answers count; the body of an API answer is
\* asked for when it is complete.
event(c) ==
    LET k == call[c]  e == Head(k.queue)[1]  p == Head(k.queue)[2]
        next == [k EXCEPT !.queue = Tail(@)] IN
    /\ At(c, "loop") /\ k.queue # <<>>
    /\ \/ e.kind = "media" /\ e.ok /\ Set(c, [next EXCEPT !.seen = Noted(@, [page |-> p, ok |-> e.ok])])
       \/ e.kind = "api" /\ e.ok /\ Set(c, [next EXCEPT !.pending = @ \cup {p}])
       \/ e.kind = "failed" /\ Set(c, [next EXCEPT !.pending = @ \ {p}])
       \/ /\ e.kind = "finished" /\ p \in k.pending
          /\ Set(c, [next EXCEPT !.pc = "body", !.asked = p, !.pending = @ \ {p}])
       \/ ~e.ok /\ Set(c, next)
       \/ e.kind = "finished" /\ p \notin k.pending /\ Set(c, next)
    /\ UNCHANGED <<cache, left, closed, calls>>

\* Network.getResponseBody: the candidates in the body; none if the command
\* fails or times out; the end of the observation if the connection is lost.
body(c) ==
    LET k == call[c]  next == [k EXCEPT !.pc = "loop", !.asked = NULL] IN
    /\ At(c, "body")
    /\ \/ k.linked /\ Set(c, [next EXCEPT !.seen = Noted(@, [page |-> k.asked, ok |-> TRUE])])
       \/ Set(c, next)
       \/ ~k.linked /\ Set(c, Failed(k))
    /\ UNCHANGED <<cache, left, closed, calls>>

\* The observation's time is over: where did Chrome end?
deadline(c) ==
    /\ At(c, "loop") /\ Set(c, Over(call[c], "location"))
    /\ UNCHANGED <<cache, left, closed, calls>>

location(c) ==
    LET k == call[c] IN
    /\ At(c, "location")
    /\ \/ k.linked /\ k.page = k.room /\ Set(c, [k EXCEPT !.pc = "stop_wait", !.cdp = FALSE, !.linked = FALSE])
       \/ Set(c, Failed(k))
    /\ UNCHANGED <<cache, left, closed, calls>>

-----------------------------------------------------------------------------
(* _stop_browser, the finally clause, whatever ended the observation.      *)

\* Mistake: SIGTERM has the last word.
NoKill(c) ==
    LET k == call[c] IN
    /\ \/ At(c, "stop_close") /\ k.up /\ Set(c, [k EXCEPT !.pc = "stop_wait"]) /\ UNCHANGED cache
       \/ At(c, "stop_wait") /\ k.up /\ Set(c, [k EXCEPT !.pc = "stop_term"]) /\ UNCHANGED cache
       \/ k.pc \in Stopping /\ ~k.up /\ Return(c, k)
    /\ UNCHANGED <<left, closed, calls>>

\* Browser.close, then SIGTERM, then SIGKILL; three seconds each.
stop_browser(c) ==
    LET k == call[c] IN
    /\ \/ At(c, "stop_close") /\ k.up /\ Set(c, [k EXCEPT !.pc = "stop_wait"]) /\ UNCHANGED cache
       \/ At(c, "stop_wait") /\ k.up /\ Set(c, [k EXCEPT !.pc = "stop_term"]) /\ UNCHANGED cache
       \/ k.pc \in Stopping /\ (k.up => At(c, "stop_term")) /\ Return(c, k)
    /\ UNCHANGED <<left, closed, calls>>

\* CancelledError reaches the await: the observation goes to its clean-up, the
\* clean-up itself is cut short and Chrome stays.
Cut(c, why) ==
    LET k == call[c] IN
    \/ /\ k.pc \in Observing
       /\ Set(c, [Over(k, "stop_close") EXCEPT !.why = why, !.seen = {}, !.timer = @ /\ why = "cancelled"])
       /\ UNCHANGED <<cache, left>>
    \/ /\ k.pc \in Stopping /\ Return(c, [k EXCEPT !.why = why])
       /\ left' = IF k.up THEN left + 1 ELSE left

browser_timeout(c) ==
    /\ call[c].timer
    /\ Cut(c, IF call[c].why = "cancelled" THEN "cancelled" ELSE "timeout")
    /\ UNCHANGED <<closed, calls>>

\* The task is cancelled: the manager stops its worker.
cancelled(c) ==
    /\ call[c].why # "cancelled"
    /\ \/ call[c].pc \in {"static", "lock"} /\ Set(c, Idle) /\ UNCHANGED <<cache, left>>
       \/ Cut(c, "cancelled")
    /\ UNCHANGED <<closed, calls>>

-----------------------------------------------------------------------------
Init == /\ cache = <<>> /\ call = [c \in Calls |-> Idle]
        /\ left = 0 /\ closed = FALSE /\ calls = 0

Goes(c) == \/ redirected(c) \/ answered(c) \/ locked(c) \/ spawned(c) \/ target_found(c)
           \/ connected(c) \/ event(c) \/ body(c) \/ deadline(c) \/ location(c) \/ stop_browser(c)

Next == \/ \E c \in Calls : resolve(c) \/ Goes(c) \/ chrome(c) \/ browser_timeout(c) \/ cancelled(c)
        \/ \E r \in Rooms : cached_candidates(r) \/ discard(r)
        \/ purge_expired \/ close

\* Every await of resolve ends, by an answer or by its own timeout, and the
\* observation has a deadline.  Chrome owes nothing, and neither the timeout
\* of the whole observation nor a cancellation need ever happen.
Fairness == \A c \in Calls :
    /\ WF_vars(Goes(c) /\ call[c].pc # "loop")
    /\ WF_vars(deadline(c)) /\ SF_vars(locked(c))
Spec == Init /\ [][Next]_vars /\ Fairness

-----------------------------------------------------------------------------
Pages == Rooms \cup {NULL}
Media == [page : Pages, ok : BOOLEAN]
Entry == [room : Rooms, media : SUBSET Media, from : {"static", "browser"}, final : Pages]
CallState ==
    [pc : {"idle", "static", "lock", "spawn"} \cup Observing \cup Stopping,
     room : Pages, page : Pages, hops : 0 .. MaxRedirects, queue : Seq(Answers \X Pages),
     seen : SUBSET Media, pending : SUBSET Pages, asked : Pages, linked : BOOLEAN,
     cdp : BOOLEAN, up : BOOLEAN, timer : BOOLEAN, sent : 0 .. MaxEvents,
     why : {NULL, "timeout", "cancelled"}]
StreamsTypeOK ==
    /\ cache \in Seq(Entry) /\ call \in [Calls -> CallState]
    /\ left \in Nat /\ closed \in BOOLEAN /\ calls \in 0 .. MaxCalls

\* What start_recording may find in the cache (cached_candidates): answers that
\* were a 2xx, never an empty list, and, where the browser is the source, the
\* observation ended without an error on the very room they are cached for,
\* whatever pages and failures came before (except clause and final location
\* check of observe_stream_candidates_with_chrome).  No queue and no cache
\* outgrows its limit, and no room is in the cache twice.
CacheIsTrusted ==
    /\ StreamsTypeOK
    /\ Len(cache) <= MaxCached /\ \A c \in Calls : Len(call[c].queue) <= QueueSize
    /\ \A i, j \in DOMAIN cache : cache[i].room = cache[j].room => i = j
    /\ \A i \in DOMAIN cache : LET e == cache[i] IN
          /\ e.media # {} /\ \A m \in e.media : m.ok
          /\ e.from = "browser" => e.final = e.room

\* The browser lock does its work through failures, timeouts and cancellations:
\* at most one Chrome runs, beside those an interrupted clean-up left behind.
OneChrome == \A c, d \in Calls : call[c].up /\ call[d].up => c = d

\* No Chrome is left behind (docs/P1A_IMPLEMENTATION_PLAN.md:73 promises the
\* clean-up of its process group).
NoChromeIsLeft == left = 0

\* Every call of resolve comes back, though Chrome may hang, and the next one
\* gets the browser lock.
ResolveReturns == \A c \in Calls : call[c].pc # "idle" ~> At(c, "idle")
=============================================================================
