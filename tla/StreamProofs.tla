----------------------------- MODULE StreamProofs -----------------------------
(***************************************************************************)
(* Theorems about StreamResolver: what is cached can be trusted, and the   *)
(* browser lock keeps the Chromes apart, for any number of calls and rooms *)
(* and any limits.                                                         *)
(***************************************************************************)
EXTENDS StreamResolver, TLAPS

Holding(k) == k.pc \in {"spawn"} \cup Observing \cup Stopping

\* The state of one call: Chrome runs only under the lock, only 2xx answers are
\* kept, none before the page is watched, and none that came from elsewhere
\* survives to the clean-up.
Sound(k) ==
    /\ k \in CallState
    /\ k.up => Holding(k)
    /\ \A m \in k.seen : m.ok
    /\ Len(k.queue) <= QueueSize
    /\ k.pc # "idle" => k.room \in Rooms
    /\ k.pc \in {"idle", "static", "lock", "spawn"} => k.seen = {}
    /\ k.pc \in Stopping /\ k.seen # {} => k.page = k.room

\* The browser lock is exclusive.
OneHolder == \A c, d \in Calls : HoldsBrowserLock(c) /\ HoldsBrowserLock(d) => c = d

TrustedEntry ==
    {e \in Entry : /\ e.media # {} /\ \A m \in e.media : m.ok
                   /\ e.from = "browser" => e.final = e.room}
Distinct(s) == \A i, j \in DOMAIN s : s[i].room = s[j].room => i = j
CacheOK(s) == s \in Seq(TrustedEntry) /\ Len(s) <= MaxCached /\ Distinct(s)

IInv ==
    /\ CacheOK(cache)
    /\ DOMAIN call = Calls /\ call = [c \in Calls |-> call[c]] /\ \A c \in Calls : Sound(call[c])
    /\ OneHolder
    /\ left \in Nat /\ closed \in BOOLEAN /\ calls \in 0 .. MaxCalls

-----------------------------------------------------------------------------
\* The cache.

\* What is left of a sequence without one element.
LEMMA Removed ==
  ASSUME NEW S, NEW s \in Seq(S), NEW i \in DOMAIN s
  PROVE  /\ RemoveAt(s, i) \in Seq(S) /\ Len(RemoveAt(s, i)) = Len(s) - 1
         /\ \A j \in 1 .. Len(s) - 1 : RemoveAt(s, i)[j] = IF j < i THEN s[j] ELSE s[j + 1]
<1> DEFINE a == SubSeq(s, 1, i - 1)
           b == SubSeq(s, i + 1, Len(s))
<1>1. /\ a \in Seq(S) /\ Len(a) = i - 1 /\ \A j \in 1 .. i - 1 : a[j] = s[j]
  OBVIOUS
<1>2. /\ b \in Seq(S) /\ Len(b) = Len(s) - i /\ \A j \in 1 .. Len(s) - i : b[j] = s[j + i]
  OBVIOUS
<1>3. RemoveAt(s, i) = a \o b /\ i \in 1 .. Len(s) /\ Len(s) \in Nat
  BY DEF RemoveAt
<1> HIDE DEF a, b
<1>4. /\ a \o b \in Seq(S) /\ Len(a \o b) = Len(a) + Len(b)
      /\ \A j \in 1 .. Len(a) + Len(b) : (a \o b)[j] = IF j <= Len(a) THEN a[j] ELSE b[j - Len(a)]
  BY <1>1, <1>2
<1> DEFINE t == a \o b
<1> HIDE DEF t
<1>5. ASSUME NEW j \in 1 .. Len(s) - 1
      PROVE  t[j] = IF j < i THEN s[j] ELSE s[j + 1]
  <2>1. CASE j < i
    BY <1>1, <1>3, <1>4, <2>1 DEF t
  <2>2. CASE j >= i
    <3>1. j - Len(a) \in 1 .. Len(s) - i /\ j - Len(a) + i = j + 1
      BY <1>1, <1>3, <2>2
    <3>2. b[j - Len(a)] = s[(j - Len(a)) + i]
      BY <1>2, <3>1
    <3>3. j \in 1 .. Len(a) + Len(b) /\ ~(j <= Len(a))
      BY <1>1, <1>2, <1>3, <2>2
    <3>4. t[j] = b[j - Len(a)]
      BY <1>4, <3>3 DEF t
    <3> QED BY <1>3, <2>2, <3>1, <3>2, <3>4
  <2> QED BY <1>3, <2>1, <2>2
<1>6. RemoveAt(s, i) = t /\ t \in Seq(S) /\ Len(t) = Len(s) - 1
  BY <1>1, <1>2, <1>3, <1>4 DEF t
<1> QED BY <1>5, <1>6

\* Removing an entry leaves a cache.
LEMMA RemovedOK ==
  ASSUME NEW s, CacheOK(s), NEW i \in DOMAIN s
  PROVE  /\ CacheOK(RemoveAt(s, i)) /\ Len(RemoveAt(s, i)) = Len(s) - 1
         /\ \A j \in DOMAIN RemoveAt(s, i) : RemoveAt(s, i)[j].room # s[i].room
<1> DEFINE t == RemoveAt(s, i)
<1>1. s \in Seq(TrustedEntry) /\ Len(s) <= MaxCached /\ Distinct(s)
  BY DEF CacheOK
<1>2. /\ t \in Seq(TrustedEntry) /\ Len(t) = Len(s) - 1
      /\ \A j \in 1 .. Len(s) - 1 : t[j] = IF j < i THEN s[j] ELSE s[j + 1]
  BY <1>1, Removed
<1> HIDE DEF t
<1> DEFINE old(j) == IF j < i THEN j ELSE j + 1
<1>0. \A j \in DOMAIN t :
          j \in Nat /\ i \in Nat /\ old(j) \in DOMAIN s /\ t[j] = s[old(j)] /\ old(j) # i
  BY <1>1, <1>2
<1>3. Distinct(t)
  <2> SUFFICES ASSUME NEW a \in DOMAIN t, NEW b \in DOMAIN t, t[a].room = t[b].room
               PROVE  a = b
    BY DEF Distinct
  <2>1. old(a) = old(b)
    <3> HIDE DEF old
    <3> QED BY <1>0, <1>1 DEF Distinct
  <2> QED BY <1>0, <2>1
<1>4. \A j \in DOMAIN t : t[j].room # s[i].room
  <2> HIDE DEF old
  <2> QED BY <1>0, <1>1 DEF Distinct
<1>5. Len(t) <= MaxCached
  BY <1>1, <1>2, StreamsAssumption
<1> QED BY <1>2, <1>3, <1>4, <1>5 DEF CacheOK, t

\* popping a room leaves a cache without that room, one entry shorter if it had one.
LEMMA WithoutOK ==
  ASSUME CacheOK(cache), NEW r
  PROVE  /\ CacheOK(Without(r))
         /\ \A j \in DOMAIN Without(r) : Without(r)[j].room # r
         /\ Cached(r) => /\ Position(r) \in DOMAIN cache /\ cache[Position(r)].room = r
                         /\ Len(Without(r)) = Len(cache) - 1
<1>1. CASE Cached(r)
  <2>1. Position(r) \in DOMAIN cache /\ cache[Position(r)].room = r
    BY <1>1 DEF Cached, Position
  <2>2. Without(r) = RemoveAt(cache, Position(r))
    BY <1>1 DEF Without
  <2> QED BY <2>1, <2>2, RemovedOK
<1>2. CASE ~Cached(r)
  BY <1>2 DEF Cached, Without
<1> QED BY <1>1, <1>2

\* A younger entry for a room without one, and the oldest leaving.
LEMMA AppendedOK ==
  ASSUME NEW s, s \in Seq(TrustedEntry), Distinct(s), NEW e \in TrustedEntry,
         \A j \in DOMAIN s : s[j].room # e.room
  PROVE  /\ Append(s, e) \in Seq(TrustedEntry) /\ Distinct(Append(s, e))
         /\ Len(Append(s, e)) = Len(s) + 1
BY DEF Distinct

\* What is left when the oldest entry leaves.
LEMMA TailOK ==
  ASSUME NEW s, s \in Seq(TrustedEntry), Distinct(s), Len(s) > 0
  PROVE  /\ Tail(s) \in Seq(TrustedEntry) /\ Distinct(Tail(s)) /\ Len(Tail(s)) = Len(s) - 1
BY DEF Distinct

\* What a call answers with goes into the cache, and the oldest entry goes when it is full.
LEMMA StoredOK ==
  ASSUME CacheOK(cache), NEW r \in Rooms, NEW media \in SUBSET Media, media # {},
         \A m \in media : m.ok, NEW from \in {"static", "browser"}, NEW final \in Pages,
         from = "browser" => final = r
  PROVE  CacheOK(Stored(r, media, from, final))
<1> DEFINE e == [room |-> r, media |-> media, from |-> from, final |-> final]
           all == Append(Without(r), e)
<1>1. e \in TrustedEntry /\ e.room = r
  BY DEF TrustedEntry, Entry
<1>2. CacheOK(Without(r)) /\ \A j \in DOMAIN Without(r) : Without(r)[j].room # r
  BY WithoutOK
<1> HIDE DEF e
<1>3. all \in Seq(TrustedEntry) /\ Distinct(all) /\ Len(all) = Len(Without(r)) + 1
  BY <1>1, <1>2, AppendedOK DEF CacheOK
<1>4. Len(Without(r)) \in Nat /\ Len(Without(r)) <= MaxCached /\ MaxCached \in Nat
  BY <1>2, StreamsAssumption DEF CacheOK
<1>5. Stored(r, media, from, final) = IF Len(all) > MaxCached THEN Tail(all) ELSE all
  BY DEF Stored, e
<1> HIDE DEF all
<1>6. CASE Len(all) > MaxCached
  <2>1. Tail(all) \in Seq(TrustedEntry) /\ Distinct(Tail(all)) /\ Len(Tail(all)) = Len(all) - 1
    BY <1>3, <1>4, TailOK
  <2> QED BY <1>3, <1>4, <1>5, <1>6, <2>1 DEF CacheOK
<1>7. CASE ~(Len(all) > MaxCached)
  BY <1>3, <1>4, <1>5, <1>7 DEF CacheOK
<1> QED BY <1>6, <1>7

-----------------------------------------------------------------------------
\* A step of one call.

\* A step of one call, into a state that is sound, that keeps the browser lock to one call.
LEMMA CallSteps ==
  ASSUME IInv, NEW c \in Calls, NEW k, Sound(k), Set(c, k),
         Holding(k) => HoldsBrowserLock(c) \/ BrowserLockFree,
         CacheOK(cache'), left' \in Nat, UNCHANGED closed, calls' \in 0 .. MaxCalls
  PROVE  IInv'
<1>1. DOMAIN call = Calls /\ \A d \in Calls : Sound(call[d])
  BY DEF IInv
<1>2. call' = [call EXCEPT ![c] = k]
  BY DEF Set
<1>3. /\ DOMAIN call' = Calls /\ call' = [d \in Calls |-> call'[d]]
      /\ call'[c] = k /\ \A d \in Calls \ {c} : call'[d] = call[d]
  BY <1>1, <1>2 DEF IInv
<1>4. \A d \in Calls : Sound(call'[d])
  BY <1>1, <1>3
<1>5. OneHolder'
  BY <1>3 DEF IInv, OneHolder, HoldsBrowserLock, Holding, BrowserLockFree
<1> QED BY <1>3, <1>4, <1>5 DEF IInv

\* A call that is over holds nothing.
LEMMA IdleSound == Sound(Idle) /\ ~Holding(Idle)
BY StreamsAssumption DEF Sound, Idle, CallState, Holding, Observing, Stopping, Pages

\* The end of an observation.
LEMMA ReturnSteps ==
  ASSUME IInv, NEW c \in Calls, NEW k, k \in CallState, k.room \in Rooms,
         \A m \in k.seen : m.ok, k.seen # {} => k.page = k.room,
         Return(c, k), left' \in Nat, UNCHANGED <<closed, calls>>
  PROVE  IInv'
<1>1. CacheOK(cache) /\ calls \in 0 .. MaxCalls
  BY DEF IInv
<1>2. k.seen \in SUBSET Media /\ k.page \in Pages
  BY DEF CallState
<1>3. CacheOK(cache')
  <2>1. CASE k.why = NULL /\ k.seen # {}
    <3>1. CacheOK(Stored(k.room, k.seen, "browser", k.page))
      BY <1>1, <1>2, <2>1, StoredOK
    <3> QED BY <1>1, <2>1, <3>1 DEF Return
  <2>2. CASE ~(k.why = NULL /\ k.seen # {})
    BY <1>1, <2>2, WithoutOK DEF Return
  <2> QED BY <2>1, <2>2
<1> QED BY <1>1, <1>3, IdleSound, CallSteps DEF Return

-----------------------------------------------------------------------------
\* The actions of a call keep the invariant.

USE StreamsAssumption

\* The static page: the request, its redirect and its answer.
LEMMA StaticKeeps ==
  ASSUME IInv, NEW c \in Calls, resolve(c) \/ redirected(c) \/ answered(c)
  PROVE  IInv'
<1>1. CacheOK(cache) /\ Sound(call[c]) /\ left \in Nat /\ calls \in 0 .. MaxCalls
  BY DEF IInv
<1>2. ASSUME NEW r \in Rooms
      PROVE  /\ Sound(Waiting(r)) /\ ~Holding(Waiting(r))
             /\ Sound([Idle EXCEPT !.pc = "static", !.room = r, !.page = r])
             /\ ~Holding([Idle EXCEPT !.pc = "static", !.room = r, !.page = r])
  <2> DEFINE s == [Idle EXCEPT !.pc = "static", !.room = r, !.page = r]
  <2>1. PICK i : i = Idle /\ i \in CallState /\ i.seen = {} /\ i.queue = <<>> /\ ~i.up
    BY IdleSound DEF Idle, Sound
  <2>2. /\ Waiting(r) \in CallState /\ Waiting(r).pc = "lock" /\ Waiting(r).room = r
        /\ Waiting(r).seen = {} /\ Waiting(r).queue = <<>> /\ ~Waiting(r).up
    BY <2>1 DEF Waiting, CallState, Pages
  <2>3. s \in CallState /\ s.pc = "static" /\ s.room = r /\ s.seen = {} /\ s.queue = <<>> /\ ~s.up
    BY <2>1 DEF CallState, Pages
  <2> HIDE DEF s
  <2>4. Sound(Waiting(r)) /\ ~Holding(Waiting(r))
    BY <2>2 DEF Sound, Holding, Observing, Stopping
  <2>5. Sound(s) /\ ~Holding(s)
    BY <2>3 DEF Sound, Holding, Observing, Stopping
  <2> QED BY <2>4, <2>5 DEF s
<1>a. Sound(Idle) /\ ~Holding(Idle)
  BY IdleSound
<1>3. CASE resolve(c)
  <2>1. PICK r \in Rooms : Set(c, [Idle EXCEPT !.pc = "static", !.room = r, !.page = r])
    BY <1>3 DEF resolve
  <2>2. UNCHANGED <<cache, left, closed>> /\ calls' = calls + 1 /\ calls < MaxCalls
    BY <1>3 DEF resolve
  <2>3. calls' \in 0 .. MaxCalls
    BY <1>1, <2>2
  <2> QED BY <1>1, <1>2, <2>1, <2>2, <2>3, CallSteps
<1>4. CASE redirected(c)
  <2>1. UNCHANGED <<cache, left, closed, calls>> /\ call[c].pc = "static" /\ call[c].room \in Rooms
    BY <1>1, <1>4 DEF redirected, At, Sound
  <2>2. ASSUME NEW p \in Rooms, call[c].hops < MaxRedirects
        PROVE  /\ Sound([call[c] EXCEPT !.page = p, !.hops = @ + 1])
               /\ ~Holding([call[c] EXCEPT !.page = p, !.hops = @ + 1])
    <3> DEFINE k == call[c]
               n == [k EXCEPT !.page = p, !.hops = @ + 1]
    <3>1. k \in CallState
      BY <1>1 DEF Sound
    <3>2. k.hops + 1 \in 0 .. MaxRedirects /\ p \in Pages
      BY <2>2, <3>1 DEF CallState, Pages
    <3>3. /\ n \in CallState /\ n.pc = k.pc /\ n.room = k.room /\ n.seen = k.seen /\ n.queue = k.queue
          /\ n.up = k.up
      BY <3>1, <3>2 DEF CallState
    <3> HIDE DEF n
    <3>4. Sound(n) /\ ~Holding(n)
      BY <1>1, <2>1, <3>3 DEF Sound, Holding, Observing, Stopping
    <3> QED BY <3>4 DEF n
  <2>3. CASE call[c].hops < MaxRedirects
             /\ \E p \in Rooms : Set(c, [call[c] EXCEPT !.page = p, !.hops = @ + 1])
    BY <1>1, <2>1, <2>2, <2>3, CallSteps
  <2>4. CASE Set(c, Waiting(call[c].room))
    BY <1>1, <1>2, <2>1, <2>4, CallSteps
  <2> QED BY <1>4, <2>3, <2>4 DEF redirected
<1>5. CASE answered(c)
  <2> DEFINE k == call[c]
  <2>1. UNCHANGED <<left, closed, calls>> /\ k.pc = "static" /\ k.room \in Rooms /\ k.page \in Pages
    BY <1>1, <1>5 DEF answered, At, Sound, CallState
  <2>2. PICK found \in SUBSET {[page |-> k.page, ok |-> TRUE]} :
          /\ cache' = IF found # {} THEN Stored(k.room, found, "static", k.page) ELSE cache
          /\ Set(c, IF found # {} THEN Idle ELSE Waiting(k.room))
    BY <1>5 DEF answered, Usable, _validated_candidates
  <2>3. found \in SUBSET Media /\ \A m \in found : m.ok
    <3>1. [page |-> k.page, ok |-> TRUE] \in Media /\ [page |-> k.page, ok |-> TRUE].ok
      BY <2>1 DEF Media
    <3> QED BY <2>2, <3>1
  <2>4. CASE found # {}
    <3>1. CacheOK(Stored(k.room, found, "static", k.page))
      BY <1>1, <2>1, <2>3, <2>4, StoredOK
    <3> QED BY <1>1, <1>a, <2>1, <2>2, <2>4, <3>1, CallSteps
  <2>5. CASE found = {}
    BY <1>1, <1>2, <2>1, <2>2, <2>5, CallSteps
  <2> QED BY <2>4, <2>5
<1> QED BY <1>3, <1>4, <1>5

\* What ends an observation leaves nothing seen.
LEMMA OverSound ==
  ASSUME NEW k, Sound(k), k.pc \in Observing
  PROVE  /\ Sound(Failed(k)) /\ Holding(Failed(k))
         /\ k.pc = "loop" => Sound(Over(k, "location")) /\ Holding(Over(k, "location"))
         /\ \A why \in {"timeout", "cancelled"}, timer \in BOOLEAN :
              LET cut == [Over(k, "stop_close") EXCEPT !.why = why, !.seen = {}, !.timer = timer]
              IN  Sound(cut) /\ Holding(cut)
<1>1. k \in CallState /\ k.room \in Rooms
  BY DEF Sound, Observing
<1>2. ASSUME NEW n \in CallState, n.pc \in {"stop_close", "location"}, n.room = k.room, n.queue = <<>>,
             n.up = k.up, n.seen \in {{}, k.seen}, n.pc = "stop_close" => n.seen = {}
      PROVE  Sound(n) /\ Holding(n)
  BY <1>1, <1>2 DEF Sound, Holding, Observing, Stopping
<1>a. ASSUME NEW pc \in {"stop_close", "location"}
      PROVE  /\ Over(k, pc) \in CallState /\ Over(k, pc).pc = pc /\ Over(k, pc).room = k.room
             /\ Over(k, pc).queue = <<>> /\ Over(k, pc).up = k.up /\ Over(k, pc).seen = k.seen
  <2>1. /\ <<>> \in Seq(Answers \X Pages) /\ {} \in SUBSET Pages /\ NULL \in Pages /\ 0 \in 0 .. MaxEvents
        /\ pc \in Observing \cup Stopping
    BY DEF Pages, Observing, Stopping
  <2> QED BY <1>1, <2>1 DEF Over, CallState
<1>3. Sound(Failed(k)) /\ Holding(Failed(k))
  <2> DEFINE n == Failed(k)
  <2>1. /\ n \in CallState /\ n.pc = "stop_close" /\ n.room = k.room /\ n.queue = <<>> /\ n.up = k.up
        /\ n.seen = {}
    BY <1>a DEF Failed, CallState
  <2> HIDE DEF n
  <2>2. Sound(n) /\ Holding(n)
    BY <1>2, <2>1
  <2> QED BY <2>2 DEF n
<1>4. Sound(Over(k, "location")) /\ Holding(Over(k, "location"))
  <2> DEFINE n == Over(k, "location")
  <2>1. /\ n \in CallState /\ n.pc = "location" /\ n.room = k.room /\ n.queue = <<>> /\ n.up = k.up
        /\ n.seen = k.seen
    BY <1>a
  <2> HIDE DEF n
  <2>2. Sound(n) /\ Holding(n)
    BY <1>2, <2>1
  <2> QED BY <2>2 DEF n
<1>5. ASSUME NEW why \in {"timeout", "cancelled"}, NEW timer \in BOOLEAN
      PROVE  LET cut == [Over(k, "stop_close") EXCEPT !.why = why, !.seen = {}, !.timer = timer]
             IN  Sound(cut) /\ Holding(cut)
  <2> DEFINE o == Over(k, "stop_close")
             n == [o EXCEPT !.why = why, !.seen = {}, !.timer = timer]
  <2>1. o \in CallState /\ o.pc = "stop_close" /\ o.room = k.room /\ o.queue = <<>> /\ o.up = k.up
    BY <1>a
  <2> HIDE DEF o
  <2>2. /\ n \in CallState /\ n.pc = "stop_close" /\ n.room = k.room /\ n.queue = <<>> /\ n.up = k.up
        /\ n.seen = {}
    BY <2>1 DEF CallState
  <2> HIDE DEF n
  <2>3. Sound(n) /\ Holding(n)
    BY <1>2, <2>2
  <2> QED BY <2>3 DEF n, o
<1> QED BY <1>3, <1>4, <1>5

\* The browser lock, Chrome, its target and the connection to it.
LEMMA BrowserStartKeeps ==
  ASSUME IInv, NEW c \in Calls, locked(c) \/ spawned(c) \/ target_found(c) \/ connected(c)
  PROVE  IInv'
<1> DEFINE k == call[c]
<1>1. CacheOK(cache) /\ Sound(k) /\ left \in Nat /\ calls \in 0 .. MaxCalls /\ k \in CallState
  BY DEF IInv, Sound
<1>2. CASE locked(c)
  <2> DEFINE n == [k EXCEPT !.pc = "spawn", !.timer = TRUE]
  <2>1. Set(c, n) /\ BrowserLockFree /\ UNCHANGED <<cache, left, closed, calls>> /\ k.pc = "lock"
    BY <1>2 DEF locked, At
  <2>2. Sound(n)
    BY <1>1, <2>1 DEF Sound, CallState, Holding, Observing, Stopping
  <2> QED BY <1>1, <2>1, <2>2, CallSteps
<1>3. CASE spawned(c)
  <2>1. UNCHANGED <<left, closed, calls>> /\ k.pc = "spawn" /\ HoldsBrowserLock(c)
    BY <1>3 DEF spawned, At, HoldsBrowserLock
  <2>2. k.room \in Rooms /\ k.seen = {}
    BY <1>1, <2>1 DEF Sound
  <2>3. CASE Set(c, [k EXCEPT !.pc = "target", !.up = TRUE]) /\ UNCHANGED cache
    <3>1. Sound([k EXCEPT !.pc = "target", !.up = TRUE])
      BY <1>1, <2>1 DEF Sound, CallState, Holding, Observing, Stopping
    <3> QED BY <1>1, <2>1, <2>3, <3>1, CallSteps
  <2>4. CASE Return(c, k)
    BY <1>1, <2>1, <2>2, <2>4, ReturnSteps
  <2> QED BY <1>3, <2>3, <2>4 DEF spawned
<1>4. CASE target_found(c)
  <2>1. /\ UNCHANGED <<cache, left, closed, calls>> /\ k.pc = "target" /\ HoldsBrowserLock(c)
        /\ k.pc \in Observing
    BY <1>4 DEF target_found, At, HoldsBrowserLock, Observing
  <2>2. CASE Set(c, [k EXCEPT !.pc = "enable", !.linked = TRUE, !.cdp = TRUE])
    <3>1. Sound([k EXCEPT !.pc = "enable", !.linked = TRUE, !.cdp = TRUE])
      BY <1>1, <2>1 DEF Sound, CallState, Holding, Observing, Stopping
    <3> QED BY <1>1, <2>1, <2>2, <3>1, CallSteps
  <2>3. CASE Set(c, Failed(k))
    BY <1>1, <2>1, <2>3, OverSound, CallSteps
  <2> QED BY <1>4, <2>2, <2>3 DEF target_found
<1>5. CASE connected(c)
  <2>1. /\ UNCHANGED <<cache, left, closed, calls>> /\ k.pc = "enable" /\ HoldsBrowserLock(c)
        /\ k.pc \in Observing
    BY <1>5 DEF connected, At, HoldsBrowserLock, Observing
  <2>2. CASE Set(c, [k EXCEPT !.pc = "loop", !.page = k.room])
    <3>1. Sound([k EXCEPT !.pc = "loop", !.page = k.room])
      BY <1>1, <2>1 DEF Sound, CallState, Holding, Observing, Stopping, Pages
    <3> QED BY <1>1, <2>1, <2>2, <3>1, CallSteps
  <2>3. CASE Set(c, Failed(k))
    BY <1>1, <2>1, <2>3, OverSound, CallSteps
  <2> QED BY <1>5, <2>2, <2>3 DEF connected
<1> QED BY <1>2, <1>3, <1>4, <1>5

\* A full queue of events drops its oldest.
LEMMA QueuedOK ==
  ASSUME NEW S, NEW q \in Seq(S), Len(q) <= QueueSize, NEW e \in S
  PROVE  Queued(q, e) \in Seq(S) /\ Len(Queued(q, e)) <= QueueSize
<1>1. Len(q) = QueueSize => Tail(q) \in Seq(S) /\ Len(Tail(q)) = Len(q) - 1
  OBVIOUS
<1> QED BY <1>1 DEF Queued

\* Chrome sends an event, navigates, loses its connection or exits.
LEMMA ChromeKeeps ==
  ASSUME IInv, NEW c \in Calls, chrome(c)
  PROVE  IInv'
<1> DEFINE k == call[c]
<1>1. CacheOK(cache) /\ Sound(k) /\ left \in Nat /\ calls \in 0 .. MaxCalls /\ k \in CallState
  BY DEF IInv, Sound
<1>2. UNCHANGED <<cache, left, closed, calls>> /\ k.up /\ HoldsBrowserLock(c) /\ Holding(k)
  BY <1>1 DEF chrome, Sound, HoldsBrowserLock, Holding
<1>3. ASSUME NEW e \in Answers, k.sent < MaxEvents, k.pc \in {"loop", "body"},
             Set(c, [k EXCEPT !.queue = Queued(@, <<e, k.page>>), !.sent = @ + 1])
      PROVE  IInv'
  <2> DEFINE q == Queued(k.queue, <<e, k.page>>)
             n == [k EXCEPT !.queue = q, !.sent = @ + 1]
  <2>1. k.queue \in Seq(Answers \X Pages) /\ Len(k.queue) <= QueueSize /\ k.page \in Pages
    BY <1>1 DEF Sound, CallState
  <2>2. q \in Seq(Answers \X Pages) /\ Len(q) <= QueueSize
    BY <1>3, <2>1, QueuedOK
  <2>3. Set(c, n)
    BY <1>1, <1>3 DEF CallState
  <2> HIDE DEF q
  <2>4. k.sent + 1 \in 0 .. MaxEvents
    BY <1>1, <1>3 DEF CallState
  <2>5. n \in CallState /\ n.pc = k.pc /\ n.room = k.room /\ n.seen = k.seen /\ n.queue = q /\ n.up = k.up
    BY <1>1, <2>2, <2>4 DEF CallState
  <2> HIDE DEF n
  <2>6. Sound(n)
    BY <1>1, <1>2, <1>3, <2>2, <2>5 DEF Sound, Holding, Stopping
  <2> QED BY <1>1, <1>2, <2>3, <2>6, CallSteps
<1>4. ASSUME NEW p \in Rooms, k.sent < MaxEvents, k.pc \in {"loop", "body"},
             Set(c, [k EXCEPT !.page = p, !.sent = @ + 1])
      PROVE  IInv'
  <2> DEFINE n == [k EXCEPT !.page = p, !.sent = @ + 1]
  <2>1. k.sent + 1 \in 0 .. MaxEvents /\ p \in Pages
    BY <1>1, <1>4 DEF CallState, Pages
  <2>2. /\ n \in CallState /\ n.pc = k.pc /\ n.room = k.room /\ n.seen = k.seen /\ n.queue = k.queue
        /\ n.up = k.up
    BY <1>1, <2>1 DEF CallState
  <2>3. Set(c, n)
    BY <1>4
  <2> HIDE DEF n
  <2>4. Sound(n)
    BY <1>1, <1>2, <1>4, <2>2 DEF Sound, Holding, Stopping
  <2> QED BY <1>1, <1>2, <2>3, <2>4, CallSteps
<1>5. ASSUME NEW up \in BOOLEAN, up => k.up, Set(c, [k EXCEPT !.linked = FALSE, !.up = up])
      PROVE  IInv'
  <2>1. Sound([k EXCEPT !.linked = FALSE, !.up = up])
    BY <1>1, <1>2, <1>5 DEF Sound, CallState, Holding, Observing, Stopping
  <2> QED BY <1>1, <1>2, <1>5, <2>1, CallSteps
<1>6. Set(c, [k EXCEPT !.linked = FALSE]) => Set(c, [k EXCEPT !.linked = FALSE, !.up = k.up])
  BY <1>1 DEF CallState
<1>7. k.up \in BOOLEAN
  BY <1>1 DEF CallState
<1> QED BY <1>3, <1>4, <1>5, <1>6, <1>7 DEF chrome

\* One more candidate, if it was a 2xx.
LEMMA NotedOK ==
  ASSUME NEW seen \in SUBSET Media, \A m \in seen : m.ok, NEW p \in Pages
  PROVE  LET new == Noted(seen, [page |-> p, ok |-> TRUE]) IN
         new \in SUBSET Media /\ \A m \in new : m.ok
<1>1. [page |-> p, ok |-> TRUE] \in Media /\ [page |-> p, ok |-> TRUE].ok
  BY DEF Media
<1> QED BY <1>1 DEF Noted

\* An event is handled: a response becomes a candidate only if it was a 2xx.
LEMMA EventKeeps ==
  ASSUME IInv, NEW c \in Calls, event(c)
  PROVE  IInv'
<1> DEFINE k == call[c]
           e == Head(k.queue)[1]
           p == Head(k.queue)[2]
           next == [k EXCEPT !.queue = Tail(@)]
<1>1. CacheOK(cache) /\ Sound(k) /\ left \in Nat /\ calls \in 0 .. MaxCalls /\ k \in CallState
  BY DEF IInv, Sound
<1>2. UNCHANGED <<cache, left, closed, calls>> /\ k.pc = "loop" /\ HoldsBrowserLock(c) /\ k.queue # <<>>
  BY DEF event, At, HoldsBrowserLock, Observing
<1>3. k.queue \in Seq(Answers \X Pages) /\ Len(k.queue) <= QueueSize
  BY <1>1 DEF Sound, CallState
<1>4. /\ Head(k.queue) \in Answers \X Pages
      /\ Tail(k.queue) \in Seq(Answers \X Pages) /\ Len(Tail(k.queue)) <= QueueSize
  BY <1>2, <1>3
<1>5. p \in Pages
  BY <1>4
<1>6. next \in CallState /\ next = [k EXCEPT !.queue = Tail(k.queue)]
  BY <1>1, <1>4 DEF CallState
<1>7. /\ next.pc = "loop" /\ next.room = k.room /\ next.seen = k.seen
      /\ next.queue = Tail(k.queue) /\ next.up = k.up
  BY <1>1, <1>2 DEF CallState
<1>8. PICK n : n = next
  OBVIOUS
<1>9. PICK q : q = p /\ q \in Pages
  BY <1>5
<1>10. ASSUME NEW m \in CallState, Set(c, m), m.pc \in Observing, m.room = n.room, m.queue = n.queue,
              m.up = n.up, \A x \in m.seen : x.ok
       PROVE  IInv'
  <2>1. Sound(m)
    BY <1>1, <1>2, <1>4, <1>7, <1>8, <1>10 DEF Sound, Holding, Observing, Stopping
  <2> QED BY <1>1, <1>2, <1>10, <2>1, CallSteps
<1>11. n \in CallState /\ n.pc = "loop" /\ \A x \in n.seen : x.ok
  BY <1>1, <1>6, <1>7, <1>8 DEF Sound
<1>12. CASE e.kind = "media" /\ e.ok /\ Set(c, [next EXCEPT !.seen = Noted(@, [page |-> p, ok |-> e.ok])])
  <2> DEFINE seen == Noted(n.seen, [page |-> q, ok |-> TRUE])
             m == [n EXCEPT !.seen = seen]
  <2>1. seen \in SUBSET Media /\ \A x \in seen : x.ok
    BY <1>9, <1>11, NotedOK DEF CallState
  <2>2. e.ok = TRUE
    BY <1>4, <1>12 DEF Answers
  <2>3. Set(c, m)
    BY <1>8, <1>9, <1>11, <1>12, <2>2 DEF CallState
  <2> HIDE DEF seen
  <2>4. /\ m \in CallState /\ m.pc = n.pc /\ m.room = n.room /\ m.queue = n.queue /\ m.up = n.up
        /\ m.seen = seen
    BY <1>11, <2>1 DEF CallState
  <2> HIDE DEF m
  <2> QED BY <1>10, <1>11, <2>1, <2>3, <2>4 DEF Observing
<1>13. ASSUME NEW pending \in SUBSET Pages, Set(c, [n EXCEPT !.pending = pending])
       PROVE  IInv'
  <2> DEFINE m == [n EXCEPT !.pending = pending]
  <2>1. /\ m \in CallState /\ m.pc = n.pc /\ m.room = n.room /\ m.queue = n.queue /\ m.up = n.up
        /\ m.seen = n.seen
    BY <1>11, <1>13 DEF CallState
  <2>2. Set(c, m)
    BY <1>13
  <2> HIDE DEF m
  <2> QED BY <1>10, <1>11, <2>1, <2>2 DEF Observing
<1>14. CASE \/ Set(c, [next EXCEPT !.pending = @ \cup {p}])
            \/ Set(c, [next EXCEPT !.pending = @ \ {p}])
  <2>1. n.pending \cup {q} \in SUBSET Pages /\ n.pending \ {q} \in SUBSET Pages
    BY <1>9, <1>11 DEF CallState
  <2>2. \/ Set(c, [n EXCEPT !.pending = n.pending \cup {q}])
        \/ Set(c, [n EXCEPT !.pending = n.pending \ {q}])
    BY <1>8, <1>9, <1>11, <1>14 DEF CallState
  <2> QED BY <1>13, <2>1, <2>2
<1>15. CASE Set(c, [next EXCEPT !.pc = "body", !.asked = p, !.pending = @ \ {p}])
  <2> DEFINE m == [n EXCEPT !.pc = "body", !.asked = q, !.pending = n.pending \ {q}]
  <2>1. Set(c, m)
    BY <1>8, <1>9, <1>11, <1>15 DEF CallState
  <2>2. n.pending \ {q} \in SUBSET Pages
    BY <1>11 DEF CallState
  <2>3. /\ m \in CallState /\ m.pc = "body" /\ m.room = n.room /\ m.queue = n.queue /\ m.up = n.up
        /\ m.seen = n.seen
    BY <1>9, <1>11, <2>2 DEF CallState, Observing
  <2> HIDE DEF m
  <2> QED BY <1>10, <1>11, <2>1, <2>3 DEF Observing
<1>16. CASE Set(c, next)
  BY <1>8, <1>10, <1>11, <1>16 DEF Observing
<1> QED BY <1>12, <1>14, <1>15, <1>16 DEF event

\* A response body adds what it names.
LEMMA BodyKeeps ==
  ASSUME IInv, NEW c \in Calls, body(c)
  PROVE  IInv'
<1> DEFINE k == call[c]
           next == [k EXCEPT !.pc = "loop", !.asked = NULL]
<1>1. CacheOK(cache) /\ Sound(k) /\ left \in Nat /\ calls \in 0 .. MaxCalls /\ k \in CallState
  BY DEF IInv, Sound
<1>2. UNCHANGED <<cache, left, closed, calls>> /\ k.pc = "body" /\ HoldsBrowserLock(c) /\ k.asked \in Pages
  BY <1>1 DEF body, At, HoldsBrowserLock, Observing, CallState
<1>3. PICK n : n = next
  OBVIOUS
<1>4. PICK q : q = k.asked /\ q \in Pages
  BY <1>2
<1>5. /\ n \in CallState /\ n.pc = "loop" /\ n.room = k.room /\ n.queue = k.queue /\ n.up = k.up
      /\ n.seen = k.seen
  BY <1>1, <1>3 DEF CallState, Observing, Pages
<1>6. ASSUME NEW m \in CallState, Set(c, m), m.pc = "loop", m.room = n.room, m.queue = n.queue,
             m.up = n.up, \A x \in m.seen : x.ok
      PROVE  IInv'
  <2>1. Sound(m)
    BY <1>1, <1>2, <1>5, <1>6 DEF Sound, Holding, Observing, Stopping
  <2> QED BY <1>1, <1>2, <1>6, <2>1, CallSteps
<1>7. CASE Set(c, [next EXCEPT !.seen = Noted(@, [page |-> k.asked, ok |-> TRUE])])
  <2> DEFINE seen == Noted(n.seen, [page |-> q, ok |-> TRUE])
             m == [n EXCEPT !.seen = seen]
  <2>1. n.seen \in SUBSET Media /\ \A x \in n.seen : x.ok
    BY <1>1, <1>5 DEF Sound, CallState
  <2>2. seen \in SUBSET Media /\ \A x \in seen : x.ok
    BY <1>4, <2>1, NotedOK
  <2>3. Set(c, m)
    BY <1>3, <1>4, <1>5, <1>7 DEF CallState
  <2> HIDE DEF seen
  <2>4. /\ m \in CallState /\ m.pc = n.pc /\ m.room = n.room /\ m.queue = n.queue /\ m.up = n.up
        /\ m.seen = seen
    BY <1>5, <2>2 DEF CallState
  <2> HIDE DEF m
  <2> QED BY <1>5, <1>6, <2>2, <2>3, <2>4
<1>8. CASE Set(c, next)
  <2>1. \A x \in n.seen : x.ok
    BY <1>1, <1>5 DEF Sound
  <2> QED BY <1>3, <1>5, <1>6, <1>8, <2>1
<1>9. CASE Set(c, Failed(k))
  <2>1. k.pc \in Observing
    BY <1>2 DEF Observing
  <2> QED BY <1>1, <1>2, <1>9, <2>1, OverSound, CallSteps
<1> QED BY <1>7, <1>8, <1>9 DEF body

\* The time of the observation is over, and where Chrome ended is asked.
LEMMA ObservationEndKeeps ==
  ASSUME IInv, NEW c \in Calls, deadline(c) \/ location(c)
  PROVE  IInv'
<1> DEFINE k == call[c]
<1>1. CacheOK(cache) /\ Sound(k) /\ left \in Nat /\ calls \in 0 .. MaxCalls /\ k \in CallState
  BY DEF IInv, Sound
<1>2. UNCHANGED <<cache, left, closed, calls>> /\ k.pc \in Observing /\ HoldsBrowserLock(c)
  BY DEF deadline, location, At, HoldsBrowserLock, Observing
<1>3. CASE deadline(c)
  <2>1. Set(c, Over(k, "location")) /\ k.pc = "loop"
    BY <1>3 DEF deadline, At
  <2>2. Sound(Over(k, "location"))
    BY <1>1, <1>2, <2>1, OverSound
  <2> QED BY <1>1, <1>2, <2>1, <2>2, CallSteps
<1>4. CASE k.page = k.room /\ Set(c, [k EXCEPT !.pc = "stop_wait", !.cdp = FALSE, !.linked = FALSE])
  <2> DEFINE n == [k EXCEPT !.pc = "stop_wait", !.cdp = FALSE, !.linked = FALSE]
  <2>1. /\ n \in CallState /\ n.pc = "stop_wait" /\ n.room = k.room /\ n.queue = k.queue /\ n.up = k.up
        /\ n.seen = k.seen /\ n.page = k.page
    BY <1>1 DEF CallState, Stopping
  <2>2. Set(c, n)
    BY <1>4
  <2> HIDE DEF n
  <2>3. Sound(n)
    BY <1>1, <1>2, <1>4, <2>1 DEF Sound, Holding, Observing, Stopping
  <2> QED BY <1>1, <1>2, <2>2, <2>3, CallSteps
<1>5. CASE Set(c, Failed(k))
  BY <1>1, <1>2, <1>5, OverSound, CallSteps
<1> QED BY <1>3, <1>4, <1>5 DEF location

\* The clean-up goes on and gives the lock back at its end.
LEMMA StopBrowserKeeps ==
  ASSUME IInv, NEW c \in Calls, stop_browser(c)
  PROVE  IInv'
<1> DEFINE k == call[c]
<1>1. CacheOK(cache) /\ Sound(k) /\ left \in Nat /\ calls \in 0 .. MaxCalls /\ k \in CallState
  BY DEF IInv, Sound
<1>2. UNCHANGED <<left, closed, calls>> /\ k.pc \in Stopping /\ HoldsBrowserLock(c)
  BY DEF stop_browser, At, HoldsBrowserLock, Stopping
<1>3. ASSUME NEW pc \in Stopping, Set(c, [k EXCEPT !.pc = pc]), UNCHANGED cache
      PROVE  IInv'
  <2> DEFINE n == [k EXCEPT !.pc = pc]
  <2>1. /\ n \in CallState /\ n.pc = pc /\ n.room = k.room /\ n.queue = k.queue /\ n.up = k.up
        /\ n.seen = k.seen /\ n.page = k.page
    BY <1>1, <1>3 DEF CallState
  <2>2. Set(c, n)
    BY <1>3
  <2> HIDE DEF n
  <2>3. Sound(n)
    BY <1>1, <1>2, <1>3, <2>1 DEF Sound, Holding, Stopping
  <2> QED BY <1>1, <1>2, <1>3, <2>2, <2>3, CallSteps
<1>4. CASE Return(c, k)
  <2>1. k.room \in Rooms /\ (\A m \in k.seen : m.ok) /\ (k.seen # {} => k.page = k.room)
    BY <1>1, <1>2 DEF Sound, Stopping
  <2> QED BY <1>1, <1>2, <1>4, <2>1, ReturnSteps
<1>5. "stop_wait" \in Stopping /\ "stop_term" \in Stopping
  BY DEF Stopping
<1> QED BY <1>3, <1>4, <1>5 DEF stop_browser

\* A timeout or a cancellation, in the observation or in its clean-up.
LEMMA CutKeeps ==
  ASSUME IInv, NEW c \in Calls, NEW why \in {"timeout", "cancelled"}, Cut(c, why),
         UNCHANGED <<closed, calls>>
  PROVE  IInv'
<1> DEFINE k == call[c]
<1>1. CacheOK(cache) /\ Sound(k) /\ left \in Nat /\ calls \in 0 .. MaxCalls /\ k \in CallState
  BY DEF IInv, Sound
<1>2. CASE /\ k.pc \in Observing
           /\ Set(c, [Over(k, "stop_close") EXCEPT !.why = why, !.seen = {},
                                                   !.timer = @ /\ why = "cancelled"])
           /\ UNCHANGED <<cache, left>>
  <2>1. PICK timer \in BOOLEAN : timer = (k.timer /\ why = "cancelled")
    OBVIOUS
  <2> DEFINE n == [Over(k, "stop_close") EXCEPT !.why = why, !.seen = {}, !.timer = timer]
  <2>2. Set(c, n)
    BY <1>1, <1>2, <2>1 DEF CallState, Over
  <2>3. Sound(n)
    BY <1>1, <1>2, OverSound
  <2>4. HoldsBrowserLock(c)
    BY <1>2 DEF HoldsBrowserLock
  <2> HIDE DEF n
  <2> QED BY <1>1, <1>2, <2>2, <2>3, <2>4, CallSteps
<1>3. CASE /\ k.pc \in Stopping /\ Return(c, [k EXCEPT !.why = why])
           /\ left' = IF k.up THEN left + 1 ELSE left
  <2> DEFINE n == [k EXCEPT !.why = why]
  <2>1. n \in CallState /\ n.room = k.room /\ n.seen = k.seen /\ n.page = k.page
    BY <1>1 DEF CallState
  <2>2. k.room \in Rooms /\ (\A m \in k.seen : m.ok) /\ (k.seen # {} => k.page = k.room)
    BY <1>1, <1>3 DEF Sound, Stopping
  <2>3. Return(c, n) /\ left' \in Nat
    BY <1>1, <1>3
  <2> HIDE DEF n
  <2> QED BY <2>1, <2>2, <2>3, ReturnSteps
<1> QED BY <1>2, <1>3 DEF Cut

\* A timeout or a cancellation of the call.
LEMMA InterruptedKeeps ==
  ASSUME IInv, NEW c \in Calls, browser_timeout(c) \/ cancelled(c)
  PROVE  IInv'
<1>1. CacheOK(cache) /\ left \in Nat /\ calls \in 0 .. MaxCalls
  BY DEF IInv
<1>2. CASE browser_timeout(c)
  BY <1>2, CutKeeps DEF browser_timeout
<1>3. CASE Cut(c, "cancelled") /\ cancelled(c)
  BY <1>3, CutKeeps DEF cancelled
<1>4. CASE Set(c, Idle) /\ UNCHANGED <<cache, left>> /\ cancelled(c)
  BY <1>1, <1>4, IdleSound, CallSteps DEF cancelled
<1> QED BY <1>2, <1>3, <1>4 DEF cancelled

-----------------------------------------------------------------------------
\* The cache is used, and the resolver closed.

\* A step of the cache alone.
LEMMA CacheKeeps ==
  ASSUME IInv, CacheOK(cache'), UNCHANGED <<call, left, calls>>, closed' \in BOOLEAN
  PROVE  IInv'
BY DEF IInv, OneHolder, HoldsBrowserLock

\* The cache is read, pruned, discarded from and closed.
LEMMA CacheUseKeeps ==
  ASSUME IInv, \/ \E r \in Rooms : cached_candidates(r) \/ discard(r)
               \/ purge_expired \/ close
  PROVE  IInv'
<1>1. CacheOK(cache) /\ cache \in Seq(TrustedEntry) /\ closed \in BOOLEAN
  BY DEF IInv, CacheOK
<1>2. ASSUME NEW r \in Rooms, cached_candidates(r)
      PROVE  IInv'
  <2> DEFINE e == cache[Position(r)]
             s == Without(r)
  <2>1. Cached(r) /\ cache' = Append(s, e) /\ UNCHANGED <<call, left, closed, calls>>
    BY <1>2 DEF cached_candidates
  <2>2. /\ CacheOK(s) /\ (\A j \in DOMAIN s : s[j].room # r) /\ Len(s) = Len(cache) - 1
        /\ Position(r) \in DOMAIN cache /\ e.room = r
    BY <1>1, <2>1, WithoutOK
  <2>3. e \in TrustedEntry /\ Len(cache) <= MaxCached
    BY <1>1, <2>2 DEF CacheOK
  <2> HIDE DEF e, s
  <2>4. Append(s, e) \in Seq(TrustedEntry) /\ Distinct(Append(s, e)) /\ Len(Append(s, e)) = Len(s) + 1
    BY <2>2, <2>3, AppendedOK DEF CacheOK
  <2>5. CacheOK(Append(s, e))
    BY <1>1, <2>2, <2>3, <2>4 DEF CacheOK
  <2> QED BY <1>1, <2>1, <2>5, CacheKeeps
<1>3. ASSUME NEW r \in Rooms, discard(r)
      PROVE  IInv'
  BY <1>1, <1>3, WithoutOK, CacheKeeps DEF discard
<1>4. CASE purge_expired
  <2>1. PICK i \in DOMAIN cache : cache' = RemoveAt(cache, i)
    BY <1>4 DEF purge_expired
  <2>2. CacheOK(cache')
    BY <1>1, <2>1, RemovedOK
  <2> QED BY <1>1, <1>4, <2>2, CacheKeeps DEF purge_expired
<1>5. CASE close
  <2>1. CacheOK(<<>>)
    BY DEF CacheOK, Distinct
  <2> QED BY <1>5, <2>1, CacheKeeps DEF close
<1> QED BY <1>2, <1>3, <1>4, <1>5

-----------------------------------------------------------------------------
\* The invariants.

\* So every step keeps the invariant.
LEMMA StepKeeps ==
  ASSUME IInv, [Next]_vars
  PROVE  IInv'
<1>1. ASSUME NEW c \in Calls, resolve(c) \/ Goes(c) \/ chrome(c) \/ browser_timeout(c) \/ cancelled(c)
      PROVE  IInv'
  BY <1>1, StaticKeeps, BrowserStartKeeps, EventKeeps, BodyKeeps, ObservationEndKeeps,
     StopBrowserKeeps, ChromeKeeps, InterruptedKeeps DEF Goes
<1>2. CASE (\E r \in Rooms : cached_candidates(r) \/ discard(r)) \/ purge_expired \/ close
  BY <1>2, CacheUseKeeps
<1>3. CASE UNCHANGED vars
  BY <1>3 DEF vars, IInv, OneHolder, HoldsBrowserLock
<1> QED BY <1>1, <1>2, <1>3 DEF Next

\* It holds with no call and an empty cache.
LEMMA InitHolds ==
  ASSUME Init
  PROVE  IInv
<1>1. CacheOK(<<>>)
  BY DEF CacheOK, Distinct
<1>2. \A c \in Calls : call[c] = Idle
  BY DEF Init
<1>3. OneHolder
  BY <1>2, IdleSound DEF OneHolder, HoldsBrowserLock, Holding
<1>4. DOMAIN call = Calls /\ call = [c \in Calls |-> call[c]]
  BY DEF Init
<1>5. cache = <<>> /\ left = 0 /\ closed = FALSE /\ calls = 0
  BY DEF Init
<1>6. 0 \in 0 .. MaxCalls
  BY StreamsAssumption
<1> QED BY <1>1, <1>2, <1>3, <1>4, <1>5, <1>6, IdleSound DEF IInv

\* It holds in every state of the resolver.
LEMMA Inductive == Spec => []IInv
BY InitHolds, StepKeeps, PTL DEF Spec

\* The cache keeps its limit, holds a room once, and only candidates that a 2xx
\* answered, from an observation that ended on the room they are kept for.
THEOREM TrustedCache == Spec => []CacheIsTrusted
<1>1. ASSUME IInv PROVE CacheIsTrusted
  <2>1. /\ cache \in Seq(TrustedEntry) /\ Len(cache) <= MaxCached /\ Distinct(cache)
        /\ \A c \in Calls : Sound(call[c])
    BY <1>1 DEF IInv, CacheOK
  <2>2. cache \in Seq(Entry)
    BY <2>1 DEF TrustedEntry
  <2>3. StreamsTypeOK
    BY <1>1, <2>1, <2>2 DEF IInv, StreamsTypeOK, Sound
  <2>4. \A i \in DOMAIN cache : cache[i] \in TrustedEntry
    BY <2>1
  <2> QED BY <2>1, <2>3, <2>4 DEF CacheIsTrusted, Distinct, Sound, TrustedEntry
<1> QED BY <1>1, Inductive, PTL

\* Through failures, timeouts and cancellations at most one Chrome runs that a
\* call still answers for.
THEOREM ChromeIsAlone == Spec => []OneChrome
<1>1. ASSUME IInv PROVE OneChrome
  BY <1>1 DEF IInv, OneChrome, OneHolder, Sound, Holding, HoldsBrowserLock
<1> QED BY <1>1, Inductive, PTL
=============================================================================
