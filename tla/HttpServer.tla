----------------------------- MODULE HttpServer -----------------------------
(***************************************************************************)
(* The web server (src/src/web/http_server.cpp) and the events it streams  *)
(* to browsers (src/src/web/web_service.cpp).  One worker thread polls,    *)
(* accepts, reads, runs the handlers of requests and writes; the radios'   *)
(* reading threads, and handlers, broadcast.  conn_mu_ guards the list of  *)
(* connections and is held for a whole broadcast; out_mu of a connection   *)
(* guards its output.  The worker changes a connection's state without     *)
(* conn_mu_, and broadcasts read it without out_mu.                        *)
(*                                                                         *)
(* What is written to a stream is a sequence of units: the header, and two *)
(* halves for every frame, so that a frame can be torn.                    *)
(***************************************************************************)
EXTENDS Integers, SequencesExt

CONSTANTS
    Client,       \* the connections browsers may make
    Requests,     \* the assignments of a request to every connection
    Caster,       \* the reading threads
    Events,       \* the kinds of events they may have
    Worker, NoOne,
    OutLimit,     \* the units above which a stream's output is full (1 MiB)
    HeadLimit,    \* the pieces a header may have (64 KiB)
    KeepRecent,   \* kMaxRecentPackets (100)
    MaxEvents,    \* bound: events and keepalives, in all
    MaxTurns      \* bound: browsers that stop reading, go, or send too much

\* Endless: a header without an end.
Kinds == {"sse", "get", "post", "endless"}

ASSUME HttpAssumption ==
    /\ Requests \subseteq [Client -> Kinds]
    /\ Worker \notin Caster /\ NoOne \notin Caster \cup {Worker}
    /\ Events \subseteq {"connected", "heard", "known", "direct", "traced", "neighbours"}
    /\ \A n \in {OutLimit, HeadLimit, KeepRecent} : n \in Nat \ {0}
    /\ {MaxEvents, MaxTurns} \subseteq Nat

VARIABLES
    running,   \* running_, and listen_fd_ is open
    stopping,  \* how far stop() has come
    connMu,    \* who holds conn_mu_ across steps
    outMu,     \* outMu[c]: whether the worker holds out_mu of c across steps
    conns,     \* connections_
    state,     \* state[c]: ConnState, or "None" before it is accepted
    out,       \* out[c]: out_buf
    written,   \* written[c]: out_written
    input,     \* input[c]: pieces of the request received
    kind,      \* kind[c]: the request c makes
    peer,      \* peer[c]: the browser's end: away, waiting, open, slow, gone
    sent,      \* sent[c]: pieces the browser has sent
    got,       \* got[c]: what the browser has received
    w,         \* the worker: where it is, the connections left in this round,
               \* what poll said, the chunk it is sending, what send took
    cast,      \* cast[t]: the broadcast t is in
    due,       \* due[t]: the frames of its event t has still to broadcast
    made,      \* made[t]: frames made by t
    events,    \* events and keepalives so far
    turns,     \* browsers that did
    recent,    \* recent_packets_
    links      \* links_

netVars == <<kind, peer, sent>>
connVars == <<outMu, conns, state, out, written, input, got>>
castVars == <<cast, due, made, recent, links>>
bounds == <<events, turns>>
vars == <<running, stopping, connMu, connVars, netVars, w, castVars, bounds>>

Thread == Caster \cup {Worker}
Streaming == "StreamingSse"

\* The pieces of a request.
HeadOf(k) == IF k = "endless" THEN 2 ELSE 1
BodyOf(k) == IF k = "post" THEN 1 ELSE 0
Pieces(k) == HeadOf(k) + BodyOf(k)

Fixed(what) == [from |-> NoOne, n |-> 0, is |-> what]
Header == [of |-> Fixed("header"), part |-> 1]
Halves(f) == <<[of |-> f, part |-> 1], [of |-> f, part |-> 2]>>
Idle == [pc |-> "none", left |-> <<>>, frame |-> NoOne]
Top == [pc |-> "top", todo |-> <<>>, ready |-> [c \in Client |-> {}],
        chunk |-> <<>>, took |-> 0]

Init ==
    /\ running = TRUE /\ stopping = "no"
    /\ connMu = NoOne /\ outMu = [c \in Client |-> FALSE]
    /\ conns = <<>>
    /\ state = [c \in Client |-> "None"]
    /\ out = [c \in Client |-> <<>>] /\ written = [c \in Client |-> 0]
    /\ input = [c \in Client |-> 0]
    /\ kind \in Requests
    /\ peer = [c \in Client |-> "away"]
    /\ sent = [c \in Client |-> 0]
    /\ got = [c \in Client |-> <<>>]
    /\ w = Top
    /\ cast = [t \in Thread |-> Idle]
    /\ due = [t \in Thread |-> <<>>]
    /\ made = [t \in Thread |-> 0]
    /\ events = 0 /\ turns = 0
    /\ recent = <<>> /\ links = {}

\* The elements of seq that are in S, in their order.
Kept(seq, S) ==
    LET places == {i \in DOMAIN seq : seq[i] \in S}
        nth(n) == CHOOSE i \in places : Cardinality({j \in places : j <= i}) = n
    IN  [n \in 1 .. Cardinality(places) |-> seq[nth(n)]]

Quiet(t) == cast[t] = Idle /\ due[t] = <<>>
Listed(c) == c \in ToSet(conns)
Closed(c) == state[c] = "Closed"
Here == Head(w.todo)
Turns(c, s) == state' = [state EXCEPT ![c] = s]
Goes(where) == w' = [w EXCEPT !.pc = where]
\* The worker turns to the connections of todo, or begins a new round.
Serves(todo) == w' = IF todo = <<>> THEN Top
                     ELSE [w EXCEPT !.pc = "serve", !.todo = todo, !.chunk = <<>>, !.took = 0]
Passes == Serves(Tail(w.todo))

-----------------------------------------------------------------------------
(* on_mesh_event, record_and_broadcast_activity, update_link, broadcast_sse *)

\* The frames an event causes: itself, an activity, the links it shows (a node
\* heard directly, a route of two hops, one neighbour).  Activities and links
\* are recorded first.
FramesOf(e) ==
    CASE e = "connected"  -> <<"data">>
      [] e = "heard"      -> <<"data", "activity">>
      [] e = "known"      -> <<"data", "link">>
      [] e = "direct"     -> <<"data", "activity", "link">>
      [] e = "traced"     -> <<"data", "activity", "link", "link">>
      [] e = "neighbours" -> <<"link">>

NextFrame(t) == [from |-> t, n |-> made[t] + 1, is |-> Head(due[t])]

Recorded(f) ==
    /\ recent' = IF f.is # "activity" THEN recent
                 ELSE IF Len(recent) = KeepRecent THEN Append(Tail(recent), f)
                 ELSE Append(recent, f)
    /\ links' = IF f.is = "link" THEN links \cup {f} ELSE links

\* Mutant: nothing is recorded.
MakeUnrecorded(t) ==
    /\ cast[t] = Idle /\ due[t] # <<>>
    /\ cast' = [cast EXCEPT ![t] = [Idle EXCEPT !.pc = "lock", !.frame = NextFrame(t)]]
    /\ made' = [made EXCEPT ![t] = @ + 1]
    /\ due' = [due EXCEPT ![t] = Tail(@)]
    /\ UNCHANGED <<running, stopping, connMu, connVars, netVars, w, recent, links,
                   bounds>>

\* The next frame of t's event is recorded, and made.
Make(t) ==
    /\ cast[t] = Idle /\ due[t] # <<>>
    /\ cast' = [cast EXCEPT ![t] = [Idle EXCEPT !.pc = "lock", !.frame = NextFrame(t)]]
    /\ made' = [made EXCEPT ![t] = @ + 1]
    /\ due' = [due EXCEPT ![t] = Tail(@)]
    /\ Recorded(NextFrame(t))
    /\ UNCHANGED <<running, stopping, connMu, connVars, netVars, w, bounds>>

\* broadcast_sse_raw: conn_mu_ is held until the last connection is done.
Lock(t) ==
    /\ cast[t].pc = "lock" /\ connMu = NoOne
    /\ IF conns = <<>>
       THEN cast' = [cast EXCEPT ![t] = Idle] /\ UNCHANGED connMu
       ELSE /\ cast' = [cast EXCEPT ![t].pc = "visit", ![t].left = conns]
            /\ connMu' = t
    /\ UNCHANGED <<running, stopping, connVars, netVars, w, due, made, recent,
                   links, bounds>>

Advances(t) ==
    IF Len(cast[t].left) = 1
    THEN cast' = [cast EXCEPT ![t] = Idle] /\ connMu' = NoOne
    ELSE /\ cast' = [cast EXCEPT ![t].pc = "visit", ![t].left = Tail(@)]
         /\ UNCHANGED connMu

\* The state of the next connection is read without out_mu.
Visit(t) ==
    /\ cast[t].pc = "visit"
    /\ IF state[Head(cast[t].left)] = Streaming
       THEN cast' = [cast EXCEPT ![t].pc = "append"] /\ UNCHANGED connMu
       ELSE Advances(t)
    /\ UNCHANGED <<running, stopping, connVars, netVars, w, due, made, recent,
                   links, bounds>>

\* Mutant: what there is room for.
RoomForHalf(c, f) == SelectSeq(Halves(f), LAMBDA u : Len(out[c]) + u.part <= OutLimit)

\* A full output drops the whole frame.
RoomFor(c, f) == IF Len(out[c]) < OutLimit THEN Halves(f) ELSE <<>>

AddFrame(t) ==
    LET c == Head(cast[t].left)
    IN  /\ cast[t].pc = "append" /\ ~ outMu[c]
        /\ out' = [out EXCEPT ![c] = @ \o RoomFor(c, cast[t].frame)]
        /\ Advances(t)
        /\ UNCHANGED <<running, stopping, outMu, conns, state, written, input,
                       got, netVars, w, due, made, recent, links, bounds>>

Casting(t) == Make(t) \/ Lock(t) \/ Visit(t) \/ AddFrame(t)

Another == events < MaxEvents /\ events' = events + 1

\* A reading thread has an event: on_mesh_event.
Event(t) ==
    /\ Quiet(t) /\ Another
    /\ \E e \in Events : due' = [due EXCEPT ![t] = FramesOf(e)]
    /\ UNCHANGED <<running, stopping, connMu, connVars, netVars, w, cast, made,
                   recent, links, turns>>

-----------------------------------------------------------------------------
(* worker_loop *)

\* What poll is to watch a connection for.
Watched(c) ==
    CASE state[c] = "ReadingRequest"  -> {"in"}
      [] state[c] = "WritingResponse" -> {"out"}
      [] state[c] = Streaming ->
           {"in"} \cup IF written[c] < Len(out[c]) THEN {"out"} ELSE {}
      [] OTHER -> {}

Dropped == {c \in ToSet(conns) : Closed(c)}
Begins == [w EXCEPT !.pc = "poll", !.todo = conns',
                    !.ready = [c \in Client |-> IF Listed(c) THEN Watched(c) ELSE {}]]

\* Mutant: the list stays locked for the round.
SnapshotHolding ==
    /\ w.pc = "top" /\ running /\ connMu = NoOne
    /\ connMu' = Worker
    /\ conns' = Kept(conns, {c \in Client : ~ Closed(c)})
    /\ out' = [c \in Client |-> IF c \in Dropped THEN <<>> ELSE out[c]]
    /\ written' = [c \in Client |-> IF c \in Dropped THEN 0 ELSE written[c]]
    /\ w' = Begins
    /\ UNCHANGED <<running, stopping, outMu, state, input, got, netVars, castVars,
                   bounds>>

\* Closed connections are dropped, with their output; the others are watched.
Snapshot ==
    /\ w.pc = "top" /\ running /\ connMu = NoOne
    /\ conns' = Kept(conns, {c \in Client : ~ Closed(c)})
    /\ out' = [c \in Client |-> IF c \in Dropped THEN <<>> ELSE out[c]]
    /\ written' = [c \in Client |-> IF c \in Dropped THEN 0 ELSE written[c]]
    /\ w' = Begins
    /\ UNCHANGED <<running, stopping, connMu, outMu, state, input, got, netVars,
                   castVars, bounds>>

Beat ==
    /\ w.pc = "poll" /\ Quiet(Worker) /\ Another
    /\ due' = [due EXCEPT ![Worker] = <<"beat">>]
    /\ UNCHANGED <<running, stopping, connMu, connVars, netVars, w, cast, made,
                   recent, links, turns>>

Unread(c) == sent[c] - input[c]
Waiting(c) == peer[c] = "waiting"

\* What of the watched is so: data or the end of it, room to write, an error.
Polled(c, watched) ==
    {e \in watched : \/ e = "in" /\ (Unread(c) > 0 \/ peer[c] = "gone")
                     \/ e = "out" /\ peer[c] # "slow"}

\* The connections with something to do.
Poll ==
    /\ w.pc = "poll" /\ Quiet(Worker)
    /\ \E broken \in SUBSET {c \in ToSet(w.todo) : peer[c] = "gone"} :
         LET ready == [c \in Client |-> Polled(c, w.ready[c]) \cup
                                         IF c \in broken THEN {"err"} ELSE {}]
             todo  == Kept(w.todo, {c \in Client : ready[c] # {}})
         IN  w' = IF \E c \in Client : Waiting(c)
                  THEN [w EXCEPT !.pc = "accept", !.todo = todo, !.ready = ready]
                  ELSE IF todo = <<>> THEN Top
                  ELSE [w EXCEPT !.pc = "serve", !.todo = todo, !.ready = ready]
    /\ UNCHANGED <<running, stopping, connMu, connVars, netVars, castVars, bounds>>

\* handle_accept.  It fails when stop() has closed the listening socket.
Accept ==
    /\ w.pc = "accept"
    /\ Serves(w.todo)
    /\ \/ \E c \in Client :
            /\ Waiting(c) /\ connMu = NoOne
            /\ peer' = [peer EXCEPT ![c] = "open"]
            /\ Turns(c, "ReadingRequest")
            /\ conns' = Append(conns, c)
       \/ /\ \A c \in Client : ~ Waiting(c)
          /\ UNCHANGED <<peer, state, conns>>
    /\ UNCHANGED <<running, stopping, connMu, outMu, out, written, input, got,
                   kind, sent, castVars, bounds>>

Has(e) == w.pc = "serve" /\ e \in w.ready[Here]

Hangup ==
    /\ Has("err")
    /\ Turns(Here, "Closed") /\ Passes
    /\ UNCHANGED <<running, stopping, connMu, outMu, conns, out, written, input,
                   got, netVars, castVars, bounds>>

WorkerEnds ==
    /\ w.pc = "top" /\ ~ running
    /\ Goes("end")
    /\ UNCHANGED <<running, stopping, connMu, connVars, netVars, castVars,
                   bounds>>

-----------------------------------------------------------------------------
(* handle_read, process_request *)

\* What has been received, at the head of the input.
HeaderEnds(c, n) == kind[c] # "endless" /\ n >= HeadOf(kind[c])
TooLong(c, n) == ~ HeaderEnds(c, n) /\ n > HeadLimit
Complete(c, n) == HeaderEnds(c, n) /\ n >= HeadOf(kind[c]) + BodyOf(kind[c])

\* The end of the connection, or data where none is expected.  (A connection
\* that is watched for both is a stream: after this it is not written to.)
ReadCloses ==
    /\ Has("in") /\ ~ Has("err")
    /\ \/ Unread(Here) = 0 \/ state[Here] = Streaming
    /\ Turns(Here, "Closed")
    /\ Passes
    /\ UNCHANGED <<running, stopping, connMu, outMu, conns, out, written, input,
                   got, netVars, castVars, bounds>>

Responds(c) ==
    /\ out' = [out EXCEPT ![c] = Halves(Fixed("answer"))]
    /\ written' = [written EXCEPT ![c] = 0]
    /\ Turns(c, "WritingResponse")

\* Some pieces of the request.  A handler runs in this thread: most only
\* answer; that of a post sends a message, which is an event of its own
\* (send_text), then an activity.
Read ==
    /\ Has("in") /\ ~ Has("err")
    /\ state[Here] = "ReadingRequest"
    /\ \E n \in input[Here] + 1 .. sent[Here] :
         /\ input' = [input EXCEPT ![Here] = n]
         /\ \/ /\ TooLong(Here, n)
               /\ Turns(Here, "Closed") /\ Passes
               /\ UNCHANGED <<out, written, due>>
            \/ /\ ~ TooLong(Here, n) /\ ~ Complete(Here, n)
               /\ Passes
               /\ UNCHANGED <<state, out, written, due>>
            \/ /\ Complete(Here, n) /\ kind[Here] = "get"
               /\ Responds(Here) /\ Passes
               /\ UNCHANGED due
            \/ /\ Complete(Here, n) /\ kind[Here] = "sse"
               /\ Goes("upgrade")
               /\ UNCHANGED <<state, out, written, due>>
            \/ /\ Complete(Here, n) /\ kind[Here] = "post"
               /\ Goes("handler")
               /\ due' = [due EXCEPT ![Worker] = FramesOf("heard")]
               /\ UNCHANGED <<state, out, written>>
    /\ UNCHANGED <<running, stopping, connMu, outMu, conns, got, netVars, cast,
                   made, recent, links, bounds>>

\* The handler has returned.
Respond ==
    /\ w.pc = "handler" /\ Quiet(Worker)
    /\ Responds(Here) /\ Passes
    /\ UNCHANGED <<running, stopping, connMu, outMu, conns, input, got, netVars,
                   castVars, bounds>>

\* The connection becomes a stream, with out_mu held: first the header is in
\* its output ...
Upgrade ==
    /\ w.pc = "upgrade"
    /\ outMu' = [outMu EXCEPT ![Here] = TRUE]
    /\ out' = [out EXCEPT ![Here] = <<Header>>]
    /\ written' = [written EXCEPT ![Here] = 0]
    /\ Goes("upgraded")
    /\ UNCHANGED <<running, stopping, connMu, conns, state, input, got, netVars,
                   castVars, bounds>>

\* ... then broadcasts may see it.
Upgraded ==
    /\ w.pc = "upgraded"
    /\ outMu' = [outMu EXCEPT ![Here] = FALSE]
    /\ Turns(Here, Streaming)
    /\ Passes
    /\ UNCHANGED <<running, stopping, connMu, conns, out, written, input, got,
                   netVars, castVars, bounds>>

-----------------------------------------------------------------------------
(* handle_write *)

\* When everything has been written, a response closes its connection.
Finished(c, done) ==
    IF done < Len(out[c])
    THEN written' = [written EXCEPT ![c] = done] /\ UNCHANGED <<state, out>>
    ELSE \/ /\ state[c] = "WritingResponse"
            /\ Turns(c, "Closed") /\ UNCHANGED <<out, written>>
         \/ /\ state[c] = Streaming
            /\ out' = [out EXCEPT ![c] = <<>>]
            /\ written' = [written EXCEPT ![c] = 0]
            /\ UNCHANGED state

\* What is left to write is copied; a stream's output is cut to that.
TakeChunk ==
    LET rest == SubSeq(out[Here], written[Here] + 1, Len(out[Here]))
    IN  /\ Has("out") /\ ~ Has("in") /\ ~ Has("err") /\ ~ Closed(Here)
        /\ IF state[Here] = Streaming
           THEN /\ out' = [out EXCEPT ![Here] = rest]
                /\ written' = [written EXCEPT ![Here] = 0]
           ELSE UNCHANGED <<out, written>>
        /\ w' = [w EXCEPT !.pc = "send", !.chunk = rest]
        /\ UNCHANGED <<running, stopping, connMu, outMu, conns, state, input, got,
                       netVars, castVars, bounds>>

\* send() takes some of it; out_mu is not held.
Send ==
    /\ w.pc = "send" /\ peer[Here] \in {"open", "gone"}
    /\ \E n \in 1 .. Len(w.chunk) :
         /\ w' = [w EXCEPT !.pc = "account", !.took = n]
         /\ got' = IF peer[Here] = "gone" THEN got
                   ELSE [got EXCEPT ![Here] = @ \o SubSeq(w.chunk, 1, n)]
    /\ UNCHANGED <<running, stopping, connMu, outMu, conns, state, out, written,
                   input, netVars, castVars, bounds>>

SendFails ==
    /\ w.pc = "send"
    /\ \/ peer[Here] = "slow" /\ UNCHANGED state
       \/ peer[Here] = "gone" /\ Turns(Here, "Closed")
    /\ Passes
    /\ UNCHANGED <<running, stopping, connMu, outMu, conns, out, written, input,
                   got, netVars, castVars, bounds>>

\* Frames may have been added meanwhile.
Account ==
    /\ w.pc = "account"
    /\ Finished(Here, written[Here] + w.took)
    /\ Passes
    /\ UNCHANGED <<running, stopping, connMu, outMu, conns, input, got, netVars,
                   castVars, bounds>>

Working ==
    \/ Snapshot \/ Poll \/ Accept \/ Hangup \/ WorkerEnds
    \/ ReadCloses \/ Read \/ Respond \/ Upgrade \/ Upgraded
    \/ TakeChunk \/ Send \/ SendFails \/ Account

-----------------------------------------------------------------------------
(* stop(), and the browsers *)

StopServer ==
    /\ stopping = "no"
    /\ running' = FALSE /\ stopping' = "join"
    /\ peer' = [c \in Client |-> IF Waiting(c) THEN "gone" ELSE peer[c]]
    /\ UNCHANGED <<connMu, connVars, kind, sent, w, castVars, bounds>>

\* Mutant: the connections are closed before the worker has ended.
JoinLate ==
    /\ stopping = "join" /\ connMu = NoOne
    /\ state' = [c \in Client |-> IF Listed(c) THEN "Closed" ELSE state[c]]
    /\ conns' = <<>>
    /\ stopping' = "done"
    /\ UNCHANGED <<running, connMu, outMu, out, written, input, got, netVars, w,
                   castVars, bounds>>

Join ==
    /\ stopping = "join" /\ w.pc = "end" /\ connMu = NoOne
    /\ state' = [c \in Client |-> IF Listed(c) THEN "Closed" ELSE state[c]]
    /\ conns' = <<>>
    /\ stopping' = "done"
    /\ UNCHANGED <<running, connMu, outMu, out, written, input, got, netVars, w,
                   castVars, bounds>>

Browse(c) ==
    /\ \/ /\ peer[c] = "away" /\ running
          /\ peer' = [peer EXCEPT ![c] = "waiting"] /\ UNCHANGED sent
       \/ /\ peer[c] \in {"waiting", "open"} /\ sent[c] < Pieces(kind[c])
          /\ sent' = [sent EXCEPT ![c] = @ + 1] /\ UNCHANGED peer
       \/ /\ peer[c] = "slow"
          /\ peer' = [peer EXCEPT ![c] = "open"] /\ UNCHANGED sent
    /\ UNCHANGED <<running, stopping, connMu, connVars, kind, w, castVars, bounds>>

\* A browser stops reading, goes with all it has received, or sends more than
\* its request.
Turn(c) ==
    /\ turns < MaxTurns /\ turns' = turns + 1
    /\ peer[c] = "open"
    /\ \/ peer' = [peer EXCEPT ![c] = "slow"] /\ UNCHANGED <<sent, got>>
       \/ /\ peer' = [peer EXCEPT ![c] = "gone"]
          /\ got' = [got EXCEPT ![c] = <<>>]
          /\ UNCHANGED sent
       \/ /\ sent[c] = Pieces(kind[c])
          /\ sent' = [sent EXCEPT ![c] = @ + 1]
          /\ UNCHANGED <<peer, got>>
    /\ UNCHANGED <<running, stopping, connMu, outMu, conns, state, out, written,
                   input, kind, w, castVars, events>>

Next ==
    \/ Working \/ Beat
    \/ \E t \in Thread : Casting(t)
    \/ \E t \in Caster : Event(t)
    \/ StopServer \/ Join
    \/ \E c \in Client : Browse(c) \/ Turn(c)

Spec == Init /\ [][Next]_vars

\* The worker, the broadcasting threads and the stopping one keep running.
Fairness ==
    /\ WF_vars(Working)
    /\ \A t \in Thread : WF_vars(Casting(t))
    /\ WF_vars(Join)

FairSpec == Spec /\ Fairness

-----------------------------------------------------------------------------
(* Properties *)

Frame == [from : Thread, n : Nat, is : {"data", "activity", "link", "beat"}]

TypeOK ==
    /\ running \in BOOLEAN /\ stopping \in {"no", "join", "done"}
    /\ connMu \in Thread \cup {NoOne} /\ outMu \in [Client -> BOOLEAN]
    /\ conns \in Seq(Client) /\ IsInjective(conns)
    /\ state \in [Client -> {"None", "ReadingRequest", "WritingResponse", Streaming,
                           "Closed"}]
    /\ \A c \in Client : /\ Len(out[c]) <= OutLimit + 1
                          /\ written[c] \in 0 .. Len(out[c])
                          /\ input[c] \in 0 .. sent[c]
                          /\ kind[c] \in Kinds /\ sent[c] \in 0 .. Pieces(kind[c]) + MaxTurns
    /\ peer \in [Client -> {"away", "waiting", "open", "slow", "gone"}]
    /\ \A t \in Thread : cast[t].pc \in {"none", "lock", "visit", "append"}
    /\ ToSet(recent) \subseteq Frame /\ links \subseteq Frame
    /\ Len(recent) <= KeepRecent

\* What a browser has received and what is left for it, together.
Stream(c) ==
    LET done == written[c] + IF w.pc = "account" /\ Here = c THEN w.took ELSE 0
    IN  got[c] \o SubSeq(out[c], done + 1, Len(out[c]))

\* The header, then whole frames, in the order each thread made them.
WellFormed(s) ==
    /\ s # <<>> /\ s[1] = Header
    /\ Len(s) % 2 = 1
    /\ \A i \in 2 .. Len(s) : i % 2 = 0 =>
         /\ s[i].part = 1 /\ s[i + 1].part = 2 /\ s[i].of = s[i + 1].of
         /\ \A j \in 2 .. i - 1 : s[j].of.from = s[i].of.from => s[j].of.n < s[i].of.n

\* A stream of events is never torn and its output never too long: however
\* broadcasts, partial writes and drops at the limit interleave, a browser that
\* stays gets the header and then whole frames, none twice, in the order their
\* threads made them.
StreamIntact ==
    /\ TypeOK
    /\ \A c \in Client : state[c] = Streaming /\ peer[c] # "gone" => WellFormed(Stream(c))

\* What a browser is shown as it happens it finds when it asks for the list of
\* packets or links, unless newer packets have pushed it out.
RecordedBeforeShown ==
    \A c \in Client : \A u \in ToSet(out[c]) :
        LET f == u.of
        IN  /\ f.is = "activity" => f \in ToSet(recent) \/ Len(recent) = KeepRecent
            /\ f.is = "link" => f \in links

\* stop() leaves no connection open, also one that was accepted meanwhile.
StopCloses ==
    stopping = "done" => \A c \in Client : state[c] \in {"None", "Closed"}

PendingFrame(c, t, n) ==
    \E i \in written[c] + 1 .. Len(out[c]) :
        out[c][i].of.from = t /\ out[c][i].of.n = n
ArrivedFrame(c, t, n) ==
    \E i \in DOMAIN got[c] : got[c][i].of.from = t /\ got[c][i].of.n = n /\ got[c][i].part = 2
\* The connections and frames looked at.
Listener == {c \in Client : \E k \in Requests : k[c] = "sse"}
First == 1 .. 4 * MaxEvents

Asked(c) == Waiting(c) \/ (state[c] = "ReadingRequest" /\ peer[c] = "open")
Lost(c) == Closed(c) \/ peer[c] \in {"slow", "gone"} \/ ~ running

\* A frame that was put into a stream's output arrives, and a request that has
\* been sent in full is answered or refused, unless the browser stops reading
\* or goes, or the server stops: no broadcast, and no handler that broadcasts,
\* stops the worker.
FramesAndAnswersArrive ==
    /\ \A c \in Listener, t \in Thread, n \in First :
          PendingFrame(c, t, n) ~> (ArrivedFrame(c, t, n) \/ Lost(c))
    /\ \A c \in Client :
          (Asked(c) /\ sent[c] >= HeadOf(kind[c]) + BodyOf(kind[c])) ~>
              (got[c] # <<>> \/ Lost(c))
=============================================================================
