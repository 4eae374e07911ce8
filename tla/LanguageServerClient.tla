------------------------ MODULE LanguageServerClient ------------------------
(***************************************************************************)
(* The JSON-RPC client of the VS Code prototype                            *)
(* (editors/vscode-prototype/src/verible-language-server.mjs): one         *)
(* VeribleLanguageServerClient shared by the completion, hover and         *)
(* definition providers, the language server process it spawns, and the    *)
(* two pipes between them.                                                 *)
(*                                                                         *)
(* The extension host runs JavaScript: a macrotask (a provider call, a     *)
(* data chunk, an exit event, a timer, shutdown()) runs to its end, then   *)
(* every promise continuation it made ready runs, and only then the next   *)
(* macrotask.  A call whose pc is in Continuing has such a continuation    *)
(* queued; macrotasks are guarded by Quiescent.  The queue's FIFO order is *)
(* abstracted: any ready continuation may run next.                        *)
(*                                                                         *)
(* The server process is the environment: it may answer any request it was *)
(* sent, in any order or never, send requests of its own with ids of its   *)
(* own choosing, write something that is not a frame, or terminate at any  *)
(* moment.                                                                 *)
(***************************************************************************)
EXTENDS Naturals, FiniteSets

CONSTANTS
  Calls,      \* provider calls: completion, hover or definition requests
  Docs,       \* document URIs
  DocOf,      \* the document a call is about
  OwnIds,     \* ids a server may give to requests of its own, each at most once
  MaxGarbage  \* bound: how many malformed frames the server may write

ASSUME DocOfAssumption == DocOf \in [Calls -> Docs]
ASSUME OwnIdsAssumption == OwnIds \in SUBSET Nat
ASSUME MaxGarbageAssumption == MaxGarbage \in Nat

VARIABLES
  \* --- the client object
  pc,             \* where the async function of each call stands
  nextId,         \* this.nextId
  pending,        \* this.pending: pairs <<id, call>>
  timers,         \* armed request timers: pairs <<id, call>>
  started,        \* this.started
  initialized,    \* this.initialized
  misled,         \* history: the session began with an `initialize' that was
                  \* settled, after the exit event, by a request of the server
  openDocuments,  \* this.openDocuments
  messageBuffer,  \* "clean", "partial" (ends inside a frame) or "poisoned"
  listeners,      \* how many times start() registered its listeners
  process,        \* this.process and what became of it
  \* --- the other side
  asked,          \* requests the server process has and did not answer
  stdout,         \* answers written by the server and not yet read
  requests,       \* ids of the server's own requests not yet read
  garbage,        \* malformed frames in stdout
  server          \* what the server process was told so far

clientVars == <<pc, nextId, pending, timers, initialized, misled, openDocuments>>
processVars == <<started, listeners, process>>
pipeVars == <<asked, stdout, requests, garbage, messageBuffer>>
vars == <<clientVars, processVars, pipeVars, server>>

Awaiting   == {"initializing", "waiting"}
Continuing == {"initReply", "opening", "asking"}
Settled    == {"answered", "blank", "rejected"}
Running    == {"up", "killed"}

\* A promise is settled with the result of an answer, with nothing
\* (undefined), or with an error.
Endings == {"result", "nothing", "error"}

Kinds    == {"initialize", "document"}
Requests == [id : Nat, call : Calls, kind : Kinds]
Answers  == [id : Nat, call : Calls, kind : Kinds, ok : BOOLEAN]

\* What a newly spawned server process was told: nothing.  `early' collects
\* the calls whose document request reached it before the `initialized'
\* notification or before the document was opened; `served' the calls whose
\* document request it answered with a result; `own' the ids it gave to
\* requests of its own.
NewServer == [initialize |-> 0, initialized |-> 0, opened |-> [d \in Docs |-> 0],
              exit |-> FALSE, early |-> {}, served |-> {}, own |-> {}]

Stages == {"idle"} \cup Awaiting \cup Continuing \cup Settled

ClientType ==
  /\ pc \in [Calls -> Stages]
  /\ nextId \in Nat \ {0}
  /\ initialized \in BOOLEAN
  /\ misled \in BOOLEAN
  /\ openDocuments \in SUBSET Docs

\* Every entry carries an id that was given out.
EntryType ==
  /\ pending \in SUBSET ((1 .. nextId - 1) \X Calls)
  /\ timers \in SUBSET ((1 .. nextId - 1) \X Calls)

ProcessType ==
  /\ started \in BOOLEAN
  /\ listeners \in Nat
  /\ process \in {"none", "up", "killed", "dead", "exited", "failed"}

PipeType ==
  /\ asked \in SUBSET Requests
  /\ stdout \in SUBSET Answers
  /\ requests \in SUBSET OwnIds
  /\ garbage \in Nat
  /\ messageBuffer \in {"clean", "partial", "poisoned"}

ServerType ==
  server \in [initialize : Nat, initialized : Nat, opened : [Docs -> Nat],
              exit : BOOLEAN, early : SUBSET Calls, served : SUBSET Calls,
              own : SUBSET OwnIds]

TypeOK == ClientType /\ EntryType /\ ProcessType /\ PipeType /\ ServerType

Init ==
  /\ pc = [c \in Calls |-> "idle"]
  /\ nextId = 1
  /\ pending = {}
  /\ timers = {}
  /\ started = FALSE
  /\ initialized = FALSE
  /\ misled = FALSE
  /\ openDocuments = {}
  /\ messageBuffer = "clean"
  /\ listeners = 0
  /\ process = "none"
  /\ asked = {}
  /\ stdout = {}
  /\ requests = {}
  /\ garbage = 0
  /\ server = NewServer

Quiescent == \A c \in Calls : pc[c] \notin Continuing

-----------------------------------------------------------------------------
(* start(), send(), request() and notify() *)

\* start() when it does not throw.  Only a client that never had a process
\* spawns one: `this.process ?? this.spawn(...)' keeps a process that exited
\* or failed to spawn, and registers the listeners on it once more.
Start ==
  \/ /\ started
     /\ UNCHANGED processVars
  \/ /\ ~started
     /\ started' = TRUE
     /\ listeners' = listeners + 1
     /\ IF process = "none" THEN process' \in {"up", "failed"}
                            ELSE process' = process

\* What the process has been told once `told' is written to its stdin: a
\* write to a process that is not running is dropped.
Tell(told) ==
  server' = IF process' \in Running THEN told ELSE server

\* request(): the timer and the pending entry come before the send.
Register(c) ==
  /\ nextId' = nextId + 1
  /\ timers' = timers \cup {<<nextId, c>>}
  /\ pending' = {p \in pending : p[1] # nextId} \cup {<<nextId, c>>}

Ask(c, kind) ==
  asked' = IF process' \in Running
             THEN asked \cup {[id |-> nextId, call |-> c, kind |-> kind]}
             ELSE asked

-----------------------------------------------------------------------------
(* A provider call and its continuations *)

\* A call on an initialized client goes on to its document; any other call
\* sends an `initialize' of its own, whether or not one is under way.
CallInitialized(c) ==
  /\ Quiescent
  /\ pc[c] = "idle"
  /\ initialized
  /\ pc' = [pc EXCEPT ![c] = "opening"]
  /\ UNCHANGED <<nextId, pending, timers, initialized, misled, openDocuments,
                 processVars, pipeVars, server>>

CallInitialize(c) ==
  /\ Quiescent
  /\ pc[c] = "idle"
  /\ ~initialized
  /\ Start
  /\ Register(c)
  /\ Ask(c, "initialize")
  /\ Tell([server EXCEPT !.initialize = @ + 1])
  /\ pc' = [pc EXCEPT ![c] = "initializing"]
  /\ UNCHANGED <<initialized, misled, openDocuments, stdout, requests, garbage,
                 messageBuffer>>

\* start() throws (spawn or the invocation check does): the promise of the
\* request is rejected, its pending entry and its timer stay behind.
CallThrows(c) ==
  /\ Quiescent
  /\ pc[c] = "idle"
  /\ ~initialized
  /\ ~started
  /\ process = "none"
  /\ Register(c)
  /\ pc' = [pc EXCEPT ![c] = "rejected"]
  /\ UNCHANGED <<initialized, misled, openDocuments, processVars, pipeVars, server>>

\* initialize() after its answer: `initialized' goes out, the flag is set.
FinishInitialize(c) ==
  /\ pc[c] = "initReply"
  /\ Start
  /\ Tell([server EXCEPT !.initialized = @ + 1])
  /\ initialized' = TRUE
  /\ pc' = [pc EXCEPT ![c] = "opening"]
  /\ UNCHANGED <<nextId, pending, timers, misled, openDocuments, pipeVars>>

\* Variant: the document is sent without asking openDocuments.
OpenDocumentUnchecked(c) ==
  /\ pc[c] = "opening"
  /\ Start
  /\ Tell([server EXCEPT !.opened[DocOf[c]] = @ + 1])
  /\ openDocuments' = openDocuments \cup {DocOf[c]}
  /\ pc' = [pc EXCEPT ![c] = "asking"]
  /\ UNCHANGED <<nextId, pending, timers, initialized, misled, pipeVars>>

\* ensureDocumentOpen() after initialize(): the check, the notification and
\* the add are one synchronous step.
OpenDocument(c) ==
  /\ pc[c] = "opening"
  /\ IF DocOf[c] \in openDocuments
       THEN UNCHANGED <<openDocuments, processVars, server>>
       ELSE /\ Start
            /\ Tell([server EXCEPT !.opened[DocOf[c]] = @ + 1])
            /\ openDocuments' = openDocuments \cup {DocOf[c]}
  /\ pc' = [pc EXCEPT ![c] = "asking"]
  /\ UNCHANGED <<nextId, pending, timers, initialized, misled, pipeVars>>

\* completion(), hover() and definition() after ensureDocumentOpen().
AskDocument(c) ==
  /\ pc[c] = "asking"
  /\ Start
  /\ Register(c)
  /\ Ask(c, "document")
  /\ Tell(IF server.initialized > 0 /\ server.opened[DocOf[c]] > 0
            THEN server
            ELSE [server EXCEPT !.early = @ \cup {c}])
  /\ pc' = [pc EXCEPT ![c] = "waiting"]
  /\ UNCHANGED <<initialized, misled, openDocuments, stdout, requests, garbage,
                 messageBuffer>>

-----------------------------------------------------------------------------
(* Events: data, timers, exit, shutdown() *)

\* What becomes of a call whose promise is settled.
Resolve(at, with) ==
  CASE at = "initializing" /\ with # "error"   -> "initReply"
    [] at = "waiting" /\ with = "result"       -> "answered"
    [] at = "waiting" /\ with = "nothing"      -> "blank"
    [] at \in Awaiting /\ with = "error"       -> "rejected"
    [] OTHER                                   -> at

\* The frames of one push that settle the request of a call: handleMessage()
\* looks for an id and never for a method, so that a request of the server's
\* own (an id, neither result nor error) settles the request with that id.
Mine(c, messages) == {m \in messages : <<m.id, c>> \in pending}
Misread(c, own)   == \E id \in own : <<id, c>> \in pending

\* With an answer and a request of one id in one push, the request comes first;
\* the other order is that of two pushes.
With(c, messages, own) ==
  IF Misread(c, own) THEN "nothing"
  ELSE IF \E m \in Mine(c, messages) : m.ok THEN "result" ELSE "error"

\* handleMessage() for every message of one push.
Handle(messages, own) ==
  LET ids == own \cup {m.id : m \in messages}
  IN /\ pc' = [c \in Calls |-> IF Mine(c, messages) = {} /\ ~Misread(c, own)
                                 THEN pc[c] ELSE Resolve(pc[c], With(c, messages, own))]
     /\ timers' = {t \in timers : ~(t \in pending /\ t[1] \in ids)}
     /\ pending' = {p \in pending : p[1] \notin ids}
     /\ misled' = \/ misled
                   \/ /\ process \notin Running \cup {"dead"}
                      /\ \E c \in Calls : pc[c] = "initializing" /\ Misread(c, own)

\* One stdout chunk: the whole frames of `chunk' and `own', possibly something
\* that is no frame, possibly the first bytes of a frame to come.  push()
\* throws on a malformed frame without consuming it, so the messages of that
\* push are lost and every later push throws again.  A client that started
\* twice has two data listeners and pushes every chunk twice: whole frames are
\* then ignored the second time, a torn frame corrupts the buffer.
Receive(chunk, own, garbled, torn) ==
  /\ Quiescent
  /\ listeners > 0
  /\ chunk # {} \/ own # {} \/ garbled \/ torn
  /\ garbled => garbage > 0
  /\ torn => stdout \ chunk # {} \/ requests \ own # {}
  /\ stdout' = stdout \ chunk
  /\ requests' = requests \ own
  /\ garbage' = IF garbled THEN garbage - 1 ELSE garbage
  /\ messageBuffer' =
       IF \/ messageBuffer = "poisoned"
          \/ garbled
          \/ listeners > 1 /\ (torn \/ messageBuffer = "partial")
         THEN "poisoned"
         ELSE IF torn THEN "partial" ELSE "clean"
  /\ IF messageBuffer = "poisoned" \/ garbled THEN Handle({}, {}) ELSE Handle(chunk, own)
  /\ UNCHANGED <<nextId, initialized, openDocuments, processVars, asked, server>>

\* A request timer fires.
Timeout(id, c) ==
  /\ Quiescent
  /\ <<id, c>> \in timers
  /\ timers' = timers \ {<<id, c>>}
  /\ pending' = {p \in pending : p[1] # id}
  /\ pc' = [pc EXCEPT ![c] = Resolve(@, "error")]
  /\ UNCHANGED <<nextId, initialized, misled, openDocuments, processVars, pipeVars, server>>

\* What the exit handler and shutdown() share.
EndSession == started' = FALSE /\ initialized' = FALSE /\ misled' = FALSE

\* Variants of the exit handler: it drops the pending requests unsettled; it
\* leaves them to their timers; it forgets the process, so that the next
\* request spawns a new one.
ExitDropsCalls ==
  /\ Quiescent
  /\ process = "dead"
  /\ EndSession
  /\ process' = "exited"
  /\ timers' = timers \ pending
  /\ pending' = {}
  /\ UNCHANGED <<pc, nextId, openDocuments, listeners, pipeVars, server>>

ExitLeavesTimers ==
  /\ Quiescent
  /\ process = "dead"
  /\ EndSession
  /\ process' = "exited"
  /\ UNCHANGED <<pc, nextId, pending, timers, openDocuments, listeners, pipeVars, server>>

ExitForgetsProcess ==
  /\ Quiescent
  /\ process = "dead"
  /\ EndSession
  /\ process' = "none"
  /\ server' = NewServer
  /\ asked' = {}
  /\ stdout' = {}
  /\ requests' = {}
  /\ timers' = {}
  /\ pending' = {}
  /\ pc' = [c \in Calls |-> Resolve(pc[c], "error")]
  /\ UNCHANGED <<nextId, openDocuments, listeners, garbage, messageBuffer>>

\* The exit event of the process: this.process and openDocuments stay.
Exit ==
  /\ Quiescent
  /\ process = "dead"
  /\ EndSession
  /\ process' = "exited"
  /\ pc' = [c \in Calls |->
              IF c \in {p[2] : p \in pending} THEN Resolve(pc[c], "error") ELSE pc[c]]
  /\ timers' = timers \ pending
  /\ pending' = {}
  /\ UNCHANGED <<nextId, openDocuments, listeners, pipeVars, server>>

\* What shutdown() does to the process: `exit' is written, then it is killed.
Kill ==
  /\ process' = IF process = "up" THEN "killed" ELSE process
  /\ Tell([server EXCEPT !.exit = TRUE])

\* Variants of shutdown(): it also empties the pending map; it also starts
\* the request ids afresh.
ShutdownClearsPending ==
  /\ Quiescent
  /\ started
  /\ Kill
  /\ EndSession
  /\ openDocuments' = {}
  /\ pending' = {}
  /\ UNCHANGED <<pc, nextId, timers, listeners, pipeVars>>

ShutdownResetsIds ==
  /\ Quiescent
  /\ started
  /\ Kill
  /\ EndSession
  /\ openDocuments' = {}
  /\ nextId' = 1
  /\ UNCHANGED <<pc, pending, timers, listeners, pipeVars>>

\* shutdown(): pending requests are left to the exit event or their timers.
Shutdown ==
  /\ Quiescent
  /\ started
  /\ Kill
  /\ EndSession
  /\ openDocuments' = {}
  /\ UNCHANGED <<pc, nextId, pending, timers, listeners, pipeVars>>

-----------------------------------------------------------------------------
(* The server process *)

ServerAnswer(r, ok) ==
  /\ process \in Running
  /\ r \in asked
  /\ asked' = asked \ {r}
  /\ stdout' = stdout \cup {[id |-> r.id, call |-> r.call, kind |-> r.kind, ok |-> ok]}
  /\ server' = IF ok /\ r.kind = "document"
                 THEN [server EXCEPT !.served = @ \cup {r.call}] ELSE server
  /\ UNCHANGED <<clientVars, processVars, requests, garbage, messageBuffer>>

\* A request of the server's own, with an id of the server's own sequence.
\* The client says in `initialize' that it has workspace folders, and never
\* answers what a server asks.
ServerRequest(id) ==
  /\ process \in Running
  /\ id \in OwnIds \ server.own
  /\ requests' = requests \cup {id}
  /\ server' = [server EXCEPT !.own = @ \cup {id}]
  /\ UNCHANGED <<clientVars, processVars, asked, stdout, garbage, messageBuffer>>

ServerGarbage ==
  /\ process \in Running
  /\ garbage < MaxGarbage
  /\ garbage' = garbage + 1
  /\ UNCHANGED <<clientVars, processVars, asked, stdout, requests, messageBuffer, server>>

ServerTerminates ==
  /\ process \in Running
  /\ process' = "dead"
  /\ UNCHANGED <<clientVars, started, listeners, pipeVars, server>>

-----------------------------------------------------------------------------
Continue(c) == FinishInitialize(c) \/ OpenDocument(c) \/ AskDocument(c)

Next ==
  \/ \E c \in Calls : CallInitialized(c) \/ CallInitialize(c) \/ CallThrows(c)
  \/ \E c \in Calls : Continue(c)
  \/ \E chunk \in SUBSET stdout, own \in SUBSET requests, garbled, torn \in BOOLEAN :
       Receive(chunk, own, garbled, torn)
  \/ \E t \in timers : Timeout(t[1], t[2])
  \/ Exit
  \/ Shutdown
  \/ \E r \in asked, ok \in BOOLEAN : ServerAnswer(r, ok)
  \/ \E id \in OwnIds : ServerRequest(id)
  \/ ServerGarbage
  \/ ServerTerminates

\* Continuations always run and armed timers always fire; nothing is assumed
\* of the server, of the user or of the exit event.
Fairness ==
  /\ \A c \in Calls : WF_vars(Continue(c))
  /\ WF_vars(\E t \in timers : Timeout(t[1], t[2]))

Spec == Init /\ [][Next]_vars /\ Fairness

-----------------------------------------------------------------------------
(* Properties *)

\* A call that waits for an answer has exactly one pending entry, and that
\* entry's timer is armed: whatever the server does, and whichever of a late
\* start(), shutdown() or exit comes in between, something is left that will
\* settle the call.
NoLostCall ==
  \A c \in Calls : pc[c] \in Awaiting =>
    \E p \in pending \cap timers : \A q \in pending : q[2] = c <=> q = p

\* The client only believes in a session with a process whose exit event it
\* has not seen, also when answers of the old session are read after exit or
\* shutdown().  There is one way to another: a request of the server's own,
\* read after the exit event, settles the `initialize' of a later call.
InitializedServerAlive ==
  initialized => process \in Running \cup {"dead"} \/ misled

\* Two calls never share a request id, and an answer in the pipe is never
\* for an id that was given to another call.
AnswersBelong ==
  /\ \A p, q \in pending : p[1] = q[1] => p = q
  /\ \A a \in stdout, p \in pending : a.id = p[1] => a.call = p[2]

\* No server process gets a document request before it got `initialized' and
\* the document's didOpen.
OpenBeforeAsk == server.early = {}

\* A document is opened once per server session, however many calls race for
\* it; only a process that was already told to exit may get it again.
OpenedOnce == \A d \in Docs : server.opened[d] > 1 => server.exit

\* Every call settles: the editor always gets its completions, at worst the
\* static ones.
EveryCallSettles == \A c \in Calls : pc[c] # "idle" ~> pc[c] \in Settled

\* What a caller sees of its call.
Outcome == [c \in Calls |->
              IF pc[c] \in Awaiting \cup Continuing THEN "pending" ELSE pc[c]]

\* The client implements the contract of its callers: see AssistCalls.
Abstract == INSTANCE AssistCalls
  WITH outcome <- Outcome, served <- server.served, astray <- requests

AbstractSpec == Abstract!Spec

=============================================================================
