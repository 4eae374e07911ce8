--------------------- MODULE LanguageServerClientProofs ---------------------
(***************************************************************************)
(* The safety properties of LanguageServerClient hold for every set of     *)
(* calls and documents, and the client implements the safety part of       *)
(* AssistCalls.  The argument is the inductive invariant IInv below.       *)
(***************************************************************************)
EXTENDS LanguageServerClient, TLAPS

\* Timers and pending entries are the same pairs; ids and calls are unique
\* in them; the calls that wait are among them.
Entries ==
  /\ timers = pending
  /\ \A p, q \in pending : p[1] = q[1] => p = q
  /\ \A p, q \in pending : p[2] = q[2] => p = q
  /\ \A p \in pending : pc[p[2]] \in Awaiting \cup {"rejected"}
  /\ \A c \in Calls : pc[c] \in Awaiting => \E p \in pending : p[2] = c

\* What travels between client and server was issued before, and agrees with
\* the pending entry of its id, if there is one.
Pipes ==
  /\ \A r \in asked :
       /\ r.id < nextId
       /\ pc[r.call] # "idle"
       /\ \A p \in pending : r.id = p[1] => /\ r.call = p[2]
                                            /\ pc[p[2]] = "waiting" => r.kind = "document"
  /\ \A a \in stdout :
       /\ a.id < nextId
       /\ a.ok /\ a.kind = "document" => a.call \in server.served
       /\ \A p \in pending : a.id = p[1] => /\ a.call = p[2]
                                            /\ pc[p[2]] = "waiting" => a.kind = "document"

\* A session, or a step of a call that will lead to one, only exists with a
\* process that did not exit yet, unless a request of the server's own misled
\* the client after the exit; without one no answer is for a pending id.
Session ==
  /\ initialized => process \in Running \cup {"dead"} \/ misled
  /\ \A c \in Calls : pc[c] \in Continuing => process \in Running \cup {"dead"} \/ misled
  /\ misled => process \in Running \cup {"dead", "exited"}
  /\ process \in {"none", "failed"} => requests = {}
  /\ process \in {"none", "exited", "failed"} =>
       \A a \in stdout, p \in pending : a.id # p[1]

\* What the client believes of the session agrees with what its process got.
Opened ==
  /\ server.early = {}
  /\ process = "none" => openDocuments = {} /\ server = NewServer
  /\ process \in Running =>
       /\ \A d \in openDocuments : server.opened[d] > 0
       /\ initialized => server.initialized > 0
       /\ \A c \in Calls : pc[c] \in {"opening", "asking"} => server.initialized > 0
       /\ ~server.exit => \A d \in Docs \ openDocuments : server.opened[d] = 0
  /\ \A c \in Calls : pc[c] = "asking" => DocOf[c] \in openDocuments
  /\ ~server.exit => \A d \in Docs : server.opened[d] <= 1

IInv == TypeOK /\ Entries /\ Pipes /\ Session /\ Opened

-----------------------------------------------------------------------------
(* Type correctness, one lemma for each part of the state *)

LEMMA InitType == Init => TypeOK
<1>. SUFFICES ASSUME Init PROVE TypeOK
  OBVIOUS
<1>1. ServerType
  BY DEF Init, ServerType, NewServer
<1>2. ClientType
  <2>1. pc \in [Calls -> Stages]
    BY DEF Init, Stages
  <2>2. initialized \in BOOLEAN /\ misled \in BOOLEAN
    BY DEF Init
  <2>3. nextId \in Nat \ {0} /\ openDocuments \in SUBSET Docs
    BY DEF Init
  <2>. QED
    BY <2>1, <2>2, <2>3 DEF ClientType
<1>4. EntryType
  BY DEF Init, EntryType
<1>3. ProcessType /\ PipeType
  BY DEF Init, ProcessType, PipeType
<1>. QED
  BY <1>1, <1>2, <1>3, <1>4 DEF TypeOK

\* request() registers an entry of the right type.
LEMMA RegisterType ==
  ASSUME NEW c \in Calls, nextId \in Nat \ {0}, EntryType, Register(c)
  PROVE  nextId' \in Nat \ {0} /\ EntryType'
<1>1. nextId' \in Nat \ {0} /\ nextId \in 1 .. nextId' - 1
  BY DEF Register
<1>2. 1 .. nextId - 1 \subseteq 1 .. nextId' - 1
  BY DEF Register
<1>. QED
  BY <1>1, <1>2 DEF EntryType, Register

\* start() keeps the process it has; without one it spawns one.
LEMMA StartType ==
  ASSUME ProcessType, Start
  PROVE  ProcessType' /\ (process # "none" => process' = process)
<1>1. started' \in BOOLEAN
  BY DEF ProcessType, Start, processVars
<1>2. listeners' \in Nat
  BY DEF ProcessType, Start, processVars
<1>3. process' \in {"none", "up", "killed", "dead", "exited", "failed"}
  BY DEF ProcessType, Start, processVars
<1>4. process # "none" => process' = process
  BY DEF ProcessType, Start, processVars
<1>. QED
  BY <1>1, <1>2, <1>3, <1>4 DEF ProcessType

LEMMA ResolveType ==
  ASSUME NEW at \in Stages, NEW with \in Endings
  PROVE  Resolve(at, with) \in Stages
  BY DEF Endings, Resolve, Stages, Awaiting, Continuing, Settled

\* What the server process was told keeps its type.
LEMMA ServerTypeStep == TypeOK /\ [Next]_vars => ServerType'
<1>. SUFFICES ASSUME TypeOK, [Next]_vars PROVE ServerType'
  OBVIOUS
<1>. USE DEF TypeOK, ServerType, Tell
<1>1. ASSUME NEW c \in Calls, CallInitialize(c) PROVE ServerType'
  BY <1>1 DEF CallInitialize
<1>2. ASSUME NEW c \in Calls, FinishInitialize(c) PROVE ServerType'
  BY <1>2 DEF FinishInitialize
<1>3. ASSUME NEW c \in Calls, OpenDocument(c) PROVE ServerType'
  BY <1>3, DocOfAssumption DEF OpenDocument
<1>4. ASSUME NEW c \in Calls, AskDocument(c) PROVE ServerType'
  BY <1>4 DEF AskDocument
<1>5. CASE Shutdown
  BY <1>5 DEF Shutdown, Kill
<1>6. ASSUME NEW r \in asked, NEW ok \in BOOLEAN, ServerAnswer(r, ok) PROVE ServerType'
  BY <1>6 DEF ServerAnswer, PipeType, Requests
<1>7. ASSUME NEW id \in OwnIds, ServerRequest(id) PROVE ServerType'
  BY <1>7 DEF ServerRequest
<1>8. CASE UNCHANGED server
  BY <1>8
<1>. QED
  BY <1>1, <1>2, <1>3, <1>4, <1>5, <1>6, <1>7, <1>8
     DEF Next, Continue, CallInitialized, CallThrows, Receive, Timeout, Exit,
         ServerGarbage, ServerTerminates, vars

\* The frames of a push that handleMessage() gets are frames of the pipe.
LEMMA ReceiveHandles ==
  ASSUME NEW chunk \in SUBSET stdout, NEW own \in SUBSET requests, NEW garbled, NEW torn,
         Receive(chunk, own, garbled, torn)
  PROVE  \E messages \in SUBSET stdout, misread \in SUBSET requests : Handle(messages, misread)
  BY DEF Receive

\* A settled promise comes to one of the three endings.
LEMMA WithType ==
  ASSUME NEW c, NEW messages, NEW own PROVE With(c, messages, own) \in Endings
  BY DEF With, Endings

\* What handleMessage() does to a call: nothing, or it settles its promise.
LEMMA HandleSettles ==
  ASSUME NEW messages, NEW own, Handle(messages, own), NEW c \in Calls
  PROVE  pc'[c] = pc[c] \/ \E with \in Endings : pc'[c] = Resolve(pc[c], with)
  BY WithType DEF Handle

LEMMA ClientTypeStep == TypeOK /\ [Next]_vars => ClientType'
<1>. SUFFICES ASSUME TypeOK, [Next]_vars PROVE ClientType'
  OBVIOUS
<1>. USE DEF TypeOK, ClientType
<1>a. "initReply" \in Stages /\ "opening" \in Stages /\ "asking" \in Stages
      /\ "initializing" \in Stages /\ "waiting" \in Stages /\ "rejected" \in Stages
  BY DEF Stages, Awaiting, Continuing, Settled
<1>1. ASSUME NEW c \in Calls, CallInitialized(c) PROVE ClientType'
  BY <1>1, <1>a DEF CallInitialized
<1>2. ASSUME NEW c \in Calls, CallInitialize(c) PROVE ClientType'
  BY <1>2, <1>a, RegisterType DEF CallInitialize
<1>3. ASSUME NEW c \in Calls, CallThrows(c) PROVE ClientType'
  BY <1>3, <1>a, RegisterType DEF CallThrows
<1>4. ASSUME NEW c \in Calls, FinishInitialize(c) PROVE ClientType'
  <2>1. initialized' \in BOOLEAN /\ misled' = misled
    BY <1>4 DEF FinishInitialize
  <2>. QED
    BY <1>4, <1>a, <2>1 DEF FinishInitialize
<1>5. ASSUME NEW c \in Calls, OpenDocument(c) PROVE ClientType'
  <2>1. openDocuments' \in SUBSET Docs
    <3>1. DocOf[c] \in Docs
      BY DocOfAssumption
    <3>2. openDocuments' = openDocuments \/ openDocuments' = openDocuments \cup {DocOf[c]}
      BY <1>5 DEF OpenDocument
    <3>. QED
      BY <3>1, <3>2
  <2>2. pc' \in [Calls -> Stages]
    BY <1>5, <1>a DEF OpenDocument
  <2>. QED
    BY <1>5, <2>1, <2>2 DEF OpenDocument
<1>6. ASSUME NEW c \in Calls, AskDocument(c) PROVE ClientType'
  BY <1>6, <1>a, RegisterType DEF AskDocument
<1>7. ASSUME NEW chunk \in SUBSET stdout, NEW own \in SUBSET requests,
             NEW garbled \in BOOLEAN, NEW torn \in BOOLEAN,
             Receive(chunk, own, garbled, torn)
      PROVE  ClientType'
  <2>1. PICK messages \in SUBSET stdout, misread \in SUBSET requests : Handle(messages, misread)
    BY <1>7, ReceiveHandles
  <2>2. pc' = [c \in Calls |-> pc'[c]]
    BY <2>1 DEF Handle
  <2>3. ASSUME NEW c \in Calls PROVE pc'[c] \in Stages
    BY <2>1, HandleSettles, ResolveType
  <2>4. misled' \in BOOLEAN
    BY <2>1 DEF Handle
  <2>. QED
    BY <1>7, <2>2, <2>3, <2>4 DEF Receive
<1>8. ASSUME NEW id, NEW c \in Calls, Timeout(id, c) PROVE ClientType'
  <2>1. pc' \in [Calls -> Stages]
    BY <1>8, ResolveType DEF Timeout, Endings
  <2>. QED
    BY <1>8, <2>1 DEF Timeout
<1>9. CASE Exit
  <2>1. pc' \in [Calls -> Stages]
    BY <1>9, ResolveType DEF Exit, Endings
  <2>. QED
    BY <1>9, <2>1 DEF Exit, EndSession
<1>10. CASE Shutdown
  BY <1>10 DEF Shutdown, EndSession
<1>11. CASE UNCHANGED clientVars
  BY <1>11 DEF clientVars
<1>12. ASSUME NEW t \in timers PROVE t[2] \in Calls
  BY DEF EntryType
<1>. QED
  BY <1>1, <1>2, <1>3, <1>4, <1>5, <1>6, <1>7, <1>8, <1>9, <1>10, <1>11, <1>12
     DEF Next, Continue, ServerAnswer, ServerRequest, ServerGarbage, ServerTerminates, vars

LEMMA EntryTypeStep == TypeOK /\ [Next]_vars => EntryType'
<1>. SUFFICES ASSUME TypeOK, [Next]_vars PROVE EntryType'
  OBVIOUS
<1>. USE DEF TypeOK, ClientType
<1>1. ASSUME NEW c \in Calls, Register(c) PROVE EntryType'
  BY <1>1, RegisterType
<1>2. ASSUME NEW chunk \in SUBSET stdout, NEW own \in SUBSET requests,
             NEW garbled \in BOOLEAN, NEW torn \in BOOLEAN,
             Receive(chunk, own, garbled, torn)
      PROVE  EntryType'
  <2>1. /\ timers' \in SUBSET timers /\ pending' \in SUBSET pending
        /\ nextId' = nextId
    BY <1>2 DEF Receive, Handle
  <2>. QED
    BY <2>1 DEF EntryType
<1>3. ASSUME NEW id, NEW c \in Calls, Timeout(id, c) PROVE EntryType'
  BY <1>3 DEF Timeout, EntryType
<1>4. CASE Exit
  BY <1>4 DEF Exit, EntryType
<1>5. CASE UNCHANGED <<nextId, pending, timers>>
  BY <1>5 DEF EntryType
<1>6. ASSUME NEW t \in timers PROVE t[2] \in Calls
  BY DEF EntryType
<1>. QED
  BY <1>1, <1>2, <1>3, <1>4, <1>5, <1>6
     DEF Next, Continue, CallInitialized, CallInitialize, CallThrows, FinishInitialize,
         OpenDocument, AskDocument, Shutdown, ServerAnswer, ServerRequest, ServerGarbage,
         ServerTerminates, clientVars, vars

LEMMA ProcessTypeStep == TypeOK /\ [Next]_vars => ProcessType'
<1>. SUFFICES ASSUME TypeOK, [Next]_vars PROVE ProcessType'
  OBVIOUS
<1>. USE DEF TypeOK
<1>1. CASE Start
  BY <1>1, StartType
<1>2. CASE Exit
  BY <1>2 DEF Exit, EndSession, ProcessType
<1>3. CASE Shutdown
  BY <1>3 DEF Shutdown, EndSession, Kill, ProcessType
<1>4. CASE ServerTerminates
  BY <1>4 DEF ServerTerminates, ProcessType
<1>5. CASE UNCHANGED processVars
  BY <1>5 DEF ProcessType, processVars
<1>. QED
  BY <1>1, <1>2, <1>3, <1>4, <1>5
     DEF Next, Continue, CallInitialized, CallInitialize, CallThrows, FinishInitialize,
         OpenDocument, AskDocument, Receive, Timeout, ServerAnswer, ServerRequest,
         ServerGarbage, vars

LEMMA PipeTypeStep == TypeOK /\ [Next]_vars => PipeType'
<1>. SUFFICES ASSUME TypeOK, [Next]_vars PROVE PipeType'
  OBVIOUS
<1>. USE DEF TypeOK, PipeType
<1>1. ASSUME NEW c \in Calls, NEW kind \in Kinds, Ask(c, kind),
             UNCHANGED <<stdout, requests, garbage, messageBuffer>>
      PROVE  PipeType'
  BY <1>1 DEF Ask, Requests, ClientType
<1>2. ASSUME NEW chunk \in SUBSET stdout, NEW own \in SUBSET requests,
             NEW garbled \in BOOLEAN, NEW torn \in BOOLEAN,
             Receive(chunk, own, garbled, torn)
      PROVE  PipeType'
  BY <1>2 DEF Receive
<1>3. ASSUME NEW r \in asked, NEW ok \in BOOLEAN, ServerAnswer(r, ok) PROVE PipeType'
  BY <1>3 DEF ServerAnswer, Requests, Answers
<1>4. CASE ServerGarbage
  BY <1>4 DEF ServerGarbage
<1>5. CASE UNCHANGED pipeVars
  BY <1>5 DEF pipeVars
<1>6. ASSUME NEW id \in OwnIds, ServerRequest(id) PROVE PipeType'
  BY <1>6 DEF ServerRequest
<1>7. "initialize" \in Kinds /\ "document" \in Kinds
  BY DEF Kinds
<1>. QED
  BY <1>1, <1>2, <1>3, <1>4, <1>5, <1>6, <1>7
     DEF Next, Continue, CallInitialized, CallInitialize, CallThrows, FinishInitialize,
         OpenDocument, AskDocument, Timeout, Exit, Shutdown, ServerTerminates, vars

LEMMA TypeStep == TypeOK /\ [Next]_vars => TypeOK'
  BY ClientTypeStep, EntryTypeStep, ProcessTypeStep, PipeTypeStep, ServerTypeStep DEF TypeOK

\* Every variable of the client, the pipes and the process keeps its type;
\* in particular every pending entry and timer carries an id given out before.
THEOREM TypeCorrect == Spec => []TypeOK
  BY InitType, TypeStep, PTL DEF Spec

-----------------------------------------------------------------------------
(* Entries: pending and timers *)

\* request() gives a call that has no entry a fresh one, and removes none.
LEMMA RegisterAdds ==
  ASSUME TypeOK, NEW c \in Calls, Register(c)
  PROVE  /\ pending' = pending \cup {<<nextId, c>>}
         /\ nextId' = nextId + 1
         /\ \A p \in pending : p[1] < nextId
<1>1. \A p \in pending : p[1] \in Nat /\ p[1] < nextId
  BY DEF TypeOK, EntryType, ClientType
<1>. QED
  BY <1>1 DEF Register, TypeOK, ClientType

LEMMA EntriesRegister ==
  ASSUME TypeOK, Entries, NEW c \in Calls, Register(c),
         pc[c] \in {"idle"} \cup Continuing,
         NEW stage \in Awaiting \cup {"rejected"}, pc' = [pc EXCEPT ![c] = stage]
  PROVE  Entries'
<1>. USE DEF Entries
<1>1. \A p \in pending : p[1] # nextId /\ p[2] # c
  BY RegisterAdds DEF TypeOK, ClientType, EntryType, Awaiting, Continuing
<1>2. timers' = pending'
  BY RegisterAdds DEF Register
<1>3. /\ \A p, q \in pending' : p[1] = q[1] => p = q
      /\ \A p, q \in pending' : p[2] = q[2] => p = q
  BY <1>1, RegisterAdds
<1>4. \A p \in pending' : pc'[p[2]] \in Awaiting \cup {"rejected"}
  BY <1>1, RegisterAdds DEF TypeOK, ClientType, EntryType
<1>5. \A d \in Calls : pc'[d] \in Awaiting => \E p \in pending' : p[2] = d
  <2>. SUFFICES ASSUME NEW d \in Calls, pc'[d] \in Awaiting PROVE \E p \in pending' : p[2] = d
    OBVIOUS
  <2>1. CASE d = c
    <3>1. <<nextId, c>> \in pending' /\ <<nextId, c>>[2] = d
      BY <2>1, RegisterAdds
    <3>. QED
      BY <3>1
  <2>2. CASE d # c
    <3>1. pc[d] \in Awaiting
      BY <2>2 DEF TypeOK, ClientType
    <3>. QED
      BY <3>1, RegisterAdds
  <2>. QED
    BY <2>1, <2>2
<1>. QED
  BY <1>2, <1>3, <1>4, <1>5

\* What Resolve does, without its cases.
LEMMA ResolveFacts ==
  ASSUME NEW at \in Stages, NEW with \in Endings
  PROVE  /\ at \notin Awaiting => Resolve(at, with) = at
         /\ Resolve(at, with) \notin Awaiting
         /\ Resolve(at, with) \in Continuing => \/ at \in Continuing
                                                \/ at = "initializing" /\ with # "error"
         /\ Resolve(at, with) \notin {"opening", "asking", "idle"} \/ Resolve(at, with) = at
         /\ Resolve(at, "error") \in {at, "rejected"}
         /\ Resolve(at, with) = "answered" => at = "answered" \/ (at = "waiting" /\ with = "result")
         /\ Resolve(at, with) = "blank" => at = "blank" \/ (at = "waiting" /\ with = "nothing")
  BY DEF Resolve, Endings, Stages, Awaiting, Continuing, Settled

\* Entries are removed together with the calls they belong to.
LEMMA EntriesRemoved ==
  ASSUME TypeOK, Entries,
         pending' \in SUBSET pending, timers' = pending',
         \A c \in Calls : IF \E p \in pending \ pending' : p[2] = c
                            THEN \E with \in Endings : pc'[c] = Resolve(pc[c], with)
                            ELSE pc'[c] = pc[c]
  PROVE  Entries'
<1>. USE DEF Entries
<1>1. \A p \in pending' : pc'[p[2]] = pc[p[2]]
  BY DEF TypeOK, EntryType
<1>2. \A c \in Calls : pc'[c] \in Awaiting => \E p \in pending' : p[2] = c
  <2>. SUFFICES ASSUME NEW c \in Calls, pc'[c] \in Awaiting PROVE \E p \in pending' : p[2] = c
    OBVIOUS
  <2>1. ~ \E p \in pending \ pending' : p[2] = c
    <3>. SUFFICES ASSUME \E p \in pending \ pending' : p[2] = c PROVE FALSE
      OBVIOUS
    <3>1. PICK with \in Endings : pc'[c] = Resolve(pc[c], with)
      OBVIOUS
    <3>2. pc[c] \in Stages
      BY DEF TypeOK, ClientType
    <3>3. Resolve(pc[c], with) \notin Awaiting
      BY <3>2, ResolveFacts
    <3>. QED
      BY <3>1, <3>3
  <2>2. pc[c] \in Awaiting
    BY <2>1
  <2>. QED
    BY <2>1, <2>2
<1>. QED
  BY <1>1, <1>2

LEMMA EntriesStep == IInv /\ [Next]_vars => Entries'
<1>. SUFFICES ASSUME TypeOK, Entries, [Next]_vars PROVE Entries'
  BY DEF IInv
<1>. USE DEF Entries
<1>1. ASSUME NEW c \in Calls, CallInitialized(c) \/ FinishInitialize(c) \/ OpenDocument(c)
      PROVE  Entries'
  BY <1>1 DEF CallInitialized, FinishInitialize, OpenDocument, TypeOK, ClientType, EntryType,
              Awaiting
<1>2. ASSUME NEW c \in Calls, CallInitialize(c) PROVE Entries'
  BY <1>2, EntriesRegister DEF CallInitialize, Awaiting
<1>3. ASSUME NEW c \in Calls, CallThrows(c) PROVE Entries'
  BY <1>3, EntriesRegister DEF CallThrows
<1>4. ASSUME NEW c \in Calls, AskDocument(c) PROVE Entries'
  BY <1>4, EntriesRegister DEF AskDocument, Awaiting, Continuing
<1>5. ASSUME NEW chunk \in SUBSET stdout, NEW own \in SUBSET requests,
             NEW garbled \in BOOLEAN, NEW torn \in BOOLEAN,
             Receive(chunk, own, garbled, torn)
      PROVE  Entries'
  <2>1. PICK messages \in SUBSET stdout, misread \in SUBSET requests : Handle(messages, misread)
    BY <1>5, ReceiveHandles
  <2>. DEFINE ids == misread \cup {m.id : m \in messages}
  <2>2. timers' = pending' /\ pending' = {p \in pending : p[1] \notin ids}
    BY <2>1 DEF Handle
  <2>3. ASSUME NEW c \in Calls
        PROVE  IF \E p \in pending \ pending' : p[2] = c
                 THEN \E with \in Endings : pc'[c] = Resolve(pc[c], with)
                 ELSE pc'[c] = pc[c]
    <3>1. CASE Mine(c, messages) = {} /\ ~Misread(c, misread)
      <4>1. pc'[c] = pc[c]
        BY <2>1, <3>1 DEF Handle
      <4>2. ~ \E p \in pending \ pending' : p[2] = c
        <5>. SUFFICES ASSUME NEW p \in pending, p[1] \in ids, p[2] = c PROVE FALSE
          BY <2>2
        <5>1. p = <<p[1], c>>
          BY DEF TypeOK, EntryType
        <5>2. p[1] \in misread => Misread(c, misread)
          BY <5>1 DEF Misread
        <5>3. \A m \in messages : m.id = p[1] => m \in Mine(c, messages)
          BY <5>1 DEF Mine
        <5>. QED
          BY <3>1, <5>2, <5>3
      <4>. QED
        BY <4>1, <4>2
    <3>2. CASE ~(Mine(c, messages) = {} /\ ~Misread(c, misread))
      <4>1. pc'[c] = Resolve(pc[c], With(c, messages, misread))
        BY <2>1, <3>2 DEF Handle
      <4>2. PICK id \in ids : <<id, c>> \in pending
        BY <3>2 DEF Mine, Misread
      <4>3. <<id, c>> \in pending \ pending' /\ <<id, c>>[2] = c
        BY <2>2, <4>2
      <4>. QED
        BY <4>1, <4>3, WithType
    <3>. QED
      BY <3>1, <3>2
  <2>. QED
    BY <2>2, <2>3, EntriesRemoved
<1>6. ASSUME NEW t \in timers, Timeout(t[1], t[2]) PROVE Entries'
  <2>1. t \in pending /\ t = <<t[1], t[2]>> /\ t[2] \in Calls
    BY DEF TypeOK, EntryType
  <2>2. pending' = pending \ {t} /\ timers' = pending'
    BY <1>6, <2>1 DEF Timeout
  <2>. QED
    BY <1>6, <2>1, <2>2, EntriesRemoved DEF Timeout, TypeOK, ClientType, Endings
<1>7. CASE Exit
  <2>1. pending' = {} /\ timers' = {}
    BY <1>7 DEF Exit
  <2>2. ASSUME NEW c \in Calls
        PROVE  IF \E p \in pending \ pending' : p[2] = c
                 THEN \E with \in Endings : pc'[c] = Resolve(pc[c], with)
                 ELSE pc'[c] = pc[c]
    <3>1. (c \in {p[2] : p \in pending}) <=> \E p \in pending \ pending' : p[2] = c
      BY <2>1
    <3>2. pc'[c] = IF c \in {p[2] : p \in pending} THEN Resolve(pc[c], "error") ELSE pc[c]
      BY <1>7 DEF Exit
    <3>. QED
      BY <3>1, <3>2 DEF Endings
  <2>. QED
    BY <2>1, <2>2, EntriesRemoved
<1>8. CASE UNCHANGED <<pc, pending, timers>>
  BY <1>8
<1>. QED
  BY <1>1, <1>2, <1>3, <1>4, <1>5, <1>6, <1>7, <1>8
     DEF Next, Continue, Shutdown, ServerAnswer, ServerRequest, ServerGarbage,
         ServerTerminates, clientVars, vars

-----------------------------------------------------------------------------
(* Pipes: what travels between the client and the server *)

\* A step that registers no request, and neither asks nor answers.
LEMMA PipesKept ==
  ASSUME TypeOK, TypeOK', Pipes,
         nextId' = nextId, pending' \in SUBSET pending,
         asked' \in SUBSET asked, stdout' \in SUBSET stdout, server'.served = server.served,
         \A c \in Calls : /\ pc'[c] = "waiting" => pc[c] = "waiting"
                          /\ pc'[c] = "idle" => pc[c] = "idle"
  PROVE  Pipes'
<1>1. \A r \in asked : r.call \in Calls
  BY DEF TypeOK, PipeType, Requests
<1>2. \A p \in pending : p[2] \in Calls
  BY DEF TypeOK, EntryType
<1>. QED
  BY <1>1, <1>2 DEF Pipes

\* A step of a call without entry that registers a request, and perhaps gets
\* it to the server.
LEMMA PipesRegister ==
  ASSUME TypeOK, Pipes, Entries, NEW c \in Calls, Register(c),
         pc[c] \in {"idle"} \cup Continuing,
         NEW stage \in Stages \ {"idle"}, pc' = [pc EXCEPT ![c] = stage],
         NEW kind \in Kinds, stage = "waiting" => kind = "document",
         asked' \in SUBSET (asked \cup {[id |-> nextId, call |-> c, kind |-> kind]}),
         stdout' = stdout, server'.served = server.served
  PROVE  Pipes'
<1>1. \A p \in pending : p[2] \in Calls /\ p[2] # c
  BY DEF Entries, TypeOK, EntryType, Awaiting, Continuing
<1>2. \A p \in pending' : p \in pending \/ p = <<nextId, c>>
  BY RegisterAdds
<1>3. \A p \in pending : pc'[p[2]] = pc[p[2]]
  BY <1>1 DEF TypeOK, ClientType
<1>4. pc'[c] = stage
  BY DEF TypeOK, ClientType
<1>5. \A r \in asked : r.id \in Nat /\ r.call \in Calls /\ r.id < nextId
  BY DEF TypeOK, PipeType, Requests, Pipes
<1>6. \A a \in stdout : a.id \in Nat /\ a.call \in Calls /\ a.id < nextId
  BY DEF TypeOK, PipeType, Answers, Pipes
<1>7. nextId \in Nat /\ nextId' = nextId + 1
  BY RegisterAdds DEF TypeOK, ClientType
<1>8. ASSUME NEW r \in asked'
      PROVE  /\ r.id < nextId'
             /\ pc'[r.call] # "idle"
             /\ \A p \in pending' : r.id = p[1] => /\ r.call = p[2]
                                                   /\ pc'[p[2]] = "waiting" => r.kind = "document"
  <2>1. CASE r \in asked
    <3>1. r.id < nextId /\ r.id # nextId /\ r.id < nextId'
      BY <2>1, <1>5, <1>7
    <3>2. pc'[r.call] # "idle"
      BY <2>1, <1>5 DEF Pipes, TypeOK, ClientType
    <3>3. ASSUME NEW p \in pending', r.id = p[1]
          PROVE  r.call = p[2] /\ (pc'[p[2]] = "waiting" => r.kind = "document")
      <4>1. p \in pending
        BY <3>1, <3>3, <1>2
      <4>. QED
        BY <2>1, <3>3, <4>1, <1>3 DEF Pipes
    <3>. QED
      BY <3>1, <3>2, <3>3
  <2>2. CASE r = [id |-> nextId, call |-> c, kind |-> kind]
    <3>1. r.id = nextId /\ r.call = c /\ r.kind = kind
      BY <2>2
    <3>2. ASSUME NEW p \in pending', r.id = p[1] PROVE p = <<nextId, c>>
      BY <3>1, <3>2, <1>2, <1>7, RegisterAdds
    <3>. QED
      BY <3>1, <3>2, <1>4, <1>7
  <2>. QED
    BY <2>1, <2>2
<1>9. ASSUME NEW a \in stdout
      PROVE  /\ a.id < nextId'
             /\ a.ok /\ a.kind = "document" => a.call \in server'.served
             /\ \A p \in pending' : a.id = p[1] => /\ a.call = p[2]
                                                   /\ pc'[p[2]] = "waiting" => a.kind = "document"
  <2>1. a.id < nextId /\ a.id # nextId /\ a.id < nextId'
    BY <1>6, <1>7
  <2>2. ASSUME NEW p \in pending', a.id = p[1]
        PROVE  a.call = p[2] /\ (pc'[p[2]] = "waiting" => a.kind = "document")
    <3>1. p \in pending
      BY <2>1, <2>2, <1>2
    <3>. QED
      BY <2>2, <3>1, <1>3 DEF Pipes
  <2>3. a.ok /\ a.kind = "document" => a.call \in server'.served
    BY DEF Pipes
  <2>. QED
    BY <2>1, <2>2, <2>3
<1>. QED
  BY <1>8, <1>9 DEF Pipes

\* What the client writes never changes what the server has served.
LEMMA ServedKept ==
  ASSUME TypeOK, [Next]_vars, ~ \E r \in asked, ok \in BOOLEAN : ServerAnswer(r, ok)
  PROVE  server'.served = server.served
<1>. USE DEF TypeOK, ServerType, Tell
<1>1. ASSUME NEW c \in Calls, CallInitialize(c) PROVE server'.served = server.served
  BY <1>1 DEF CallInitialize
<1>2. ASSUME NEW c \in Calls, FinishInitialize(c) PROVE server'.served = server.served
  BY <1>2 DEF FinishInitialize
<1>3. ASSUME NEW c \in Calls, OpenDocument(c) PROVE server'.served = server.served
  BY <1>3 DEF OpenDocument
<1>4. ASSUME NEW c \in Calls, AskDocument(c) PROVE server'.served = server.served
  BY <1>4 DEF AskDocument
<1>5. CASE Shutdown
  BY <1>5 DEF Shutdown, Kill
<1>6. ASSUME NEW id \in OwnIds, ServerRequest(id) PROVE server'.served = server.served
  BY <1>6 DEF ServerRequest
<1>7. CASE UNCHANGED server
  BY <1>7
<1>. QED
  BY <1>1, <1>2, <1>3, <1>4, <1>5, <1>6, <1>7
     DEF Next, Continue, CallInitialized, CallThrows, Receive, Timeout, Exit,
         ServerGarbage, ServerTerminates, vars

\* Events only settle calls: none starts to wait, none goes back to idle.
LEMMA EventsSettle ==
  ASSUME TypeOK,
         \A c \in Calls : pc'[c] = pc[c] \/ \E with \in Endings : pc'[c] = Resolve(pc[c], with)
  PROVE  \A c \in Calls : /\ pc'[c] = "waiting" => pc[c] = "waiting"
                          /\ pc'[c] = "idle" => pc[c] = "idle"
                          /\ pc'[c] \in {"opening", "asking"} => pc[c] = pc'[c]
<1>. SUFFICES ASSUME NEW c \in Calls, NEW with \in Endings, pc'[c] = Resolve(pc[c], with)
              PROVE  /\ pc'[c] = "waiting" => pc[c] = "waiting"
                     /\ pc'[c] = "idle" => pc[c] = "idle"
                     /\ pc'[c] \in {"opening", "asking"} => pc[c] = pc'[c]
  OBVIOUS
<1>1. pc[c] \in Stages
  BY DEF TypeOK, ClientType
<1>2. Resolve(pc[c], with) \notin Awaiting
  BY <1>1, ResolveFacts
<1>3. \/ Resolve(pc[c], with) \notin {"opening", "asking", "idle"}
      \/ Resolve(pc[c], with) = pc[c]
  BY <1>1, ResolveFacts
<1>. QED
  BY <1>2, <1>3 DEF Awaiting

LEMMA ReceiveSettles ==
  ASSUME NEW chunk \in SUBSET stdout, NEW own \in SUBSET requests, NEW garbled, NEW torn,
         Receive(chunk, own, garbled, torn), NEW c \in Calls
  PROVE  pc'[c] = pc[c] \/ \E with \in Endings : pc'[c] = Resolve(pc[c], with)
  BY ReceiveHandles, HandleSettles

LEMMA PipesStep == IInv /\ TypeOK' /\ [Next]_vars => Pipes'
<1>. SUFFICES ASSUME TypeOK, Entries, Pipes, TypeOK', [Next]_vars PROVE Pipes'
  BY DEF IInv
<1>1. CASE \E r \in asked, ok \in BOOLEAN : ServerAnswer(r, ok)
  <2>1. PICK r \in asked, ok \in BOOLEAN : ServerAnswer(r, ok)
    BY <1>1
  <2>. DEFINE new == [id |-> r.id, call |-> r.call, kind |-> r.kind, ok |-> ok]
  <2>2. pc' = pc /\ pending' = pending /\ nextId' = nextId
    BY <2>1 DEF ServerAnswer, clientVars
  <2>3. asked' = asked \ {r} /\ stdout' = stdout \cup {new}
    BY <2>1 DEF ServerAnswer
  <2>4. /\ server.served \subseteq server'.served
        /\ ok /\ r.kind = "document" => r.call \in server'.served
    BY <2>1 DEF ServerAnswer, TypeOK, ServerType
  <2>5. new.id = r.id /\ new.call = r.call /\ new.kind = r.kind /\ new.ok = ok
    OBVIOUS
  <2>6. ASSUME NEW a \in stdout'
        PROVE  /\ a.id < nextId'
               /\ a.ok /\ a.kind = "document" => a.call \in server'.served
               /\ \A p \in pending' : a.id = p[1] => /\ a.call = p[2]
                                                     /\ pc'[p[2]] = "waiting" => a.kind = "document"
    <3>1. CASE a \in stdout
      BY <3>1, <2>2, <2>4 DEF Pipes
    <3>2. CASE a = new
      BY <3>2, <2>2, <2>4, <2>5 DEF Pipes
    <3>. QED
      BY <3>1, <3>2, <2>3
  <2>. QED
    BY <2>2, <2>3, <2>6 DEF Pipes
<1>2. CASE ~ \E r \in asked, ok \in BOOLEAN : ServerAnswer(r, ok)
  <2>. USE ServedKept, <1>2
  <2>1. ASSUME NEW c \in Calls, CallInitialized(c) \/ FinishInitialize(c) \/ OpenDocument(c)
        PROVE  Pipes'
    <3>1. /\ nextId' = nextId /\ pending' = pending
          /\ asked' = asked /\ stdout' = stdout
      BY <2>1 DEF CallInitialized, FinishInitialize, OpenDocument, pipeVars
    <3>2. PICK stage \in {"opening", "asking"} : pc' = [pc EXCEPT ![c] = stage]
      BY <2>1 DEF CallInitialized, FinishInitialize, OpenDocument
    <3>3. \A d \in Calls : /\ pc'[d] = "waiting" => pc[d] = "waiting"
                           /\ pc'[d] = "idle" => pc[d] = "idle"
      BY <3>2 DEF TypeOK, ClientType
    <3>. QED
      BY <3>1, <3>3, PipesKept
  <2>2. ASSUME NEW c \in Calls, CallInitialize(c) PROVE Pipes'
    <3>1. /\ Register(c) /\ pc[c] \in {"idle"} \cup Continuing /\ stdout' = stdout
          /\ pc' = [pc EXCEPT ![c] = "initializing"]
          /\ asked' \in SUBSET (asked \cup {[id |-> nextId, call |-> c, kind |-> "initialize"]})
      BY <2>2 DEF CallInitialize, Ask
    <3>2. "initializing" \in Stages \ {"idle"} /\ "initialize" \in Kinds
      BY DEF Stages, Awaiting, Kinds
    <3>. QED
      BY <3>1, <3>2, PipesRegister
  <2>3. ASSUME NEW c \in Calls, AskDocument(c) PROVE Pipes'
    <3>1. /\ Register(c) /\ pc[c] \in {"idle"} \cup Continuing /\ stdout' = stdout
          /\ pc' = [pc EXCEPT ![c] = "waiting"]
          /\ asked' \in SUBSET (asked \cup {[id |-> nextId, call |-> c, kind |-> "document"]})
      BY <2>3 DEF AskDocument, Ask, Continuing
    <3>. QED
      BY <3>1, PipesRegister DEF Stages, Awaiting, Kinds
  <2>4. ASSUME NEW c \in Calls, CallThrows(c) PROVE Pipes'
    <3>1. /\ Register(c) /\ pc[c] \in {"idle"} \cup Continuing /\ stdout' = stdout
          /\ pc' = [pc EXCEPT ![c] = "rejected"]
          /\ asked' \in SUBSET (asked \cup {[id |-> nextId, call |-> c, kind |-> "document"]})
      BY <2>4 DEF CallThrows, pipeVars
    <3>. QED
      BY <3>1, PipesRegister DEF Stages, Settled, Kinds
  <2>5. ASSUME NEW chunk \in SUBSET stdout, NEW own \in SUBSET requests,
             NEW garbled \in BOOLEAN, NEW torn \in BOOLEAN,
               Receive(chunk, own, garbled, torn)
        PROVE  Pipes'
    <3>1. /\ nextId' = nextId /\ pending' \in SUBSET pending
          /\ asked' = asked /\ stdout' \in SUBSET stdout
      BY <2>5 DEF Receive, Handle
    <3>. QED
      BY <2>5, <3>1, ReceiveSettles, EventsSettle, PipesKept
  <2>6. ASSUME NEW t \in timers, Timeout(t[1], t[2]) PROVE Pipes'
    <3>1. /\ nextId' = nextId /\ pending' \in SUBSET pending
          /\ asked' = asked /\ stdout' = stdout
      BY <2>6 DEF Timeout, pipeVars
    <3>2. \A c \in Calls : pc'[c] = pc[c] \/ \E with \in Endings : pc'[c] = Resolve(pc[c], with)
      BY <2>6 DEF Timeout, TypeOK, ClientType, Endings
    <3>. QED
      BY <3>1, <3>2, EventsSettle, PipesKept
  <2>7. CASE Exit
    <3>1. /\ nextId' = nextId /\ pending' \in SUBSET pending
          /\ asked' = asked /\ stdout' = stdout
      BY <2>7 DEF Exit, pipeVars
    <3>2. \A c \in Calls : pc'[c] = pc[c] \/ \E with \in Endings : pc'[c] = Resolve(pc[c], with)
      BY <2>7 DEF Exit, Endings
    <3>. QED
      BY <3>1, <3>2, EventsSettle, PipesKept
  <2>8. CASE UNCHANGED <<pc, nextId, pending, asked, stdout>>
    BY <2>8, PipesKept
  <2>. QED
    BY <2>1, <2>2, <2>3, <2>4, <2>5, <2>6, <2>7, <2>8
       DEF Next, Continue, Shutdown, ServerRequest, ServerGarbage, ServerTerminates, clientVars,
           pipeVars, vars
<1>. QED
  BY <1>1, <1>2

-----------------------------------------------------------------------------
(* Session: initialized, and the process it speaks of *)

LEMMA SessionStep == IInv /\ TypeOK' /\ [Next]_vars => Session'
<1>. SUFFICES ASSUME TypeOK, Entries, Pipes, Session, TypeOK', [Next]_vars PROVE Session'
  BY DEF IInv
<1>a. \A a \in stdout : a.id \in Nat /\ a.id < nextId
  BY DEF Pipes, TypeOK, PipeType, Answers
<1>b. nextId \in Nat
  BY DEF TypeOK, ClientType
<1>1. ASSUME NEW c \in Calls, CallInitialized(c) PROVE Session'
  BY <1>1 DEF CallInitialized, Session, TypeOK, ClientType, processVars, pipeVars
<1>2. ASSUME NEW c \in Calls, Register(c), pc[c] = "idle", Quiescent,
             NEW stage \in {"initializing", "rejected"}, pc' = [pc EXCEPT ![c] = stage],
             stdout' = stdout, requests' = requests, misled' = misled,
             ~initialized, initialized' = initialized,
             process # "none" => process' = process
      PROVE  Session'
  <2>1. \A d \in Calls : pc'[d] \notin Continuing
    BY <1>2 DEF Quiescent, TypeOK, ClientType, Continuing
  <2>2. \A p \in pending' : p \in pending \/ p = <<nextId, c>>
    BY <1>2, RegisterAdds
  <2>3. process' \in {"none", "exited", "failed"} => process \in {"none", "exited", "failed"}
    BY <1>2
  <2>4. \A a \in stdout : a.id # nextId
    BY <1>a, <1>b
  <2>5. misled' => process' \in Running \cup {"dead", "exited"}
    BY <1>2 DEF Session, Running
  <2>6. process' \in {"none", "failed"} => requests' = {}
    BY <1>2 DEF Session
  <2>. QED
    BY <1>2, <2>1, <2>2, <2>3, <2>4, <2>5, <2>6 DEF Session
<1>3. ASSUME NEW c \in Calls, FinishInitialize(c) \/ OpenDocument(c) PROVE Session'
  <2>1. pc[c] \in Continuing
    BY <1>3 DEF FinishInitialize, OpenDocument, Continuing
  <2>2. process \in Running \cup {"dead", "exited"}
    BY <2>1 DEF Session
  <2>3. process' = process
    <3>1. Start \/ UNCHANGED processVars
      BY <1>3 DEF FinishInitialize, OpenDocument
    <3>. QED
      BY <2>2, <3>1, StartType DEF TypeOK, processVars, Running
  <2>4. process \in Running \cup {"dead"} \/ misled
    BY <2>1 DEF Session
  <2>5. /\ misled' = misled /\ requests' = requests
        /\ stdout' = stdout /\ pending' = pending
    BY <1>3 DEF FinishInitialize, OpenDocument, pipeVars
  <2>6. \A d \in Calls : pc'[d] \in Continuing => pc[d] \in Continuing \/ d = c
    BY <1>3 DEF FinishInitialize, OpenDocument, TypeOK, ClientType
  <2>. QED
    BY <2>2, <2>3, <2>4, <2>5, <2>6 DEF Session, Running
<1>4. ASSUME NEW c \in Calls, AskDocument(c) PROVE Session'
  <2>1. process \in Running \cup {"dead", "exited"}
    BY <1>4 DEF Session, AskDocument, Continuing
  <2>2. process' = process
    BY <1>4, <2>1, StartType DEF AskDocument, TypeOK, Running
  <2>3. misled' = misled /\ requests' = requests /\ stdout' = stdout /\ initialized' = initialized
    BY <1>4 DEF AskDocument
  <2>4. \A d \in Calls : pc'[d] \in Continuing => pc[d] \in Continuing
    BY <1>4 DEF AskDocument, TypeOK, ClientType, Continuing
  <2>5. \A p \in pending' : p \in pending \/ p = <<nextId, c>>
    BY <1>4, RegisterAdds DEF AskDocument
  <2>6. \A a \in stdout : a.id # nextId
    BY <1>a, <1>b
  <2>. QED
    BY <2>1, <2>2, <2>3, <2>4, <2>5, <2>6 DEF Session, Running
<1>5. ASSUME NEW chunk \in SUBSET stdout, NEW own \in SUBSET requests,
             NEW garbled \in BOOLEAN, NEW torn \in BOOLEAN,
             Receive(chunk, own, garbled, torn)
      PROVE  Session'
  <2>1. PICK messages \in SUBSET stdout, misread \in SUBSET requests : Handle(messages, misread)
    BY <1>5, ReceiveHandles
  <2>2. /\ process' = process /\ initialized' = initialized
        /\ stdout' \in SUBSET stdout /\ requests' \in SUBSET requests
    BY <1>5 DEF Receive, processVars
  <2>3. pending' \in SUBSET pending /\ (misled => misled')
    BY <2>1 DEF Handle
  <2>4. misled' => process \in Running \cup {"dead", "exited"}
    <3>1. CASE misled
      BY <3>1 DEF Session
    <3>2. CASE ~misled /\ misled'
      <4>1. misread # {}
        BY <2>1, <3>2 DEF Handle, Misread
      <4>. QED
        BY <4>1 DEF Session, TypeOK, ProcessType, Running
    <3>. QED
      BY <3>1, <3>2
  <2>5. ASSUME NEW c \in Calls, pc'[c] \in Continuing
        PROVE  process \in Running \cup {"dead"} \/ misled'
    <3>1. CASE Mine(c, messages) = {} /\ ~Misread(c, misread)
      BY <2>1, <2>3, <2>5, <3>1 DEF Handle, Session
    <3>2. CASE Misread(c, misread)
      <4>1. pc'[c] = Resolve(pc[c], With(c, messages, misread))
        BY <2>1, <3>2 DEF Handle
      <4>2. pc[c] \notin Continuing /\ pc[c] \in Stages
        BY <1>5 DEF Receive, Quiescent, TypeOK, ClientType
      <4>3. pc[c] = "initializing"
        BY <2>5, <4>1, <4>2, WithType, ResolveFacts
      <4>. QED
        BY <2>1, <3>2, <4>3 DEF Handle
    <3>3. CASE Mine(c, messages) # {}
      <4>1. PICK m \in stdout : <<m.id, c>> \in pending
        BY <3>3 DEF Mine
      <4>2. m.id = <<m.id, c>>[1]
        OBVIOUS
      <4>3. process \notin {"none", "exited", "failed"}
        BY <4>1, <4>2 DEF Session
      <4>. QED
        BY <4>3 DEF TypeOK, ProcessType, Running
    <3>. QED
      BY <3>1, <3>2, <3>3
  <2>. QED
    BY <2>2, <2>3, <2>4, <2>5 DEF Session
<1>6. ASSUME NEW t \in timers, Timeout(t[1], t[2]) PROVE Session'
  <2>1. /\ process' = process /\ initialized' = initialized /\ misled' = misled
        /\ stdout' = stdout /\ requests' = requests /\ pending' \in SUBSET pending
    BY <1>6 DEF Timeout, processVars, pipeVars
  <2>2. ASSUME NEW c \in Calls PROVE pc'[c] \in Continuing => pc[c] \in Continuing
    <3>1. pc'[c] = pc[c] \/ pc'[c] = Resolve(pc[c], "error")
      BY <1>6 DEF Timeout, TypeOK, ClientType
    <3>2. Resolve(pc[c], "error") \in {pc[c], "rejected"}
      BY ResolveFacts DEF TypeOK, ClientType, Endings
    <3>. QED
      BY <3>1, <3>2 DEF Continuing
  <2>. QED
    BY <2>1, <2>2 DEF Session
<1>7. CASE Exit
  <2>1. /\ initialized' = FALSE /\ misled' = FALSE /\ pending' = {}
        /\ process' = "exited"
    BY <1>7 DEF Exit, EndSession
  <2>2. ASSUME NEW c \in Calls PROVE pc'[c] \notin Continuing
    <3>1. pc'[c] = pc[c] \/ pc'[c] = Resolve(pc[c], "error")
      BY <1>7 DEF Exit
    <3>2. Resolve(pc[c], "error") \in {pc[c], "rejected"}
      BY ResolveFacts DEF TypeOK, ClientType, Endings
    <3>3. pc[c] \notin Continuing
      BY <1>7 DEF Exit, Quiescent
    <3>. QED
      BY <3>1, <3>2, <3>3 DEF Continuing
  <2>. QED
    BY <2>1, <2>2 DEF Session
<1>8. CASE Shutdown
  BY <1>8 DEF Shutdown, Kill, EndSession, Quiescent, Session, pipeVars
<1>14. ASSUME NEW id \in OwnIds, ServerRequest(id) PROVE Session'
  BY <1>14 DEF ServerRequest, Session, Running, clientVars, processVars
<1>9. ASSUME NEW r \in asked, NEW ok \in BOOLEAN, ServerAnswer(r, ok) PROVE Session'
  BY <1>9 DEF ServerAnswer, Session, Running, clientVars, processVars
<1>10. CASE ServerTerminates
  BY <1>10 DEF ServerTerminates, Session, Running, clientVars, pipeVars
<1>11. CASE UNCHANGED <<pc, initialized, misled, process, stdout, requests, pending>>
  BY <1>11 DEF Session
<1>12. ASSUME NEW c \in Calls, CallInitialize(c) PROVE Session'
  BY <1>2, <1>12, StartType DEF CallInitialize, TypeOK
<1>13. ASSUME NEW c \in Calls, CallThrows(c) PROVE Session'
  BY <1>2, <1>13 DEF CallThrows, processVars, pipeVars
<1>. QED
  BY <1>1, <1>3, <1>4, <1>5, <1>6, <1>7, <1>8, <1>9, <1>10, <1>11, <1>12, <1>13, <1>14
     DEF Next, Continue, ServerGarbage, clientVars, processVars, pipeVars, vars

-----------------------------------------------------------------------------
(* Opened: what the server was told *)

\* A step of a call that has a continuation keeps the process it found.
LEMMA ContinueKeepsProcess ==
  ASSUME TypeOK, Session, NEW c \in Calls, Continue(c)
  PROVE  process' = process /\ process \in Running \cup {"dead", "exited"}
<1>1. pc[c] \in Continuing
  BY DEF Continue, FinishInitialize, OpenDocument, AskDocument, Continuing
<1>2. process \in Running \cup {"dead", "exited"}
  BY <1>1 DEF Session
<1>3. Start \/ UNCHANGED processVars
  BY DEF Continue, FinishInitialize, OpenDocument, AskDocument
<1>. QED
  BY <1>2, <1>3, StartType DEF TypeOK, processVars, Running

LEMMA OpenedStep == IInv /\ TypeOK' /\ [Next]_vars => Opened'
<1>. SUFFICES ASSUME TypeOK, Session, Opened, TypeOK', [Next]_vars PROVE Opened'
  BY DEF IInv
<1>. USE DEF TypeOK, ServerType
<1>1. ASSUME NEW c \in Calls, CallInitialized(c) PROVE Opened'
  BY <1>1 DEF CallInitialized, Opened, ClientType, processVars
<1>2. ASSUME NEW c \in Calls, CallInitialize(c) PROVE Opened'
  <2>1. /\ server'.early = server.early /\ server'.opened = server.opened
        /\ server'.exit = server.exit /\ server'.initialized = server.initialized
        /\ server' = server \/ process' \in Running
    BY <1>2 DEF CallInitialize, Tell
  <2>2. openDocuments' = openDocuments /\ initialized' = FALSE
    BY <1>2 DEF CallInitialize, ClientType
  <2>3. \A d \in Calls : pc'[d] \notin {"opening", "asking"}
    BY <1>2 DEF CallInitialize, Quiescent, Continuing, ClientType
  <2>4. process = "none" \/ process' = process
    BY <1>2, StartType DEF CallInitialize
  <2>5. CASE process = "none"
    BY <2>1, <2>2, <2>3, <2>5 DEF Opened, NewServer, Running
  <2>6. CASE process # "none"
    BY <2>1, <2>2, <2>3, <2>4, <2>6 DEF Opened
  <2>. QED
    BY <2>5, <2>6
<1>3. ASSUME NEW c \in Calls, CallThrows(c) PROVE Opened'
  BY <1>3 DEF CallThrows, Opened, ClientType, processVars
<1>4. ASSUME NEW c \in Calls, FinishInitialize(c) PROVE Opened'
  <2>1. process' = process /\ process \in Running \cup {"dead", "exited"}
    BY <1>4, ContinueKeepsProcess DEF Continue
  <2>2. /\ server'.early = server.early /\ server'.opened = server.opened
        /\ server'.exit = server.exit
        /\ process \in Running => server'.initialized > 0
    BY <1>4, <2>1 DEF FinishInitialize, Tell
  <2>3. \A d \in Calls : pc'[d] = "asking" => pc[d] = "asking"
    BY <1>4 DEF FinishInitialize, ClientType
  <2>4. openDocuments' = openDocuments
    BY <1>4 DEF FinishInitialize
  <2>. QED
    BY <2>1, <2>2, <2>3, <2>4 DEF Opened, Running
<1>5. ASSUME NEW c \in Calls, OpenDocument(c) PROVE Opened'
  <2>1. process' = process /\ process \in Running \cup {"dead", "exited"}
    BY <1>5, ContinueKeepsProcess DEF Continue
  <2>2. initialized' = initialized /\ pc' = [pc EXCEPT ![c] = "asking"] /\ pc[c] = "opening"
    BY <1>5 DEF OpenDocument
  <2>3. DocOf[c] \in Docs
    BY DocOfAssumption
  <2>4. CASE DocOf[c] \in openDocuments
    BY <1>5, <2>1, <2>2, <2>4 DEF OpenDocument, Opened, ClientType, Running
  <2>5. CASE DocOf[c] \notin openDocuments
    <3>1. /\ openDocuments' = openDocuments \cup {DocOf[c]}
          /\ server' = IF process \in Running THEN [server EXCEPT !.opened[DocOf[c]] = @ + 1]
                                              ELSE server
      BY <1>5, <2>1, <2>5 DEF OpenDocument, Tell
    <3>2. CASE process \in Running
      <4>1. /\ server'.early = server.early /\ server'.exit = server.exit
            /\ server'.initialized = server.initialized
            /\ server'.opened = [server.opened EXCEPT ![DocOf[c]] = @ + 1]
        BY <3>1, <3>2
      <4>2. ~server.exit => server.opened[DocOf[c]] = 0
        BY <2>3, <2>5, <3>2 DEF Opened
      <4>3. \A d \in Docs : server.opened[d] \in Nat
        OBVIOUS
      <4>4. \A d \in openDocuments' : server'.opened[d] > 0
        BY <2>3, <3>1, <3>2, <4>1, <4>3 DEF Opened, ClientType
      <4>5. ~server'.exit => \A d \in Docs : server'.opened[d] <= 1
        BY <2>3, <4>1, <4>2, <4>3 DEF Opened
      <4>6. ~server'.exit => \A d \in Docs \ openDocuments' : server'.opened[d] = 0
        BY <2>3, <3>1, <3>2, <4>1, <4>3 DEF Opened
      <4>7. \A d \in Calls : pc'[d] = "asking" => DocOf[d] \in openDocuments'
        BY <2>2, <3>1 DEF Opened, ClientType
      <4>8. \A d \in Calls : pc'[d] \in {"opening", "asking"} => pc[d] \in {"opening", "asking"}
        BY <2>2 DEF ClientType
      <4>. QED
        BY <2>1, <2>2, <3>2, <4>1, <4>4, <4>5, <4>6, <4>7, <4>8 DEF Opened, Running
    <3>3. CASE process \notin Running
      <4>1. \A d \in Calls : pc'[d] = "asking" => DocOf[d] \in openDocuments'
        BY <2>2, <3>1 DEF Opened, ClientType
      <4>. QED
        BY <2>1, <3>1, <3>3, <4>1 DEF Opened, Running
    <3>. QED
      BY <3>2, <3>3
  <2>. QED
    BY <2>4, <2>5
<1>6. ASSUME NEW c \in Calls, AskDocument(c) PROVE Opened'
  <2>1. process' = process /\ process \in Running \cup {"dead", "exited"}
    BY <1>6, ContinueKeepsProcess DEF Continue
  <2>2. process \in Running => server.initialized > 0 /\ server.opened[DocOf[c]] > 0
    BY <1>6 DEF AskDocument, Opened
  <2>3. server' = server
    BY <1>6, <2>1, <2>2 DEF AskDocument, Tell
  <2>4. /\ openDocuments' = openDocuments /\ initialized' = initialized
        /\ pc' = [pc EXCEPT ![c] = "waiting"]
    BY <1>6 DEF AskDocument
  <2>. QED
    BY <2>1, <2>3, <2>4 DEF Opened, ClientType
<1>7. ASSUME \A c \in Calls : pc'[c] = pc[c] \/ \E with \in Endings : pc'[c] = Resolve(pc[c], with),
             UNCHANGED <<openDocuments, process, server>>,
             initialized' => initialized
      PROVE  Opened'
  <2>1. \A c \in Calls : pc'[c] \in {"opening", "asking"} => pc[c] = pc'[c]
    BY <1>7, EventsSettle
  <2>. QED
    BY <1>7, <2>1 DEF Opened
<1>8. ASSUME NEW chunk \in SUBSET stdout, NEW own \in SUBSET requests,
             NEW garbled \in BOOLEAN, NEW torn \in BOOLEAN,
             Receive(chunk, own, garbled, torn)
      PROVE  Opened'
  <2>1. UNCHANGED <<openDocuments, process, server, initialized>>
    BY <1>8 DEF Receive, processVars
  <2>. QED
    BY <1>7, <1>8, <2>1, ReceiveSettles
<1>9. ASSUME NEW t \in timers, Timeout(t[1], t[2]) PROVE Opened'
  <2>1. \A c \in Calls : pc'[c] = pc[c] \/ \E with \in Endings : pc'[c] = Resolve(pc[c], with)
    BY <1>9 DEF Timeout, ClientType, Endings
  <2>2. UNCHANGED <<openDocuments, process, server, initialized>>
    BY <1>9 DEF Timeout, processVars
  <2>. QED
    BY <1>7, <2>1, <2>2
<1>10. CASE Exit
  <2>1. /\ server' = server /\ openDocuments' = openDocuments /\ process' = "exited"
    BY <1>10 DEF Exit
  <2>2. \A c \in Calls : pc'[c] = pc[c] \/ \E with \in Endings : pc'[c] = Resolve(pc[c], with)
    BY <1>10 DEF Exit, Endings
  <2>3. \A c \in Calls : pc'[c] = "asking" => pc[c] = pc'[c]
    BY <2>2, EventsSettle
  <2>. QED
    BY <2>1, <2>3 DEF Opened, Running
<1>11. CASE Shutdown
  <2>1. /\ openDocuments' = {} /\ initialized' = FALSE
        /\ \A c \in Calls : pc'[c] \notin {"opening", "asking"}
        /\ process' = IF process = "up" THEN "killed" ELSE process
    BY <1>11 DEF Shutdown, EndSession, Kill, Quiescent, Continuing
  <2>2. /\ server'.early = server.early /\ server'.opened = server.opened
        /\ process' \in Running => server'.exit
        /\ process' \notin Running => server' = server
        /\ server.exit => server'.exit
    BY <1>11 DEF Shutdown, Kill, Tell
  <2>. QED
    BY <2>1, <2>2 DEF Opened, Running
<1>12. ASSUME NEW r \in asked, NEW ok \in BOOLEAN, ServerAnswer(r, ok) PROVE Opened'
  <2>1. /\ server'.early = server.early /\ server'.opened = server.opened
        /\ server'.exit = server.exit /\ server'.initialized = server.initialized
    BY <1>12 DEF ServerAnswer
  <2>2. process' = process /\ process # "none"
    BY <1>12 DEF ServerAnswer, processVars, Running
  <2>. QED
    BY <1>12, <2>1, <2>2 DEF ServerAnswer, Opened, clientVars
<1>13. CASE ServerTerminates
  BY <1>13 DEF ServerTerminates, Opened, Running, clientVars
<1>15. ASSUME NEW id \in OwnIds, ServerRequest(id) PROVE Opened'
  <2>1. /\ server'.early = server.early /\ server'.opened = server.opened
        /\ server'.exit = server.exit /\ server'.initialized = server.initialized
    BY <1>15 DEF ServerRequest
  <2>2. process' = process /\ process # "none"
    BY <1>15 DEF ServerRequest, processVars, Running
  <2>. QED
    BY <1>15, <2>1, <2>2 DEF ServerRequest, Opened, clientVars
<1>14. CASE UNCHANGED <<clientVars, processVars, server>>
  BY <1>14 DEF Opened, clientVars, processVars
<1>. QED
  BY <1>1, <1>2, <1>3, <1>4, <1>5, <1>6, <1>8, <1>9, <1>10, <1>11, <1>12, <1>13, <1>14,
     <1>15 DEF Next, Continue, ServerGarbage, vars

-----------------------------------------------------------------------------
(* The inductive invariant and what follows from it *)

LEMMA InitIInv == Init => IInv
<1>. SUFFICES ASSUME Init PROVE IInv
  OBVIOUS
<1>1. Entries
  BY DEF Init, Entries, Awaiting
<1>2. Pipes
  BY DEF Init, Pipes
<1>3. Session
  BY DEF Init, Session, Continuing
<1>4. Opened
  BY DEF Init, Opened, NewServer, Running
<1>. QED
  BY <1>1, <1>2, <1>3, <1>4, InitType DEF IInv

LEMMA IInvStep == IInv /\ [Next]_vars => IInv'
<1>. SUFFICES ASSUME IInv, [Next]_vars PROVE IInv'
  OBVIOUS
<1>1. TypeOK'
  BY TypeStep DEF IInv
<1>. QED
  BY <1>1, EntriesStep, PipesStep, SessionStep, OpenedStep DEF IInv

LEMMA Invariance == Spec => []IInv
  BY InitIInv, IInvStep, PTL DEF Spec

\* Every call that waits keeps exactly one pending entry with an armed timer,
\* whatever start(), shutdown(), exits and late answers come in between.
THEOREM CallsAreNeverLost == Spec => []NoLostCall
<1>1. IInv => NoLostCall
  <2>. SUFFICES ASSUME IInv, NEW c \in Calls, pc[c] \in Awaiting
                PROVE  \E p \in pending \cap timers : \A q \in pending : q[2] = c <=> q = p
    BY DEF NoLostCall
  <2>1. PICK p \in pending : p[2] = c
    BY DEF IInv, Entries
  <2>2. p \in timers /\ \A q \in pending : q[2] = c <=> q = p
    BY <2>1 DEF IInv, Entries
  <2>. QED
    BY <2>2
<1>. QED
  BY <1>1, Invariance, PTL

\* The client is initialized only while the exit event of its process is
\* still to come, also when answers are read after the exit, unless a request
\* of the server's own, read after the exit, was taken for an answer.
THEOREM InitializedMeansAlive == Spec => []InitializedServerAlive
<1>1. IInv => InitializedServerAlive
  BY DEF IInv, Session, InitializedServerAlive
<1>. QED
  BY <1>1, Invariance, PTL

\* Request ids are never shared, and no answer in the pipe can settle the
\* request of another call.
THEOREM AnswersReachTheirCall == Spec => []AnswersBelong
<1>1. IInv => AnswersBelong
  BY DEF IInv, Entries, Pipes, AnswersBelong
<1>. QED
  BY <1>1, Invariance, PTL

\* A document request never overtakes `initialized' or the didOpen of its
\* document.
THEOREM OpenPrecedesAsk == Spec => []OpenBeforeAsk
<1>1. IInv => OpenBeforeAsk
  BY DEF IInv, Opened, OpenBeforeAsk
<1>. QED
  BY <1>1, Invariance, PTL

\* Racing calls open a document once per session.
THEOREM DocumentsOpenOnce == Spec => []OpenedOnce
<1>1. IInv => OpenedOnce
  <2>. SUFFICES ASSUME IInv, NEW d \in Docs, server.opened[d] > 1, ~server.exit PROVE FALSE
    BY DEF OpenedOnce, IInv, TypeOK, ServerType
  <2>. QED
    BY DEF IInv, Opened, TypeOK, ServerType
<1>. QED
  BY <1>1, Invariance, PTL

-----------------------------------------------------------------------------
(* Refinement: every step of the client is a step of AssistCalls, or none *)

LEMMA SettleStep ==
  ASSUME TypeOK, Entries, server'.served = server.served,
         NEW read \in SUBSET requests, requests' = requests \ read,
         \A c \in Calls : \/ pc'[c] = pc[c]
                          \/ \E with \in Endings : pc'[c] = Resolve(pc[c], with),
         \A c \in Calls : pc[c] = "waiting" /\ pc'[c] = "answered" => c \in server.served,
         \A c \in Calls : pc[c] = "waiting" /\ pc'[c] = "blank" => Misread(c, read)
  PROVE  Abstract!Next
<1>. DEFINE answered == {c \in Calls : pc[c] = "waiting" /\ pc'[c] = "answered"}
            blank == {c \in Calls : pc[c] = "waiting" /\ pc'[c] = "blank"}
            rejected == {c \in Calls : pc[c] \in Awaiting /\ pc'[c] = "rejected"}
            price == [c \in blank |-> CHOOSE id \in read : <<id, c>> \in pending]
<1>1. ASSUME NEW c \in Calls
      PROVE  Outcome'[c] = IF c \in answered THEN "answered"
                           ELSE IF c \in blank THEN "blank"
                           ELSE IF c \in rejected THEN "rejected" ELSE Outcome[c]
  <2>1. pc[c] \in Stages
    BY DEF TypeOK, ClientType
  <2>2. \/ pc'[c] = pc[c]
        \/ pc[c] = "initializing" /\ pc'[c] = "initReply"
        \/ pc[c] = "waiting" /\ pc'[c] = "answered"
        \/ pc[c] = "waiting" /\ pc'[c] = "blank"
        \/ pc[c] \in Awaiting /\ pc'[c] = "rejected"
    BY <2>1 DEF Resolve, Endings, Stages, Awaiting, Continuing, Settled
  <2>3. Outcome'[c] = (IF pc'[c] \in Awaiting \cup Continuing THEN "pending" ELSE pc'[c])
    BY DEF Outcome
  <2>4. Outcome[c] = (IF pc[c] \in Awaiting \cup Continuing THEN "pending" ELSE pc[c])
    BY DEF Outcome
  <2>. QED
    BY <2>2, <2>3, <2>4 DEF Awaiting, Continuing
<1>2. Outcome' = [c \in Calls |-> IF c \in answered THEN "answered"
                                  ELSE IF c \in blank THEN "blank"
                                  ELSE IF c \in rejected THEN "rejected" ELSE Outcome[c]]
  BY <1>1 DEF Outcome
<1>3. \A c \in answered \cup blank \cup rejected : Outcome[c] = "pending"
  BY DEF Outcome, Awaiting
<1>4. \A c \in blank : price[c] \in read /\ <<price[c], c>> \in pending
  BY DEF Misread
<1>5. price \in [blank -> requests]
  BY <1>4
<1>6. \A c, d \in blank : price[c] = price[d] => c = d
  BY <1>4 DEF Entries
<1>7. \A c \in blank : price[c] \notin requests'
  BY <1>4
<1>8. Abstract!Settle(answered, blank, rejected)
  <2>. HIDE DEF answered, blank, rejected, price
  <2>1. answered \subseteq server.served
    BY DEF answered
  <2>2. requests' \subseteq requests
    OBVIOUS
  <2>. QED
    BY <1>2, <1>3, <1>5, <1>6, <1>7, <2>1, <2>2 DEF Abstract!Settle
<1>. QED
  BY <1>8 DEF Abstract!Next

LEMMA RefinementStep == IInv /\ [Next]_vars => [Abstract!Next]_(Abstract!vars)
<1>. SUFFICES ASSUME TypeOK, Entries, Pipes, [Next]_vars
              PROVE  [Abstract!Next]_(Abstract!vars)
  BY DEF IInv
<1>1. ASSUME NEW r \in asked, NEW ok \in BOOLEAN, ServerAnswer(r, ok)
      PROVE  [Abstract!Next]_(Abstract!vars)
  <2>1. Outcome' = Outcome /\ requests' = requests
    BY <1>1 DEF ServerAnswer, Outcome, clientVars
  <2>2. r.call \in Calls /\ pc[r.call] # "idle"
    BY DEF TypeOK, PipeType, Requests, Pipes
  <2>3. CASE ok /\ r.kind = "document"
    <3>1. server'.served = server.served \cup {r.call}
      BY <1>1, <2>3 DEF ServerAnswer, TypeOK, ServerType
    <3>2. Outcome[r.call] # "idle"
      BY <2>2 DEF Outcome
    <3>3. Abstract!Serve(r.call)
      BY <2>1, <3>1, <3>2 DEF Abstract!Serve
    <3>. QED
      BY <2>2, <3>3 DEF Abstract!Next
  <2>4. CASE ~(ok /\ r.kind = "document")
    BY <1>1, <2>1, <2>4 DEF ServerAnswer, Abstract!vars
  <2>. QED
    BY <2>3, <2>4
<1>2. CASE ~ \E r \in asked, ok \in BOOLEAN : ServerAnswer(r, ok)
  <2>0. server'.served = server.served
    BY <1>2, ServedKept
  <2>1. ASSUME NEW c \in Calls, pc[c] = "idle",
               NEW stage \in {"opening", "initializing", "rejected"},
               pc' = [pc EXCEPT ![c] = stage], requests' = requests
        PROVE  [Abstract!Next]_(Abstract!vars)
    <3>. DEFINE first == IF stage = "rejected" THEN "rejected" ELSE "pending"
    <3>1. Outcome[c] = "idle" /\ Outcome' = [Outcome EXCEPT ![c] = first]
      BY <2>1 DEF Outcome, TypeOK, ClientType, Awaiting, Continuing
    <3>2. Abstract!Begin(c)
      BY <2>0, <2>1, <3>1 DEF Abstract!Begin
    <3>. QED
      BY <3>2 DEF Abstract!Next
  <2>2. ASSUME NEW c \in Calls, pc[c] \in Continuing,
               NEW stage \in {"opening", "asking", "waiting"}, pc' = [pc EXCEPT ![c] = stage],
               requests' = requests
        PROVE  [Abstract!Next]_(Abstract!vars)
    <3>1. \A d \in Calls : Outcome'[d] = Outcome[d]
      BY <2>2 DEF Outcome, TypeOK, ClientType, Awaiting, Continuing
    <3>2. Outcome' = Outcome
      BY <3>1 DEF Outcome
    <3>. QED
      BY <2>0, <2>2, <3>2 DEF Abstract!vars
  <2>3. ASSUME NEW chunk \in SUBSET stdout, NEW own \in SUBSET requests,
             NEW garbled \in BOOLEAN, NEW torn \in BOOLEAN,
               Receive(chunk, own, garbled, torn)
        PROVE  [Abstract!Next]_(Abstract!vars)
    <3>1. PICK messages \in SUBSET stdout, misread \in SUBSET own : Handle(messages, misread)
      BY <2>3 DEF Receive
    <3>2. ASSUME NEW c \in Calls, pc[c] = "waiting", pc'[c] # pc[c]
          PROVE  pc'[c] = Resolve("waiting", With(c, messages, misread))
      BY <3>1, <3>2 DEF Handle
    <3>3. ASSUME NEW c \in Calls, pc[c] = "waiting", pc'[c] = "answered"
          PROVE  c \in server.served
      <4>1. With(c, messages, misread) = "result"
        BY <3>2, <3>3, WithType, ResolveFacts DEF Stages, Awaiting
      <4>2. PICK m \in Mine(c, messages) : m.ok
        BY <4>1 DEF With
      <4>3. m.call = c /\ m.kind = "document"
        <5>1. m \in stdout /\ <<m.id, c>> \in pending
          BY DEF Mine
        <5>. QED
          BY <3>3, <5>1 DEF Pipes
      <4>. QED
        BY <4>2, <4>3 DEF Pipes, Mine
    <3>4. ASSUME NEW c \in Calls, pc[c] = "waiting", pc'[c] = "blank"
          PROVE  Misread(c, own)
      <4>1. With(c, messages, misread) = "nothing"
        BY <3>2, <3>4, WithType, ResolveFacts DEF Stages, Awaiting
      <4>. QED
        BY <4>1 DEF With, Misread
    <3>5. requests' = requests \ own
      BY <2>3 DEF Receive
    <3>. QED
      BY <2>0, <2>3, <3>3, <3>4, <3>5, ReceiveSettles, SettleStep
  <2>4. ASSUME \A c \in Calls : pc'[c] = pc[c] \/ pc'[c] = Resolve(pc[c], "error"),
               requests' = requests
        PROVE  [Abstract!Next]_(Abstract!vars)
    <3>1. \A c \in Calls : pc[c] = "waiting" => pc'[c] \notin {"answered", "blank"}
      BY <2>4 DEF Resolve, Awaiting
    <3>2. {} \in SUBSET requests /\ requests' = requests \ {}
      BY <2>4
    <3>. QED
      BY <2>0, <2>4, <3>1, <3>2, SettleStep DEF Endings
  <2>5. ASSUME NEW t \in timers, Timeout(t[1], t[2]) PROVE [Abstract!Next]_(Abstract!vars)
    BY <2>4, <2>5 DEF Timeout, TypeOK, ClientType, pipeVars
  <2>6. CASE Exit
    BY <2>4, <2>6 DEF Exit, pipeVars
  <2>7. CASE UNCHANGED <<pc, requests>>
    <3>1. Outcome' = Outcome
      BY <2>7 DEF Outcome
    <3>. QED
      BY <2>0, <2>7, <3>1 DEF Abstract!vars
  <2>10. ASSUME NEW id \in OwnIds, ServerRequest(id) PROVE [Abstract!Next]_(Abstract!vars)
    <3>1. Outcome' = Outcome /\ requests' = requests \cup {id}
      BY <2>10 DEF ServerRequest, Outcome, clientVars
    <3>2. Abstract!Stray(id)
      BY <2>0, <3>1 DEF Abstract!Stray
    <3>. QED
      BY <3>2 DEF Abstract!Next
  <2>8. ASSUME NEW c \in Calls, CallInitialized(c) \/ CallInitialize(c) \/ CallThrows(c)
        PROVE  [Abstract!Next]_(Abstract!vars)
    BY <2>1, <2>8 DEF CallInitialized, CallInitialize, CallThrows, pipeVars
  <2>9. ASSUME NEW c \in Calls, Continue(c) PROVE [Abstract!Next]_(Abstract!vars)
    BY <2>2, <2>9 DEF Continue, FinishInitialize, OpenDocument, AskDocument, Continuing, pipeVars
  <2>. QED
    BY <1>2, <2>3, <2>5, <2>6, <2>7, <2>8, <2>9, <2>10
       DEF Next, Shutdown, ServerGarbage, ServerTerminates, clientVars, pipeVars, vars
<1>. QED
  BY <1>1, <1>2

\* The client implements the safety part of its callers' contract, whatever
\* requests the server makes of its own: a call is settled once, answered only
\* with a result the server produced for it, and comes back blank only at the
\* price of one of the server's own requests.
THEOREM ClientImplementsCalls == Spec => Abstract!Init /\ [][Abstract!Next]_(Abstract!vars)
<1>1. Init => Abstract!Init
  BY DEF Init, NewServer, Outcome, Awaiting, Continuing, Abstract!Init
<1>. QED
  BY <1>1, RefinementStep, Invariance, PTL DEF Spec

=============================================================================
