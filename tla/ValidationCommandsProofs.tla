----------------------- MODULE ValidationCommandsProofs ----------------------
(***************************************************************************)
(* Proofs about ValidationCommands, for any set of runs and any cache      *)
(* size.                                                                   *)
(***************************************************************************)
EXTENDS ValidationCommands, TLAPS

\* What is remembered besides the cache is the newest result.
RecentIsNewest == recent = IF log = <<>> THEN None ELSE log[1]

\* Only runs that came to their end have a result.
ResultsAreSettled == \A i \in 1 .. Len(log) : run[log[i].run] = "settled"

IInv ==
  /\ TypeOK
  /\ CacheHoldsLatest
  /\ RecentIsNewest
  /\ ResultsAreSettled
  /\ OutputNamesItsRun

-----------------------------------------------------------------------------
(* The cache *)

\* Newest keeps a prefix, of MaxSize entries at most.
LEMMA NewestPrefix ==
  ASSUME NEW s \in Seq(Entry)
  PROVE  /\ Newest(s) \in Seq(Entry)
         /\ Len(Newest(s)) = IF Len(s) < MaxSize THEN Len(s) ELSE MaxSize
         /\ \A i \in 1 .. Len(Newest(s)) : Newest(s)[i] = s[i]
<1> DEFINE k == IF Len(s) < MaxSize THEN Len(s) ELSE MaxSize
<1>1. MaxSize \in Nat /\ Len(s) \in Nat
  BY MaxSizeAssumption
<1>2. k \in 0 .. Len(s)
  BY <1>1
<1>3. Newest(s) = SubSeq(s, 1, k)
  BY DEF Newest
<1>4. \A i \in 1 .. k : s[i] \in Entry
  BY <1>2
<1> QED BY <1>2, <1>3, <1>4

\* Putting an entry before a sequence.
LEMMA Cons ==
  ASSUME NEW s \in Seq(Entry), NEW e \in Entry
  PROVE  /\ <<e>> \o s \in Seq(Entry)
         /\ Len(<<e>> \o s) = Len(s) + 1
         /\ (<<e>> \o s)[1] = e
         /\ \A i \in 1 .. Len(s) : (<<e>> \o s)[i + 1] = s[i]
         /\ <<e>> \o s # <<>>
<1>1. <<e>> \in Seq(Entry) /\ Len(<<e>>) = 1 /\ <<e>>[1] = e
  OBVIOUS
<1>2. /\ <<e>> \o s \in Seq(Entry)
      /\ Len(<<e>> \o s) = Len(s) + 1
      /\ (<<e>> \o s)[1] = e
  BY <1>1
<1>3. \A i \in 1 .. Len(s) : (<<e>> \o s)[i + 1] = s[i]
  BY <1>1
<1>4. <<e>> \o s # <<>>
  BY <1>2
<1> QED BY <1>2, <1>3, <1>4

\* Adding to the kept prefix gives the prefix of adding to everything.
LEMMA NewestCons ==
  ASSUME NEW s \in Seq(Entry), NEW e \in Entry
  PROVE  Newest(<<e>> \o Newest(s)) = Newest(<<e>> \o s)
<1> DEFINE t == Newest(s)
           a == <<e>> \o t
           b == <<e>> \o s
<1>1. /\ t \in Seq(Entry)
      /\ Len(t) = IF Len(s) < MaxSize THEN Len(s) ELSE MaxSize
      /\ \A i \in 1 .. Len(t) : t[i] = s[i]
  BY NewestPrefix
<1>2. /\ a \in Seq(Entry)
      /\ Len(a) = Len(t) + 1
      /\ a[1] = e
      /\ \A i \in 1 .. Len(t) : a[i + 1] = t[i]
  BY <1>1, Cons
<1>3. /\ b \in Seq(Entry)
      /\ Len(b) = Len(s) + 1
      /\ b[1] = e
      /\ \A i \in 1 .. Len(s) : b[i + 1] = s[i]
  BY Cons
<1> HIDE DEF a, b, t
<1>4. MaxSize \in Nat \ {0} /\ Len(s) \in Nat /\ Len(t) \in Nat /\ Len(t) <= Len(s)
  BY <1>1, MaxSizeAssumption
<1>5. /\ Newest(a) \in Seq(Entry)
      /\ Len(Newest(a)) = IF Len(a) < MaxSize THEN Len(a) ELSE MaxSize
      /\ \A i \in 1 .. Len(Newest(a)) : Newest(a)[i] = a[i]
  BY <1>2, NewestPrefix
<1>6. /\ Newest(b) \in Seq(Entry)
      /\ Len(Newest(b)) = IF Len(b) < MaxSize THEN Len(b) ELSE MaxSize
      /\ \A i \in 1 .. Len(Newest(b)) : Newest(b)[i] = b[i]
  BY <1>3, NewestPrefix
<1>7. Len(Newest(a)) = Len(Newest(b))
  BY <1>1, <1>2, <1>3, <1>4, <1>5, <1>6
<1>8. ASSUME NEW i \in 1 .. Len(Newest(a))
      PROVE  Newest(a)[i] = Newest(b)[i]
  <2>1. Newest(a)[i] = a[i] /\ Newest(b)[i] = b[i]
    BY <1>5, <1>6, <1>7
  <2>2. i \in Nat /\ i >= 1 /\ i <= Len(t) + 1
    BY <1>2, <1>4, <1>5
  <2>3. CASE i = 1
    BY <2>1, <2>3, <1>2, <1>3
  <2>4. CASE i # 1
    <3>1. i - 1 \in 1 .. Len(t) /\ i - 1 \in 1 .. Len(s) /\ (i - 1) + 1 = i
      BY <2>2, <2>4, <1>4
    <3>2. a[i] = t[i - 1] /\ b[i] = s[i - 1] /\ t[i - 1] = s[i - 1]
      BY <3>1, <1>1, <1>2, <1>3
    <3> QED BY <2>1, <3>2
  <2> QED BY <2>3, <2>4
<1>9. Newest(a) = Newest(b)
  BY <1>5, <1>6, <1>7, <1>8
<1> QED BY <1>9 DEF a, b, t

\* An empty history is an empty cache.
LEMMA NewestOfNothing == Newest(<<>>) = <<>>
<1> DEFINE s == <<>>
<1>1. s \in Seq(Entry) /\ Len(s) = 0
  OBVIOUS
<1> HIDE DEF s
<1>2. /\ Newest(s) \in Seq(Entry)
      /\ Len(Newest(s)) = IF Len(s) < MaxSize THEN Len(s) ELSE MaxSize
  BY <1>1, NewestPrefix
<1>3. Len(Newest(s)) = 0
  BY <1>1, <1>2, MaxSizeAssumption
<1>4. Newest(s) = <<>>
  BY <1>2, <1>3
<1> QED BY <1>4 DEF s

\* Printing one more block changes what is shown of one run.
LEMMA ShownGrows ==
  ASSUME NEW r, NEW e, output' = output \cup {[run |-> r, entry |-> e]}
  PROVE  /\ ShownBy(r)' = ShownBy(r) \cup {e}
         /\ \A q \in Runs : q # r => ShownBy(q)' = ShownBy(q)
<1> DEFINE block == [run |-> r, entry |-> e]
<1>1. block.run = r /\ block.entry = e
  OBVIOUS
<1>2. output' = output \cup {block}
  OBVIOUS
<1> HIDE DEF block
<1>3. ShownBy(r)' = ShownBy(r) \cup {e}
  <2>1. {x \in output' : x.run = r} = {x \in output : x.run = r} \cup {block}
    BY <1>1, <1>2
  <2>2. {b.entry : b \in {x \in output' : x.run = r}}
          = {b.entry : b \in {x \in output : x.run = r}} \cup {block.entry}
    BY <2>1
  <2> QED BY <1>1, <2>2 DEF ShownBy
<1>4. ASSUME NEW q \in Runs, q # r
      PROVE  ShownBy(q)' = ShownBy(q)
  <2>1. {x \in output' : x.run = q} = {x \in output : x.run = q}
    BY <1>1, <1>2, <1>4
  <2> QED BY <2>1 DEF ShownBy
<1> QED BY <1>3, <1>4

\* The runs the results are of.
LEMMA ResultRuns ==
  ASSUME TypeOK
  PROVE  /\ \A i \in 1 .. Len(log) : log[i] \in Entry /\ log[i].run \in Runs
         /\ \A q \in Runs : \A e \in ShownBy(q) : e.run \in Runs
<1>1. \A e \in Entry : e.run \in Runs
  BY DEF Entry
<1>2. \A i \in 1 .. Len(log) : log[i] \in Entry
  BY DEF TypeOK
<1>3. \A q \in Runs : ShownBy(q) \subseteq Entry
  BY DEF TypeOK, ShownBy
<1> QED BY <1>1, <1>2, <1>3

-----------------------------------------------------------------------------
(* The invariant *)

LEMMA InitIInv == Init => IInv
<1> SUFFICES ASSUME Init PROVE IInv
  OBVIOUS
<1> USE DEF Init
<1>1. MaxSize \in Nat /\ <<>> \in Seq(Entry) /\ Len(<<>>) = 0
  BY MaxSizeAssumption
<1>2. TypeOK
  BY <1>1 DEF TypeOK, Stages
<1>3. CacheHoldsLatest
  BY NewestOfNothing DEF CacheHoldsLatest
<1>4. RecentIsNewest
  BY DEF RecentIsNewest
<1>5. ResultsAreSettled
  BY <1>1 DEF ResultsAreSettled
<1>6. OutputNamesItsRun
  BY DEF OutputNamesItsRun, ShownBy
<1> QED BY <1>2, <1>3, <1>4, <1>5, <1>6 DEF IInv

\* A run that comes to its end with a result.
LEMMA RecordInv ==
  ASSUME IInv, NEW r \in Runs, NEW e \in Entry, e.run = r, Record(r, e),
         run[r] \in {"idle"} \cup Active, run' = [run EXCEPT ![r] = "settled"],
         config' = config
  PROVE  IInv'
<1>1. /\ run \in [Runs -> Stages]
      /\ config \in Configs
      /\ entries \in Seq(Entry)
      /\ output \in SUBSET [run : Runs, entry : Entry]
      /\ log \in Seq(Entry)
      /\ entries = Newest(log)
  BY DEF IInv, TypeOK, CacheHoldsLatest
<1>2. /\ entries' = Newest(<<e>> \o entries)
      /\ recent' = e
      /\ output' = output \cup {[run |-> r, entry |-> e]}
      /\ log' = <<e>> \o log
  BY DEF Record, Added
<1>3. /\ log' \in Seq(Entry)
      /\ Len(log') = Len(log) + 1
      /\ log'[1] = e
      /\ \A i \in 1 .. Len(log) : log'[i + 1] = log[i]
      /\ log' # <<>>
  BY <1>1, <1>2, Cons
<1>4. entries' = Newest(log')
  BY <1>1, <1>2, NewestCons
<1>5. TypeOK'
  <2>1. entries' \in Seq(Entry) /\ Len(entries') <= MaxSize
    BY <1>3, <1>4, NewestPrefix, MaxSizeAssumption
  <2>2. run' \in [Runs -> Stages]
    BY <1>1 DEF Stages
  <2>3. output' \in SUBSET [run : Runs, entry : Entry]
    BY <1>1, <1>2
  <2> QED BY <2>1, <2>2, <2>3, <1>1, <1>2, <1>3 DEF TypeOK
<1>6. RecentIsNewest'
  BY <1>2, <1>3 DEF RecentIsNewest
<1>7. ResultsAreSettled'
  <2> SUFFICES ASSUME NEW i \in 1 .. Len(log')
               PROVE  run'[log'[i].run] = "settled"
    BY DEF ResultsAreSettled
  <2>1. Len(log) \in Nat /\ i \in Nat /\ i >= 1 /\ i <= Len(log) + 1
    BY <1>1, <1>3
  <2>2. CASE i = 1
    BY <2>2, <1>1, <1>3
  <2>3. CASE i # 1
    <3>1. i - 1 \in 1 .. Len(log) /\ (i - 1) + 1 = i
      BY <2>1, <2>3
    <3>2. log'[i] = log[i - 1] /\ log[i - 1] \in Entry
      BY <3>1, <1>1, <1>3
    <3>3. run[log[i - 1].run] = "settled" /\ log[i - 1].run \in Runs
      BY <3>1, <3>2 DEF IInv, ResultsAreSettled, Entry
    <3> QED BY <3>2, <3>3, <1>1
  <2> QED BY <2>2, <2>3
<1>8. OutputNamesItsRun'
  <2> SUFFICES ASSUME NEW q \in Runs
               PROVE  /\ run'[q] = "settled" => \E x \in Entry : ShownBy(q)' = {x} /\ x.run = q
                      /\ run'[q] \in {"idle"} \cup Active => ShownBy(q)' = {}
                      /\ run'[q] = "threw" => \A x \in ShownBy(q)' : run'[x.run] = "settled"
    BY DEF OutputNamesItsRun
  <2>1. CASE q = r
    <3>1. run'[q] = "settled"
      BY <2>1, <1>1
    <3>2. ShownBy(q) = {}
      BY <2>1 DEF IInv, OutputNamesItsRun
    <3>3. ShownBy(q)' = {e}
      BY <2>1, <3>2, <1>2, ShownGrows
    <3> QED BY <2>1, <3>1, <3>3 DEF Active
  <2>2. CASE q # r
    <3>1. run'[q] = run[q]
      BY <2>2, <1>1
    <3>2. ShownBy(q)' = ShownBy(q)
      BY <2>2, <1>2, ShownGrows
    <3>3. /\ run[q] = "settled" => \E x \in Entry : ShownBy(q) = {x} /\ x.run = q
          /\ run[q] \in {"idle"} \cup Active => ShownBy(q) = {}
          /\ run[q] = "threw" => \A x \in ShownBy(q) : run[x.run] = "settled"
      BY DEF IInv, OutputNamesItsRun
    <3>4. \A x \in ShownBy(q) : x.run \in Runs
      BY ResultRuns DEF IInv
    <3>5. \A x \in ShownBy(q) : run[x.run] = "settled" => run'[x.run] = "settled"
      BY <3>4, <1>1
    <3> QED BY <3>1, <3>2, <3>3, <3>5
  <2> QED BY <2>1, <2>2
<1>9. CacheHoldsLatest'
  BY <1>4 DEF CacheHoldsLatest
<1> QED BY <1>5, <1>6, <1>7, <1>8, <1>9 DEF IInv

\* A run that goes from one stage before its end to another.
LEMMA AdvanceInv ==
  ASSUME IInv, NEW r \in Runs, NEW stage \in Active,
         run[r] \in {"idle"} \cup Active, run' = [run EXCEPT ![r] = stage],
         UNCHANGED <<config, entries, recent, output, log>>
  PROVE  IInv'
<1>1. run \in [Runs -> Stages] /\ run' \in [Runs -> Stages]
  BY DEF IInv, TypeOK, Stages
<1>2. \A q \in Runs : run[q] = "settled" <=> run'[q] = "settled"
  BY <1>1 DEF Active
<1>3. TypeOK'
  BY <1>1 DEF IInv, TypeOK
<1>4. CacheHoldsLatest' /\ RecentIsNewest'
  BY DEF IInv, CacheHoldsLatest, RecentIsNewest, Newest
<1>5. ResultsAreSettled'
  <2>1. \A i \in 1 .. Len(log) : log[i].run \in Runs
    BY ResultRuns DEF IInv
  <2> QED BY <2>1, <1>2 DEF IInv, ResultsAreSettled
<1>6. OutputNamesItsRun'
  <2>1. \A q \in Runs : ShownBy(q)' = ShownBy(q)
    BY DEF ShownBy
  <2>2. \A q \in Runs : \A x \in ShownBy(q) : x.run \in Runs
    BY ResultRuns DEF IInv
  <2>3. \A q \in Runs : /\ run'[q] \in {"idle"} \cup Active <=> run[q] \in {"idle"} \cup Active
                        /\ run'[q] = "threw" <=> run[q] = "threw"
    BY <1>1 DEF Active
  <2>4. \A q \in Runs :
          /\ run[q] = "settled" => \E x \in Entry : ShownBy(q) = {x} /\ x.run = q
          /\ run[q] \in {"idle"} \cup Active => ShownBy(q) = {}
          /\ run[q] = "threw" => \A x \in ShownBy(q) : run[x.run] = "settled"
    BY DEF IInv, OutputNamesItsRun
  <2> QED BY <1>2, <2>1, <2>2, <2>3, <2>4 DEF OutputNamesItsRun
<1> QED BY <1>3, <1>4, <1>5, <1>6 DEF IInv

\* A run whose settings do not pass.
LEMMA ThrowInv ==
  ASSUME IInv, NEW r \in Runs, Throw(r)
  PROVE  IInv'
<1>1. /\ run[r] = "idle"
      /\ run' = [run EXCEPT ![r] = "threw"]
      /\ output' = IF recent = None THEN output
                   ELSE output \cup {[run |-> r, entry |-> recent]}
      /\ UNCHANGED <<config, entries, recent, log>>
  BY DEF Throw
<1>2. /\ run \in [Runs -> Stages] /\ run' \in [Runs -> Stages]
      /\ recent \in Entry \cup {None}
      /\ log \in Seq(Entry)
      /\ output \in SUBSET [run : Runs, entry : Entry]
  BY <1>1 DEF IInv, TypeOK, Stages
<1>3. \A q \in Runs : run[q] = "settled" <=> run'[q] = "settled"
  BY <1>1, <1>2
<1>4. recent # None => recent \in Entry /\ recent.run \in Runs /\ run[recent.run] = "settled"
  <2> SUFFICES ASSUME recent # None
               PROVE  recent \in Entry /\ recent.run \in Runs /\ run[recent.run] = "settled"
    OBVIOUS
  <2>1. recent \in Entry /\ recent.run \in Runs
    BY <1>2 DEF Entry
  <2>2. log # <<>> /\ recent = log[1]
    BY DEF IInv, RecentIsNewest
  <2>3. 1 \in 1 .. Len(log)
    BY <2>2, <1>2
  <2> QED BY <2>1, <2>2, <2>3 DEF IInv, ResultsAreSettled
<1>5. TypeOK'
  <2>1. output' \in SUBSET [run : Runs, entry : Entry]
    BY <1>1, <1>2, <1>4
  <2> QED BY <2>1, <1>1, <1>2 DEF IInv, TypeOK
<1>6. CacheHoldsLatest' /\ RecentIsNewest'
  BY <1>1 DEF IInv, CacheHoldsLatest, RecentIsNewest, Newest
<1>7. ResultsAreSettled'
  <2>1. \A i \in 1 .. Len(log) : log[i].run \in Runs
    BY ResultRuns DEF IInv
  <2> QED BY <2>1, <1>1, <1>3 DEF IInv, ResultsAreSettled
<1>8. OutputNamesItsRun'
  <2> SUFFICES ASSUME NEW q \in Runs
               PROVE  /\ run'[q] = "settled" => \E x \in Entry : ShownBy(q)' = {x} /\ x.run = q
                      /\ run'[q] \in {"idle"} \cup Active => ShownBy(q)' = {}
                      /\ run'[q] = "threw" => \A x \in ShownBy(q)' : run'[x.run] = "settled"
    BY DEF OutputNamesItsRun
  <2>1. CASE q = r
    <3>1. ShownBy(q) = {}
      BY <2>1, <1>1 DEF IInv, OutputNamesItsRun
    <3>2. ShownBy(q)' = IF recent = None THEN {} ELSE {recent}
      <4>1. CASE recent = None
        BY <4>1, <2>1, <3>1, <1>1 DEF ShownBy
      <4>2. CASE recent # None
        BY <4>2, <2>1, <3>1, <1>1, ShownGrows
      <4> QED BY <4>1, <4>2
    <3>3. run'[q] = "threw"
      BY <2>1, <1>1, <1>2
    <3>4. \A x \in ShownBy(q)' : run'[x.run] = "settled"
      BY <3>2, <1>3, <1>4
    <3> QED BY <3>3, <3>4 DEF Active
  <2>2. CASE q # r
    <3>1. run'[q] = run[q]
      BY <2>2, <1>1, <1>2
    <3>2. ShownBy(q)' = ShownBy(q)
      <4>1. CASE recent = None
        BY <4>1, <1>1 DEF ShownBy
      <4>2. CASE recent # None
        BY <4>2, <2>2, <1>1, ShownGrows
      <4> QED BY <4>1, <4>2
    <3>3. \A x \in ShownBy(q) : x.run \in Runs
      BY ResultRuns DEF IInv
    <3>4. /\ run[q] = "settled" => \E x \in Entry : ShownBy(q) = {x} /\ x.run = q
          /\ run[q] \in {"idle"} \cup Active => ShownBy(q) = {}
          /\ run[q] = "threw" => \A x \in ShownBy(q) : run[x.run] = "settled"
      BY DEF IInv, OutputNamesItsRun
    <3> QED BY <3>1, <3>2, <3>3, <3>4, <1>3
  <2> QED BY <2>1, <2>2
<1> QED BY <1>5, <1>6, <1>7, <1>8 DEF IInv

LEMMA ClearInv ==
  ASSUME IInv, Clear
  PROVE  IInv'
<1>1. /\ entries' = <<>> /\ recent' = None /\ log' = <<>>
      /\ UNCHANGED <<config, run, output>>
  BY DEF Clear
<1>2. <<>> \in Seq(Entry) /\ Len(<<>>) = 0 /\ MaxSize \in Nat
  BY MaxSizeAssumption
<1>3. TypeOK'
  BY <1>1, <1>2 DEF IInv, TypeOK
<1>4. CacheHoldsLatest'
  <2>1. Newest(log)' = Newest(log')
    BY DEF Newest
  <2> QED BY <1>1, <2>1, NewestOfNothing DEF CacheHoldsLatest
<1>5. RecentIsNewest' /\ ResultsAreSettled'
  BY <1>1, <1>2 DEF RecentIsNewest, ResultsAreSettled
<1>6. OutputNamesItsRun'
  BY <1>1 DEF IInv, OutputNamesItsRun, ShownBy
<1> QED BY <1>3, <1>4, <1>5, <1>6 DEF IInv

\* Steps that leave all but the settings alone.
LEMMA SettingsInv ==
  ASSUME IInv, config' \in Configs, UNCHANGED <<run, entries, recent, output, log>>
  PROVE  IInv'
  BY DEF IInv, TypeOK, CacheHoldsLatest, RecentIsNewest, ResultsAreSettled,
         OutputNamesItsRun, ShownBy, Newest

LEMMA StatusType ==
  \A end \in Ends, late \in BOOLEAN : Status(end, late) \in Statuses /\ ExitCode(end) \in ExitCodes
  BY DEF Ends, Status, ExitCode, Statuses, ExitCodes

LEMMA IInvStep == IInv /\ [Next]_vars => IInv'
<1> SUFFICES ASSUME IInv, [Next]_vars PROVE IInv'
  OBVIOUS
<1>1. ASSUME NEW r \in Runs, NEW input \in Inputs, Refuse(r, input)
      PROVE  IInv'
  <2> DEFINE e == [run |-> r, status |-> "blocked", exitCode |-> "none"]
  <2>1. e \in Entry /\ e.run = r
    BY DEF Entry, Statuses, ExitCodes
  <2>2. /\ run[r] \in {"idle"} \cup Active
        /\ run' = [run EXCEPT ![r] = "settled"]
        /\ Record(r, e)
        /\ config' = config
    BY <1>1 DEF Refuse
  <2> HIDE DEF e
  <2> QED BY <2>1, <2>2, RecordInv
<1>2. ASSUME NEW r \in Runs, NEW input \in Inputs, Execute(r, input)
      PROVE  IInv'
  <2>1. "executing" \in Active
    BY DEF Active
  <2> QED BY <2>1, <1>2, AdvanceInv DEF Execute
<1>3. ASSUME NEW r \in Runs, Throw(r)
      PROVE  IInv'
  BY <1>3, ThrowInv
<1>4. ASSUME NEW r \in Runs, Deadline(r)
      PROVE  IInv'
  <2>1. "overdue" \in Active /\ "executing" \in Active
    BY DEF Active
  <2> QED BY <2>1, <1>4, AdvanceInv DEF Deadline
<1>5. ASSUME NEW r \in Runs, NEW end \in Ends, Exit(r, end)
      PROVE  IInv'
  <2> DEFINE late == run[r] = "overdue"
             e == [run |-> r, status |-> Status(end, late), exitCode |-> ExitCode(end)]
  <2>1. e \in Entry /\ e.run = r
    BY StatusType DEF Entry
  <2>2. /\ run[r] \in {"idle"} \cup Active
        /\ run' = [run EXCEPT ![r] = "settled"]
        /\ Record(r, e)
        /\ config' = config
    BY <1>5 DEF Exit
  <2> HIDE DEF e
  <2> QED BY <2>1, <2>2, RecordInv
<1>6. CASE Clear
  BY <1>6, ClearInv
<1>7. ASSUME NEW c \in Configs, SetConfig(c)
      PROVE  IInv'
  BY <1>7, SettingsInv DEF SetConfig
<1>8. CASE UNCHANGED vars
  <2>1. config' \in Configs
    BY <1>8 DEF vars, IInv, TypeOK
  <2> QED BY <2>1, <1>8, SettingsInv DEF vars
<1> QED BY <1>1, <1>2, <1>3, <1>4, <1>5, <1>6, <1>7, <1>8 DEF Next

-----------------------------------------------------------------------------
(* The results *)

LEMMA Invariance == Spec => []IInv
  BY InitIInv, IInvStep, PTL DEF Spec

\* The shared state of the commands keeps its type: in particular the cache
\* never holds more than its size.
THEOREM TypeCorrect == Spec => []TypeOK
<1>1. IInv => TypeOK
  BY DEF IInv
<1> QED BY <1>1, Invariance, PTL

\* The cache is always the newest results since the last clear.
THEOREM CacheIsLatest == Spec => []CacheHoldsLatest
<1>1. IInv => CacheHoldsLatest
  BY DEF IInv
<1> QED BY <1>1, Invariance, PTL

\* The context bundle carries the newest result since the last clear.
THEOREM ContextIsLatest == Spec => []ContextCarriesLatest
<1>1. IInv => ContextCarriesLatest
  <2> SUFFICES ASSUME IInv PROVE ContextCarriesLatest
    OBVIOUS
  <2>1. /\ log \in Seq(Entry)
        /\ entries = Newest(log)
        /\ recent = IF log = <<>> THEN None ELSE log[1]
    BY DEF IInv, TypeOK, CacheHoldsLatest, RecentIsNewest
  <2>2. /\ entries \in Seq(Entry)
        /\ Len(entries) = IF Len(log) < MaxSize THEN Len(log) ELSE MaxSize
        /\ \A i \in 1 .. Len(entries) : entries[i] = log[i]
    BY <2>1, NewestPrefix
  <2>3. CASE log = <<>>
    <3>1. Len(entries) = 0
      BY <2>2, <2>3, MaxSizeAssumption
    <3>2. entries = <<>>
      BY <2>2, <3>1
    <3> QED BY <2>1, <2>3, <3>2 DEF ContextCarriesLatest, Carried
  <2>4. CASE log # <<>>
    <3>1. Len(log) >= 1 /\ Len(log) \in Nat
      BY <2>1, <2>4
    <3>2. Len(entries) >= 1
      BY <2>2, <3>1, MaxSizeAssumption
    <3>3. entries # <<>> /\ entries[1] = log[1]
      BY <2>2, <3>2
    <3> QED BY <2>1, <2>4, <3>3 DEF ContextCarriesLatest, Carried
  <2> QED BY <2>3, <2>4
<1> QED BY <1>1, Invariance, PTL

\* What is printed under a run is its own result, unless its settings did not
\* pass.
THEOREM OutputIsOwn == Spec => []OutputNamesItsRun
<1>1. IInv => OutputNamesItsRun
  BY DEF IInv
<1> QED BY <1>1, Invariance, PTL

=============================================================================
