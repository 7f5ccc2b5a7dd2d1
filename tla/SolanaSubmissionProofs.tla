----------------------- MODULE SolanaSubmissionProofs -----------------------
(***************************************************************************)
(* The safety of native SOL sends, for any number of sends and sources,    *)
(* any batches and any queue capacity, lifetime, page size and number of   *)
(* panics: SendsAreSafe is an invariant and nothing is dispatched that is  *)
(* not supervised.                                                         *)
(*                                                                         *)
(* The inductive invariant is stated over the two records of a send, its   *)
(* handler k and its task t, so that a step of one send leaves what is     *)
(* known about the others as it stands.                                    *)
(***************************************************************************)
EXTENDS SolanaSubmission, TLAPS

\* The phases in which a task holds the guards of its whole batch, in which
\* it runs, and in which its envelope has been on the wire.
Reconciliation == {"inspect", "mark", "page", "recheck", "verdict", "pause"}
Begun == {"check", "dispatch", "answer", "status", "expiry"} \cup Reconciliation
Holding == {"queued", "dormant", "check", "dispatch", "answer", "status", "expiry"}
OnTheWire == {"answer", "status", "expiry"} \cup Reconciliation

Failure == {"busy", "definite", "unavailable"}

\* A handler and its task fit together.
Linked(k, t) ==
    /\ k.at \in {"new", "prepare", "prepared"} => t = NoTask
    /\ k.at # "new" => k.job # <<>>
    /\ k.at = "send" => t.at = "queued" /\ t.activation = "held"
    /\ k.at = "ack" => t.at \in {"queued", "dormant", "gone", "panicked"}
    /\ t.activation = "started" => k.at \in {"wait", "done", "gone"}
    /\ t.activation = "dropped" => k.at = "gone"
    /\ t.at \in Begun => t.activation = "started"
    /\ t.at \in {"none", "finished"} => t.activation = "held"
    /\ t.at = "gone" => t.item = 1
    /\ t.at = "queued" => k.at \in {"send", "ack", "gone"}
    /\ k.outcome.kind \in Failure => k.at \in {"wait", "done", "gone"}

\* While no task panicked, a handler that waits has a task, and one that was
\* told of a failure has none that runs.
Calm(k, t) ==
    /\ t.at # "panicked"
    /\ k.at = "wait" => t.at \notin {"none", "queued", "gone"}
    /\ k.outcome.kind \in Failure => t.at \in {"none", "finished", "gone"}

Batch(k) == {k.job[i] : i \in DOMAIN k.job}

\* What a task carries: the guards of its batch until it reconciles, one of
\* the envelopes, and the attempts that are left.
Carries(k, t) ==
    /\ t.at \in Holding => t.holds = Batch(k)
    /\ t.at \notin Holding => t.holds = {}
    /\ t.at \in Holding \cup Begun => t.item \in DOMAIN k.job
    /\ t.at \in {"queued", "dormant"} => t.tries = 0
    /\ t.at \in {"dispatch", "expiry"} => t.tries < 3

Sends ==
    \A c \in Caller :
        /\ Linked(call[c], task[c]) /\ Carries(call[c], task[c])
        /\ panics = 0 => Calm(call[c], task[c])

\* A command stands for a registered task that has not been inserted.
Queues ==
    /\ \A i, j \in 1 .. Len(queue) : queue[i] \in Caller /\ queue[i] = queue[j] => i = j
    /\ \A i \in 1 .. Len(queue) : queue[i] \in Caller =>
           task[queue[i]].at = "queued" /\ call[queue[i]].at \in {"ack", "gone"}
    /\ \A c \in Caller : task[c].at = "queued" /\ call[c].at # "send" =>
           \E i \in 1 .. Len(queue) : queue[i] = c

\* The sources that are leased and guarded on behalf of a send.
Leases(k) == IF k.at \in {"prepare", "prepared"} THEN Batch(k) ELSE {}
Keeps(k, t) == t.holds \cup (IF t.at \in Reconciliation THEN {k.job[t.item]} ELSE {})
Has(k, t) == Leases(k) \cup Keeps(k, t)

Guards ==
    /\ \A c \in Caller : Keeps(call[c], task[c]) \subseteq guarded
    /\ \A c, d \in Caller : \A x \in Source :
           x \in Has(call[c], task[c]) /\ x \in Has(call[d], task[d]) => c = d
    /\ \A x \in Source : x \in preparing <=> \E c \in Caller : x \in Leases(call[c])
    /\ panics = 0 => \A x \in guarded : \E c \in Caller : x \in Keeps(call[c], task[c])

\* An envelope e that was sent belongs to the batch of its send, and the task
\* is at it or has left it behind.
Sent(e, k, t) ==
    /\ e.item \in DOMAIN k.job /\ e.source = k.job[e.item] /\ e.until = k.until
    /\ t.at \notin {"none", "queued", "dormant"}
    /\ t.at \in Begun => e.item <= t.item /\ (e.item = t.item => t.at # "check")

Envelopes ==
    /\ \A e \in sent : Sent(e, call[e.of], task[e.of])
    /\ \A e \in sent : panics = 0 => task[e.of].at # "gone"
    /\ \A e \in sent : task[e.of].at \in Begun /\ e.item < task[e.of].item => e \in accepted
    /\ \A e \in sent : task[e.of].at = "finished" => e \in settled
    /\ \A c \in Caller : task[c].at \in OnTheWire => Current(c) \in sent
    /\ DefiniteMeansUnsent

\* What a traversal has read does not hold the envelope e; once it is
\* through, no block up to the marked checkpoint does.
Scanned(e, t) ==
    /\ t.seen <= checkpoint
    /\ t.at = "page" => \A l \in t.read : l.envelope # e
    /\ t.at \in {"recheck", "verdict"} => \A l \in landed : l.height <= t.seen => l.envelope # e

Absences ==
    /\ \A c \in Caller : Scanned(Current(c), task[c])
    /\ \A l \in landed : l.height <= l.envelope.until
    /\ GivenUpNeverLands

\* The supervisor, and how far the shutdown can be with it.
Supervision ==
    /\ supervisor \in {"ended", "failed"} =>
           \A c \in Caller : ~ Live(c) /\ task[c].at # "panicked"
    /\ supervisor # "running" => queue = <<>>
    /\ panics > 0 => supervisor = "failed" \/ \E c \in Caller : task[c].at = "panicked"
    /\ stage \in {"handled", "drained", "stopped"} => HandlersDone
    /\ stage \in {"drained", "stopped"} => supervisor \in {"ended", "failed"}
    /\ sync = "stopped" => stage = "stopped"

IInv == TypeOK /\ Sends /\ Queues /\ Guards /\ Envelopes /\ Absences /\ Supervision

-----------------------------------------------------------------------------

LEMMA Records ==
    ASSUME TypeOK, NEW c \in Caller
    PROVE  /\ task[c] \in SubmissionTask /\ call[c] \in Handler
           /\ task[c].at \in TaskPhases /\ task[c].holds \in SUBSET Source
           /\ task[c].activation \in {"held", "started", "dropped"} /\ task[c].item \in Nat
           /\ task[c].tries \in 0 .. 3 /\ task[c].seen \in 0 .. MaxHeight
           /\ task[c].read \in SUBSET landed
           /\ call[c].at \in Phases /\ call[c].job \in Seq(Source)
           /\ call[c].until \in 0 .. MaxHeight /\ call[c].outcome \in Outcome
<1>1. task[c] \in SubmissionTask /\ call[c] \in Handler
  BY Zenon DEF TypeOK
<1>2. QED
  BY <1>1, Zenon DEF SubmissionTask, Handler

\* A batch consists of sources.
LEMMA BatchSources ==
    ASSUME NEW k, k.job \in Seq(Source)
    PROVE  /\ Batch(k) \subseteq Source
           /\ \A i \in DOMAIN k.job : k.job[i] \in Source /\ k.job[i] \in Batch(k)
           /\ DOMAIN k.job = 1 .. Len(k.job) /\ Len(k.job) \in Nat
           /\ k.job # <<>> => 1 \in DOMAIN k.job
<1>1. \A i \in DOMAIN k.job : k.job[i] \in Source
  OBVIOUS
<1>2. DOMAIN k.job = 1 .. Len(k.job) /\ Len(k.job) \in Nat
  OBVIOUS
<1>3. k.job # <<>> => 1 \in DOMAIN k.job
  OBVIOUS
<1>4. QED
  BY <1>1, <1>2, <1>3, Zenon DEF Batch

\* The envelope a task is at.
LEMMA CurrentFields ==
    ASSUME NEW c \in Caller
    PROVE  /\ Current(c).of = c /\ Current(c).item = task[c].item
           /\ Current(c).source = call[c].job[task[c].item] /\ Current(c).until = call[c].until
BY DEF Current, LastValid

LEMMA CurrentType ==
    ASSUME TypeOK, NEW c \in Caller, task[c].item \in DOMAIN call[c].job
    PROVE  Current(c) \in Envelope
<1>1. /\ call[c].job[task[c].item] \in Source /\ task[c].item \in Nat
      /\ call[c].until \in 0 .. MaxHeight
  BY Records, BatchSources, Zenon
<1>2. QED
  BY <1>1, Zenon DEF Current, LastValid, Envelope

\* An envelope is known by its send and its place in the batch.
LEMMA EnvelopeIs ==
    ASSUME NEW e \in Envelope, NEW f \in Envelope, e.of = f.of, e.item = f.item,
           e.source = f.source, e.until = f.until
    PROVE  e = f
BY DEF Envelope

\* The one envelope of a send that was sent and is at the place of the task.
LEMMA SentCurrent ==
    ASSUME TypeOK, NEW e \in sent, Sent(e, call[e.of], task[e.of]), e.item = task[e.of].item
    PROVE  e.of \in Caller /\ e = Current(e.of)
<1>1. e \in Envelope /\ e.of \in Caller
  BY Zenon DEF TypeOK, Envelope
<1>2. /\ e.source = Current(e.of).source /\ e.until = Current(e.of).until
      /\ e.of = Current(e.of).of /\ e.item = Current(e.of).item
  BY <1>1, CurrentFields, Zenon DEF Sent
<1>3. Current(e.of) \in Envelope
  BY <1>1, CurrentType, Zenon DEF Sent
<1>4. QED
  BY <1>1, <1>2, <1>3, EnvelopeIs, Zenon

\* What a step of one send leaves of the others.
Others(c) ==
    \A d \in Caller \ {c} : call'[d] = call[d] /\ task'[d] = task[d]

LEMMA SameCurrent ==
    ASSUME NEW d \in Caller, task'[d].item = task[d].item, call'[d].job = call[d].job,
           call'[d].until = call[d].until
    PROVE  Current(d)' = Current(d)
BY Zenon DEF Current, LastValid

LEMMA OneSend ==
    ASSUME NEW c \in Caller, Others(c), Sends, panics' = panics,
           Linked(call'[c], task'[c]), Carries(call'[c], task'[c]),
           panics = 0 => Calm(call'[c], task'[c])
    PROVE  Sends'
BY Zenon DEF Sends, Others

LEMMA GuardsShrink ==
    ASSUME TypeOK, Guards,
           \A d \in Caller : Keeps(call'[d], task'[d]) \subseteq Keeps(call[d], task[d]),
           \A d \in Caller : Leases(call'[d]) \subseteq Leases(call[d]),
           guarded' \subseteq guarded,
           \A x \in guarded \ guarded' : \E d \in Caller :
               x \in Keeps(call[d], task[d]) /\ x \notin Keeps(call'[d], task'[d]),
           panics' = 0 => /\ panics = 0
                          /\ \A x \in guarded' : \A d \in Caller :
                                 x \in Keeps(call[d], task[d]) => x \in Keeps(call'[d], task'[d]),
           \A x \in Source : x \in preparing' <=> \E d \in Caller : x \in Leases(call'[d])
    PROVE  Guards'
<1>1. ASSUME NEW c \in Caller, NEW x, x \in Keeps(call'[c], task'[c])
      PROVE  x \in guarded'
  <2>1. x \in Keeps(call[c], task[c]) /\ x \in guarded /\ x \in Source
    BY <1>1, Zenon DEF Guards, TypeOK
  <2>2. ASSUME NEW d \in Caller, x \in Keeps(call[d], task[d])
        PROVE  c = d
    BY <2>1, <2>2, Zenon DEF Guards, Has
  <2>3. QED
    BY <1>1, <2>1, <2>2, Zenon
<1>2. ASSUME NEW c \in Caller, NEW d \in Caller, NEW x \in Source,
             x \in Has(call'[c], task'[c]), x \in Has(call'[d], task'[d])
      PROVE  c = d
  <2>1. x \in Has(call[c], task[c]) /\ x \in Has(call[d], task[d])
    BY <1>2, Zenon DEF Has
  <2>2. QED
    BY <2>1, Zenon DEF Guards
<1>3. panics' = 0 => \A x \in guarded' : \E c \in Caller : x \in Keeps(call'[c], task'[c])
  BY Zenon DEF Guards
<1>4. QED
  BY <1>1, <1>2, <1>3, Zenon DEF Guards

\* A step of one send that gives up guards, its leases apart.
LEMMA GuardsOne ==
    ASSUME TypeOK, Guards, NEW c \in Caller, Others(c), panics' = panics, preparing' = preparing,
           Leases(call'[c]) = Leases(call[c]),
           Keeps(call'[c], task'[c]) \subseteq Keeps(call[c], task[c]),
           guarded' = guarded \ (Keeps(call[c], task[c]) \ Keeps(call'[c], task'[c]))
    PROVE  Guards'
<1>1. \A d \in Caller : Leases(call'[d]) = Leases(call[d])
  BY Zenon DEF Others
<1>2. \A d \in Caller : Keeps(call'[d], task'[d]) \subseteq Keeps(call[d], task[d])
  BY Zenon DEF Others
<1>3. \A d \in Caller \ {c} : Keeps(call'[d], task'[d]) = Keeps(call[d], task[d])
  BY Zenon DEF Others
<1>4. \A x \in guarded' : \A d \in Caller :
          x \in Keeps(call[d], task[d]) => x \in Keeps(call'[d], task'[d])
  BY <1>3, Zenon
<1>5. \A x \in Source : x \in preparing' <=> \E d \in Caller : x \in Leases(call'[d])
  BY <1>1, Zenon DEF Guards
<1>6. \A x \in guarded \ guarded' : \E d \in Caller :
          x \in Keeps(call[d], task[d]) /\ x \notin Keeps(call'[d], task'[d])
  BY Zenon
<1>7. \A d \in Caller : Leases(call'[d]) \subseteq Leases(call[d])
  BY <1>1, Zenon
<1>8. guarded' \subseteq guarded
  BY Zenon
<1>9. QED
  BY <1>2, <1>4, <1>5, <1>6, <1>7, <1>8, GuardsShrink, Zenon

\* A step of one send that gives up its leases.
LEMMA LeaseEnds ==
    ASSUME TypeOK, Guards, NEW c \in Caller, Others(c), panics' = panics, guarded' = guarded,
           Leases(call'[c]) = {}, preparing' = preparing \ Leases(call[c]),
           Keeps(call'[c], task'[c]) = Keeps(call[c], task[c])
    PROVE  Guards'
<1>1. \A d \in Caller \ {c} : Leases(call'[d]) = Leases(call[d])
  BY Zenon DEF Others
<1>2. \A d \in Caller : Keeps(call'[d], task'[d]) = Keeps(call[d], task[d])
  BY Zenon DEF Others
<1>3. ASSUME NEW x \in Source
      PROVE  x \in preparing' <=> \E d \in Caller : x \in Leases(call'[d])
  <2>1. ASSUME x \in preparing'
        PROVE  \E d \in Caller : x \in Leases(call'[d])
    BY <1>1, <2>1, Zenon DEF Guards
  <2>2. ASSUME NEW d \in Caller, x \in Leases(call'[d])
        PROVE  x \in preparing'
    <3>1. d # c /\ x \in Leases(call[d])
      BY <1>1, <2>2, Zenon
    <3>2. x \notin Leases(call[c])
      BY <3>1, Zenon DEF Guards, Has
    <3>3. QED
      BY <3>1, <3>2, Zenon DEF Guards
  <2>3. QED
    BY <2>1, <2>2, Zenon
<1>4. \A d \in Caller : Leases(call'[d]) \subseteq Leases(call[d])
  BY <1>1, Zenon
<1>5. QED
  BY <1>2, <1>3, <1>4, GuardsShrink, Zenon

LEMMA QueuesOne ==
    ASSUME Queues, NEW c \in Caller, Others(c), queue' = queue,
           \/ /\ task[c].at = "queued" /\ call[c].at # "send"
              /\ task'[c].at = "queued" /\ call'[c].at \in {"ack", "gone"}
           \/ /\ task[c].at # "queued" \/ call[c].at = "send"
              /\ task'[c].at # "queued" \/ call'[c].at = "send"
    PROVE  Queues'
<1>1. \A i \in 1 .. Len(queue) : queue[i] \in Caller =>
          task'[queue[i]].at = "queued" /\ call'[queue[i]].at \in {"ack", "gone"}
  BY Zenon DEF Queues, Others
<1>2. \A d \in Caller : task'[d].at = "queued" /\ call'[d].at # "send" =>
          \E i \in 1 .. Len(queue) : queue[i] = d
  BY Zenon DEF Queues, Others
<1>3. QED
  BY <1>1, <1>2, ZenonT(30) DEF Queues

LEMMA SupervisionOne ==
    ASSUME Supervision, NEW c \in Caller, Others(c), panics' = panics,
           UNCHANGED <<supervisor, stage, sync>>,
           supervisor # "running" => queue' = queue,
           supervisor \in {"ended", "failed"} =>
               task'[c].at \in {"none", "queued", "finished", "gone"},
           task[c].at = "panicked" => task'[c].at = "panicked",
           call[c].at \in {"new", "done", "gone"} /\ ~ HandlersRun =>
               call'[c].at \in {"done", "gone"} \/ call'[c].at = call[c].at
    PROVE  Supervision'
<1>1. supervisor \in {"ended", "failed"} =>
          \A d \in Caller : ~ Live(d)' /\ task'[d].at # "panicked"
  BY Zenon DEF Supervision, Others, Live
<1>2. panics > 0 => supervisor = "failed" \/ \E d \in Caller : task'[d].at = "panicked"
  BY Zenon DEF Supervision, Others
<1>3. ~ HandlersRun /\ HandlersDone => HandlersDone'
  BY Zenon DEF HandlersDone, Others
<1>4. stage \in {"handled", "drained", "stopped"} => ~ HandlersRun
  BY Zenon DEF HandlersRun
<1>5. QED
  BY <1>1, <1>2, <1>3, <1>4, Zenon DEF Supervision

\* A step of one send that leaves what was sent and what became of it: a
\* send whose envelopes are still at home, or a handler alone.
LEMMA EnvelopesQuiet ==
    ASSUME TypeOK, Envelopes, NEW c \in Caller, Others(c),
           UNCHANGED <<sent, accepted, absent, panics>>,
           \/ /\ task[c].at \in {"none", "queued", "dormant"}
              /\ task'[c].at \notin OnTheWire
           \/ /\ task'[c].at = task[c].at /\ task'[c].item = task[c].item
              /\ call'[c].job = call[c].job /\ call'[c].until = call[c].until,
           \/ call'[c].outcome = call[c].outcome
           \/ panics = 0 => task[c].at \in {"none", "queued", "dormant", "gone"}
    PROVE  Envelopes'
<1>1. \A e \in sent : e.of \in Caller
  BY Zenon DEF TypeOK, Envelope
<1>2. CASE task[c].at \in {"none", "queued", "dormant"} /\ task'[c].at \notin OnTheWire
  <2>1. \A e \in sent : e.of # c
    BY <1>2, Zenon DEF Envelopes, Sent
  <2>2. \A e \in sent : call'[e.of] = call[e.of] /\ task'[e.of] = task[e.of]
    BY <1>1, <2>1, Zenon DEF Others
  <2>3. \A d \in Caller : task'[d].at \in OnTheWire => Current(d)' \in sent
    <3>1. \A d \in Caller \ {c} : Current(d)' = Current(d)
      BY SameCurrent, Zenon DEF Others
    <3>2. QED
      BY <1>2, <3>1, Zenon DEF Envelopes, Others
  <2>4. DefiniteMeansUnsent'
    BY <2>1, <2>2, ZenonT(30) DEF Envelopes, DefiniteMeansUnsent, settled, Others
  <2>5. QED
    BY <2>2, <2>3, <2>4, Zenon DEF Envelopes, settled
<1>3. CASE /\ task'[c].at = task[c].at /\ task'[c].item = task[c].item
           /\ call'[c].job = call[c].job /\ call'[c].until = call[c].until
  <2>1. \A d \in Caller : /\ task'[d].at = task[d].at /\ task'[d].item = task[d].item
                          /\ call'[d].job = call[d].job /\ call'[d].until = call[d].until
    BY <1>3, Zenon DEF Others
  <2>2. \A e \in sent : Sent(e, call[e.of], task[e.of]) => Sent(e, call'[e.of], task'[e.of])
    BY <1>1, <2>1, Zenon DEF Sent
  <2>3. \A d \in Caller : task'[d].at \in OnTheWire => Current(d)' \in sent
    BY <2>1, SameCurrent, Zenon DEF Envelopes
  <2>4. DefiniteMeansUnsent'
    <3>1. CASE call'[c].outcome = call[c].outcome
      <4>1. \A d \in Caller : call'[d].outcome = call[d].outcome
        BY <3>1, Zenon DEF Others
      <4>2. QED
        BY <4>1, Zenon DEF Envelopes, DefiniteMeansUnsent, settled
    <3>2. CASE panics = 0 => task[c].at \in {"none", "queued", "dormant", "gone"}
      <4>1. panics = 0 => \A e \in sent : e.of # c
        BY <3>2, Zenon DEF Envelopes, Sent
      <4>2. QED
        BY <4>1, ZenonT(30) DEF Envelopes, DefiniteMeansUnsent, settled, Others
    <3>3. QED
      BY <3>1, <3>2, Zenon
  <2>5. /\ \A e \in sent : panics = 0 => task'[e.of].at # "gone"
        /\ \A e \in sent : task'[e.of].at \in Begun /\ e.item < task'[e.of].item => e \in accepted
        /\ \A e \in sent : task'[e.of].at = "finished" => e \in settled
    BY <1>1, <2>1, Zenon DEF Envelopes
  <2>6. QED
    BY <2>2, <2>3, <2>4, <2>5, Zenon DEF Envelopes, settled
<1>4. QED
  BY <1>2, <1>3, Zenon

LEMMA AbsencesOne ==
    ASSUME Absences, NEW c \in Caller, Others(c), UNCHANGED nodeVars,
           Scanned(Current(c), task[c])', GivenUpNeverLands'
    PROVE  Absences'
<1>1. ASSUME NEW d \in Caller \ {c} PROVE Scanned(Current(d), task[d])'
  <2>1. Current(d)' = Current(d) /\ task'[d] = task[d]
    BY SameCurrent, Zenon DEF Others
  <2>2. QED
    BY <2>1, Zenon DEF Absences, Scanned, nodeVars
<1>2. QED
  BY <1>1, Zenon DEF Absences, nodeVars

LEMMA AbsencesQuiet ==
    ASSUME Absences, NEW c \in Caller, Others(c), UNCHANGED <<nodeVars, absent>>,
           Scanned(Current(c), task[c])'
    PROVE  Absences'
<1>1. GivenUpNeverLands'
  BY Zenon DEF Absences, GivenUpNeverLands, InBlock, nodeVars
<1>2. QED
  BY <1>1, AbsencesOne, Zenon

-----------------------------------------------------------------------------
(* The effects a step of a task may have.                                  *)

LEMMA BegunIs ==
    ASSUME NEW a \in Begun
    PROVE  /\ a \notin {"none", "queued", "dormant", "finished", "gone", "panicked"}
           /\ a \in Holding <=> a \notin Reconciliation
BY Zenon DEF Begun, Holding, Reconciliation

LEMMA LiveAt ==
    ASSUME TypeOK, NEW c \in Caller
    PROVE  Live(c) <=> task[c].at \in Begun \cup {"dormant"}
BY Records, Zenon DEF Live, TaskPhases, Begun, Reconciliation

\* The types of a step of one send that leaves the application and the node.
LEMMA TypesOne ==
    ASSUME TypeOK, NEW c \in Caller, UNCHANGED <<appVars, nodeVars, panics>>,
           call' \in [Caller -> Handler], task' \in [Caller -> SubmissionTask],
           preparing' \subseteq Source, guarded' \subseteq Source,
           sent \subseteq sent', sent' \subseteq Envelope, settled' \subseteq sent'
    PROVE  TypeOK'
<1>1. SubmissionTask' = SubmissionTask
  BY Zenon DEF SubmissionTask, nodeVars
<1>2. landed' \subseteq [envelope : sent', height : 1 .. height']
  <2>1. landed \subseteq [envelope : sent, height : 1 .. height] /\ landed' = landed
        /\ height' = height
    BY Zenon DEF TypeOK, nodeVars
  <2>2. QED
    BY <2>1, Zenon
<1>3. QED
  BY <1>1, <1>2, Zenon DEF TypeOK, appVars, nodeVars

\* What every step of a task that runs leaves.
LEMMA TaskFrame ==
    ASSUME IInv, NEW c \in Caller, Live(c), NEW t \in SubmissionTask,
           task' = [task EXCEPT ![c] = t], t.at \notin {"none", "queued", "panicked"},
           \A d \in Caller \ {c} : call'[d] = call[d], call'[c].at = call[c].at,
           UNCHANGED <<appVars, panics>>
    PROVE  /\ Others(c) /\ task'[c] = t /\ task' \in [Caller -> SubmissionTask]
           /\ Queues' /\ Supervision'
<1>1. Others(c) /\ task'[c] = t /\ task' \in [Caller -> SubmissionTask]
  BY Zenon DEF Others, IInv, TypeOK
<1>2. Queues'
  BY <1>1, QueuesOne, Zenon DEF IInv, Live, appVars
<1>3. Supervision'
  BY <1>1, SupervisionOne, Zenon DEF IInv, Live, appVars, Supervision
<1>4. QED
  BY <1>1, <1>2, <1>3, Zenon

\* The task goes on with the envelope it is at.
LEMMA MoveSafe ==
    ASSUME IInv, NEW c \in Caller, Live(c), NEW t \in SubmissionTask,
           task' = [task EXCEPT ![c] = t],
           UNCHANGED <<sourceVars, call, appVars, nodeVars, accepted, absent, panics>>,
           sent' = sent \/ sent' = sent \cup {Current(c)},
           task[c].activation = "started", t.activation = "started",
           t.item = task[c].item, t.holds = task[c].holds,
           t.at \in Begun \ {"check"}, t.at \in Holding <=> task[c].at \in Holding,
           t.at \in {"dispatch", "expiry"} => t.tries < 3,
           t.at \in OnTheWire => Current(c) \in sent',
           Scanned(Current(c), t)
    PROVE  IInv'
<1>1. TypeOK /\ Guards /\ Envelopes /\ Absences /\ Sends
  BY Zenon DEF IInv
<1>2. /\ Others(c) /\ task'[c] = t /\ task' \in [Caller -> SubmissionTask]
      /\ Queues' /\ Supervision'
  <2>1. t.at \notin {"none", "queued", "panicked"}
    BY Zenon DEF Begun, Reconciliation
  <2>2. QED
    BY <2>1, TaskFrame, Zenon
<1>3. /\ task[c].at \in Begun \cup {"dormant"}
      /\ task[c].item \in DOMAIN call[c].job /\ Linked(call[c], task[c])
      /\ Carries(call[c], task[c])
      /\ panics = 0 => Calm(call[c], task[c])
  BY <1>1, LiveAt, Zenon DEF Sends, Carries, Holding, Begun
<1>4. Current(c)' = Current(c) /\ Current(c) \in Envelope
  BY <1>1, <1>2, <1>3, SameCurrent, CurrentType, Zenon
<1>5. Sends'
  <2>1. Linked(call'[c], task'[c])
    <3>1. call[c].at \in {"wait", "done", "gone"} /\ call[c].job # <<>>
      BY <1>3, Zenon DEF Linked
    <3>2. QED
      BY <1>2, <3>1, BegunIs, Zenon DEF Linked
  <2>2. Carries(call'[c], task'[c])
    <3>1. t.at \notin {"queued", "dormant"}
      BY BegunIs, Zenon
    <3>2. QED
      BY <1>2, <1>3, <3>1, Zenon DEF Carries
  <2>3. panics = 0 => Calm(call'[c], task'[c])
    BY <1>2, <1>3, Zenon DEF Calm, Begun, Reconciliation
  <2>4. QED
    BY <1>1, <1>2, <2>1, <2>2, <2>3, OneSend, Zenon
<1>6. Guards'
  <2>1. Keeps(call'[c], task'[c]) = Keeps(call[c], task[c])
    BY <1>2, <1>3, Zenon DEF Keeps, Begun, Reconciliation, Holding
  <2>2. guarded' = guarded \ (Keeps(call[c], task[c]) \ Keeps(call'[c], task'[c]))
    BY <2>1, Zenon DEF sourceVars
  <2>3. QED
    BY <1>1, <1>2, <2>1, <2>2, GuardsOne, Zenon DEF sourceVars
<1>7. Envelopes'
  <2>1. \A e \in sent : e.of \in Caller
    BY <1>1, Zenon DEF TypeOK, Envelope
  <2>2. ASSUME NEW e \in sent'
        PROVE  /\ Sent(e, call'[e.of], task'[e.of])
               /\ panics = 0 => task'[e.of].at # "gone"
               /\ task'[e.of].at \in Begun /\ e.item < task'[e.of].item => e \in accepted'
               /\ task'[e.of].at = "finished" => e \in settled'
    <3>1. CASE e \in sent /\ e.of # c
      BY <1>1, <1>2, <2>1, <3>1, Zenon DEF Envelopes, Others, settled
    <3>2. CASE e \in sent /\ e.of = c
      <4>1. Sent(e, call[c], task[c]) /\ task[c].at \in Begun
        BY <1>1, <1>3, <3>2, Zenon DEF Envelopes, Sent
      <4>2. t.at \notin {"none", "queued", "dormant", "gone", "finished"}
        BY Zenon DEF Begun, Reconciliation
      <4>3. QED
        BY <1>1, <1>2, <3>2, <4>1, <4>2, Zenon DEF Envelopes, Sent
    <3>3. CASE e = Current(c)
      <4>1. /\ e.of = c /\ e.item = task[c].item /\ e.source = call[c].job[task[c].item]
            /\ e.until = call[c].until /\ task[c].item \in Nat
        BY <1>1, <3>3, CurrentFields, Records, Zenon
      <4>2. t.at \notin {"none", "queued", "dormant", "gone", "finished", "check"}
        BY Zenon DEF Begun, Reconciliation
      <4>3. task[c].item <= task[c].item /\ ~ (task[c].item < task[c].item)
        BY <4>1
      <4>4. QED
        BY <1>2, <1>3, <4>1, <4>2, <4>3, Zenon DEF Sent
    <3>4. QED
      BY <3>1, <3>2, <3>3, Zenon
  <2>3. \A d \in Caller : task'[d].at \in OnTheWire => Current(d)' \in sent'
    <3>1. \A d \in Caller \ {c} : Current(d)' = Current(d) /\ task'[d] = task[d]
      BY <1>2, SameCurrent, Zenon DEF Others
    <3>2. QED
      BY <1>1, <1>2, <1>4, <3>1, Zenon DEF Envelopes
  <2>4. DefiniteMeansUnsent'
    <3>1. panics = 0 => call[c].outcome.kind \notin {"definite", "busy", "unavailable"}
      <4>1. task[c].at \notin {"none", "finished", "gone"}
        BY <1>3, BegunIs, Zenon
      <4>2. QED
        BY <1>3, <4>1, Zenon DEF Calm, Failure
    <3>2. \A e \in sent' : e.of # c => e \in sent
      BY CurrentFields, ZenonT(30)
    <3>3. QED
      BY <1>1, <3>1, <3>2, Zenon DEF Envelopes, DefiniteMeansUnsent, settled
  <2>5. QED
    BY <2>2, <2>3, <2>4, Zenon DEF Envelopes
<1>8. Absences'
  <2>1. Scanned(Current(c), task[c])'
    BY <1>2, <1>4, Zenon DEF Scanned, nodeVars
  <2>2. QED
    BY <1>1, <1>2, <2>1, AbsencesQuiet, Zenon
<1>9. TypeOK'
  <2>1. sent \subseteq sent' /\ sent' \subseteq Envelope /\ settled' \subseteq sent'
    BY <1>1, <1>4, Zenon DEF TypeOK, settled
  <2>2. QED
    BY <1>1, <1>2, <2>1, TypesOne, Zenon DEF TypeOK, sourceVars
<1>10. QED
  BY <1>2, <1>5, <1>6, <1>7, <1>8, <1>9, Zenon DEF IInv

\* A task before it is registered, and one that is over.
LEMMA TaskEnds ==
    /\ NoTask \in SubmissionTask /\ Finished \in SubmissionTask /\ Dropped \in SubmissionTask
    /\ NoTask.at = "none" /\ Finished.at = "finished" /\ Dropped.at = "gone"
    /\ NoTask.holds = {} /\ Finished.holds = {} /\ Dropped.holds = {}
    /\ NoTask.activation = "held" /\ Finished.activation = "held" /\ Dropped.activation = "held"
    /\ NoTask.seen = 0 /\ Finished.seen = 0 /\ Dropped.seen = 0
    /\ NoTask.item = 1 /\ Dropped.item = 1 /\ NoTask.tries = 0
<1>1. NoTask \in SubmissionTask
  BY BoundsAreNumbers DEF NoTask, SubmissionTask, TaskPhases
<1>2. Finished \in SubmissionTask /\ Dropped \in SubmissionTask
  BY <1>1, Zenon DEF Finished, Dropped, SubmissionTask, TaskPhases
<1>3. /\ NoTask.at = "none" /\ NoTask.holds = {} /\ NoTask.activation = "held"
      /\ NoTask.seen = 0 /\ NoTask.item = 1 /\ NoTask.tries = 0
  BY DEF NoTask
<1>4. /\ Finished.at = "finished" /\ Dropped.at = "gone" /\ Finished.holds = {} /\ Dropped.holds = {}
      /\ Finished.activation = "held" /\ Dropped.activation = "held"
      /\ Finished.seen = 0 /\ Dropped.seen = 0 /\ Dropped.item = 1
  BY DEF NoTask, Finished, Dropped
<1>5. QED
  BY <1>1, <1>2, <1>3, <1>4, Zenon

\* Nothing is kept for a task that is over.
LEMMA EndedKeeps ==
    /\ \A k : Keeps(k, NoTask) = {} /\ Keeps(k, Finished) = {} /\ Keeps(k, Dropped) = {}
    /\ {"none", "finished", "gone", "panicked"} \cap (Begun \cup Holding) = {}
<1>1. {"none", "finished", "gone", "panicked"} \cap (Begun \cup Holding) = {}
  BY Zenon DEF Reconciliation, Begun, Holding
<1>2. {"none", "finished", "gone"} \cap Reconciliation = {}
  BY Zenon DEF Reconciliation
<1>3. QED
  BY <1>1, <1>2, TaskEnds, Zenon DEF Keeps

\* What a running task keeps: all of its batch, or the source it reconciles.
LEMMA RunningKeeps ==
    ASSUME IInv, NEW c \in Caller
    PROVE  /\ task[c].at \in Holding => Keeps(call[c], task[c]) = task[c].holds
           /\ task[c].at \in Reconciliation =>
                  Keeps(call[c], task[c]) = {call[c].job[task[c].item]}
<1>1. task[c].at \in Holding => task[c].at \notin Reconciliation
  BY Zenon DEF Holding, Reconciliation
<1>2. task[c].at \in Reconciliation => task[c].holds = {}
  BY <1>1, Zenon DEF IInv, Sends, Carries
<1>3. QED
  BY <1>1, <1>2, Zenon DEF Keeps

\* The task is over, with everything it sent settled.
LEMMA FinishSafe ==
    ASSUME IInv, NEW c \in Caller, task[c].at \in Begun, task' = [task EXCEPT ![c] = Finished],
           call' \in [Caller -> Handler], \A d \in Caller \ {c} : call'[d] = call[d],
           call'[c].at = call[c].at, call'[c].job = call[c].job, call'[c].until = call[c].until,
           guarded' = guarded \ Keeps(call[c], task[c]), sent' = sent,
           accepted \subseteq accepted', absent \subseteq absent', settled' \subseteq sent,
           \A e \in sent : e.of = c => e \in settled',
           panics = 0 /\ call'[c].outcome.kind \in Failure =>
               /\ call'[c].outcome.kind = "definite"
               /\ \A e \in sent : e.of = c => e.item < call'[c].outcome.item,
           GivenUpNeverLands', UNCHANGED <<preparing, appVars, nodeVars, panics>>
    PROVE  IInv'
<1>1. TypeOK /\ Guards /\ Envelopes /\ Absences /\ Sends
  BY Zenon DEF IInv
<1>2. /\ Others(c) /\ task'[c] = Finished /\ task' \in [Caller -> SubmissionTask]
      /\ Queues' /\ Supervision'
  BY <1>1, LiveAt, TaskEnds, TaskFrame, Zenon
<1>3. call[c].at \in {"wait", "done", "gone"} /\ call[c].job # <<>>
  BY <1>1, Zenon DEF Sends, Linked
<1>4. Keeps(call'[c], task'[c]) = {} /\ "finished" \notin Begun /\ "finished" \notin Holding
  BY <1>2, EndedKeeps, Zenon
<1>5. Sends'
  <2>1. Linked(call'[c], task'[c])
    BY <1>2, <1>3, <1>4, TaskEnds, Zenon DEF Linked
  <2>2. Carries(call'[c], task'[c])
    BY <1>2, <1>4, TaskEnds, Zenon DEF Carries
  <2>3. Calm(call'[c], task'[c])
    BY <1>2, TaskEnds, Zenon DEF Calm
  <2>4. QED
    BY <1>1, <1>2, <2>1, <2>2, <2>3, OneSend, Zenon
<1>6. Guards'
  <2>1. Leases(call'[c]) = Leases(call[c])
    BY <1>3, Zenon DEF Leases
  <2>2. guarded' = guarded \ (Keeps(call[c], task[c]) \ Keeps(call'[c], task'[c]))
    BY <1>4, Zenon
  <2>3. QED
    BY <1>1, <1>2, <1>4, <2>1, <2>2, GuardsOne, Zenon
<1>7. Envelopes'
  <2>1. \A e \in sent : e.of \in Caller
    BY <1>1, Zenon DEF TypeOK, Envelope
  <2>2. settled \subseteq settled'
    BY Zenon DEF settled
  <2>3. ASSUME NEW e \in sent
        PROVE  /\ Sent(e, call'[e.of], task'[e.of])
               /\ panics = 0 => task'[e.of].at # "gone"
               /\ task'[e.of].at \in Begun /\ e.item < task'[e.of].item => e \in accepted'
               /\ task'[e.of].at = "finished" => e \in settled'
    <3>1. CASE e.of # c
      BY <1>1, <1>2, <2>1, <2>2, <3>1, Zenon DEF Envelopes, Others
    <3>2. CASE e.of = c
      <4>1. Sent(e, call[c], task[c])
        BY <1>1, <3>2, Zenon DEF Envelopes
      <4>2. QED
        BY <1>2, <1>4, <3>2, <4>1, TaskEnds, Zenon DEF Sent
    <3>3. QED
      BY <3>1, <3>2, Zenon
  <2>4. \A d \in Caller : task'[d].at \in OnTheWire => Current(d)' \in sent'
    <3>1. \A d \in Caller \ {c} : Current(d)' = Current(d) /\ task'[d] = task[d]
      BY <1>2, SameCurrent, Zenon DEF Others
    <3>2. task'[c].at \notin OnTheWire
      BY <1>2, TaskEnds, Zenon DEF OnTheWire, Reconciliation
    <3>3. QED
      BY <1>1, <3>1, <3>2, Zenon DEF Envelopes
  <2>5. DefiniteMeansUnsent'
    <3>1. ASSUME NEW d \in Caller, NEW e \in sent, e.of = d, panics = 0,
                 call'[d].outcome.kind \in {"definite", "busy", "unavailable"}
          PROVE  /\ call'[d].outcome.kind = "definite" /\ e.item < call'[d].outcome.item
                 /\ e \in settled'
      <4>1. CASE d = c
        BY <3>1, <4>1, Zenon DEF Failure
      <4>2. CASE d # c
        BY <1>1, <2>2, <3>1, <4>2, Zenon DEF Envelopes, DefiniteMeansUnsent
      <4>3. QED
        BY <4>1, <4>2, Zenon
    <3>2. QED
      BY <3>1, Zenon DEF DefiniteMeansUnsent
  <2>6. QED
    BY <2>3, <2>4, <2>5, Zenon DEF Envelopes
<1>8. Absences'
  <2>1. Scanned(Current(c), task[c])'
    <3>1. 0 <= checkpoint /\ checkpoint' = checkpoint
      BY <1>1 DEF TypeOK, nodeVars
    <3>2. QED
      BY <1>2, <3>1, TaskEnds, Zenon DEF Scanned
  <2>2. QED
    BY <1>1, <1>2, <2>1, AbsencesOne, Zenon
<1>9. TypeOK'
  BY <1>1, <1>2, TypesOne, Zenon DEF TypeOK
<1>10. QED
  BY <1>2, <1>5, <1>6, <1>7, <1>8, <1>9, Zenon DEF IInv

\* The envelope was taken and is not the last one of its batch.
LEMMA AdvanceSafe ==
    ASSUME IInv, NEW c \in Caller, task[c].at \in {"answer", "status"},
           task[c].item # Len(call[c].job), accepted' = accepted \cup {Current(c)},
           task' = [task EXCEPT ![c].at = "check", ![c].item = @ + 1],
           UNCHANGED <<sourceVars, call, appVars, nodeVars, sent, absent, panics>>
    PROVE  IInv'
<1> DEFINE t == [task[c] EXCEPT !.at = "check", !.item = task[c].item + 1]
<1>1. TypeOK /\ Guards /\ Envelopes /\ Absences /\ Sends
  BY Zenon DEF IInv
<1>2. /\ task[c].item \in Nat /\ task[c] \in SubmissionTask /\ task[c].item \in 1 .. Len(call[c].job)
      /\ Len(call[c].job) \in Nat /\ DOMAIN call[c].job = 1 .. Len(call[c].job)
      /\ task[c].item \in DOMAIN call[c].job
  <2>1. task[c].item \in DOMAIN call[c].job
    BY <1>1, Zenon DEF Sends, Carries, Begun
  <2>2. QED
    BY <1>1, <2>1, Records, BatchSources, Zenon
<1>3. /\ task[c].item + 1 \in Nat /\ task[c].item + 1 \in DOMAIN call[c].job
      /\ \A i \in Nat : i <= task[c].item => i <= task[c].item + 1 /\ i # task[c].item + 1
      /\ \A i \in Nat : i <= task[c].item => i < task[c].item \/ i = task[c].item
  BY <1>2
<1>4. /\ t \in SubmissionTask /\ t.at = "check" /\ t.item = task[c].item + 1
      /\ t.holds = task[c].holds /\ t.activation = task[c].activation /\ t.seen = task[c].seen
  BY <1>2, <1>3, Zenon DEF SubmissionTask, TaskPhases
<1>5. task' = [task EXCEPT ![c] = t]
  BY Zenon
<1> HIDE DEF t
<1>6. /\ Others(c) /\ task'[c] = t /\ task' \in [Caller -> SubmissionTask]
      /\ Queues' /\ Supervision'
  <2>1. Live(c) /\ t.at \notin {"none", "queued", "panicked"}
    BY <1>4, Zenon DEF Live
  <2>2. QED
    BY <1>4, <1>5, <2>1, TaskFrame, Zenon
<1>7. /\ task[c].activation = "started" /\ call[c].at \in {"wait", "done", "gone"}
      /\ call[c].job # <<>> /\ task[c].holds = Batch(call[c])
      /\ panics = 0 => call[c].outcome.kind \notin Failure
  <2>1. task[c].at \in Begun /\ task[c].at \in Holding
    BY Zenon DEF Begun, Holding
  <2>2. QED
    BY <1>1, <2>1, BegunIs, Zenon DEF Sends, Linked, Carries, Calm
<1>8. Sends'
  <2>1. Linked(call'[c], task'[c])
    BY <1>4, <1>6, <1>7, Zenon DEF Linked
  <2>2. Carries(call'[c], task'[c])
    BY <1>3, <1>4, <1>6, <1>7, Zenon DEF Carries, Holding
  <2>3. panics = 0 => Calm(call'[c], task'[c])
    BY <1>4, <1>6, <1>7, Zenon DEF Calm
  <2>4. QED
    BY <1>1, <1>6, <2>1, <2>2, <2>3, OneSend, Zenon
<1>9. Guards'
  <2>1. Keeps(call'[c], task'[c]) = Keeps(call[c], task[c])
    BY <1>4, <1>6, Zenon DEF Keeps, Reconciliation
  <2>2. guarded' = guarded \ (Keeps(call[c], task[c]) \ Keeps(call'[c], task'[c]))
    BY <2>1, Zenon DEF sourceVars
  <2>3. QED
    BY <1>1, <1>6, <2>1, <2>2, GuardsOne, Zenon DEF sourceVars
<1>10. Envelopes'
  <2>1. \A e \in sent : e.of \in Caller /\ e.item \in Nat
    BY <1>1, Zenon DEF TypeOK, Envelope
  <2>2. settled \subseteq settled'
    BY Zenon DEF settled
  <2>3. ASSUME NEW e \in sent
        PROVE  /\ Sent(e, call'[e.of], task'[e.of])
               /\ panics = 0 => task'[e.of].at # "gone"
               /\ task'[e.of].at \in Begun /\ e.item < task'[e.of].item => e \in accepted'
               /\ task'[e.of].at = "finished" => e \in settled'
    <3>1. CASE e.of # c
      BY <1>1, <1>6, <2>1, <2>2, <3>1, Zenon DEF Envelopes, Others
    <3>2. CASE e.of = c
      <4>1. Sent(e, call[c], task[c]) /\ e.item <= task[c].item /\ task[c].at \in Begun
        BY <1>1, <3>2, Zenon DEF Envelopes, Sent, Begun
      <4>2. e.item <= t.item /\ e.item # t.item
        BY <1>3, <1>4, <2>1, <4>1, Zenon
      <4>3. e \in accepted'
        <5>1. CASE e.item < task[c].item
          BY <1>1, <3>2, <4>1, <5>1, Zenon DEF Envelopes
        <5>2. CASE e.item = task[c].item
          BY <1>1, <3>2, <4>1, <5>2, SentCurrent, Zenon
        <5>3. QED
          BY <1>3, <2>1, <4>1, <5>1, <5>2, Zenon
      <4>4. QED
        BY <1>4, <1>6, <3>2, <4>1, <4>2, <4>3, Zenon DEF Sent
    <3>3. QED
      BY <3>1, <3>2, Zenon
  <2>4. \A d \in Caller : task'[d].at \in OnTheWire => Current(d)' \in sent'
    <3>1. \A d \in Caller \ {c} : Current(d)' = Current(d) /\ task'[d] = task[d]
      BY <1>6, SameCurrent, Zenon DEF Others
    <3>2. task'[c].at \notin OnTheWire
      BY <1>4, <1>6, Zenon DEF OnTheWire, Reconciliation
    <3>3. QED
      BY <1>1, <3>1, <3>2, Zenon DEF Envelopes
  <2>5. DefiniteMeansUnsent'
    BY <1>1, <2>2, Zenon DEF Envelopes, DefiniteMeansUnsent
  <2>6. QED
    BY <2>3, <2>4, <2>5, Zenon DEF Envelopes
<1>11. Absences'
  <2>1. task[c].seen <= checkpoint
    BY <1>1, Zenon DEF Absences, Scanned
  <2>2. Scanned(Current(c), task[c])'
    BY <1>4, <1>6, <2>1, Zenon DEF Scanned, nodeVars
  <2>3. QED
    BY <1>1, <1>6, <2>2, AbsencesQuiet, Zenon
<1>12. TypeOK'
  <2>1. Current(c) \in sent
    BY <1>1, Zenon DEF Envelopes, OnTheWire
  <2>2. settled' \subseteq sent' /\ sent \subseteq sent' /\ sent' \subseteq Envelope
    BY <1>1, <2>1, Zenon DEF TypeOK, settled
  <2>3. QED
    BY <1>1, <1>6, <2>2, TypesOne, Zenon DEF TypeOK, sourceVars
<1>13. QED
  BY <1>6, <1>8, <1>9, <1>10, <1>11, <1>12, Zenon DEF IInv

\* The outcome stays unknown: the task keeps the source of the envelope.
LEMMA RetainSafe ==
    ASSUME IInv, NEW c \in Caller, task[c].at \in {"status", "expiry"}, RetainAmbiguity(c),
           UNCHANGED <<preparing, appVars, nodeVars, sent, absent, panics>>
    PROVE  IInv'
<1> DEFINE t == [task[c] EXCEPT !.at = "inspect", !.holds = {}, !.tries = 0]
           o == Told("ambiguous", task[c].item)
<1>1. TypeOK /\ Guards /\ Envelopes /\ Absences /\ Sends
  BY Zenon DEF IInv
<1>2. task[c] \in SubmissionTask /\ call[c] \in Handler /\ task[c].item \in Nat
      /\ call \in [Caller -> Handler]
  BY <1>1, Records, Zenon DEF TypeOK
<1>3. 0 \in 0 .. 3
  OBVIOUS
<1>4. /\ t \in SubmissionTask /\ t.at = "inspect" /\ t.item = task[c].item /\ t.holds = {}
      /\ t.activation = task[c].activation /\ t.seen = task[c].seen
  BY <1>2, <1>3, Zenon DEF SubmissionTask, TaskPhases
<1>5. o \in Outcome /\ o.kind = "ambiguous"
  BY <1>2, Zenon DEF Outcome, Told
<1>6. /\ task' = [task EXCEPT ![c] = t] /\ call' = [call EXCEPT ![c].outcome = o]
      /\ guarded' = guarded \ (task[c].holds \ {Current(c).source}) /\ accepted' = accepted
  BY Zenon DEF RetainAmbiguity
<1> HIDE DEF t, o
<1>7. /\ call' \in [Caller -> Handler] /\ \A d \in Caller \ {c} : call'[d] = call[d]
      /\ call'[c].at = call[c].at /\ call'[c].job = call[c].job /\ call'[c].until = call[c].until
      /\ call'[c].outcome = o
  BY <1>2, <1>5, <1>6, Zenon DEF Handler
<1>8. /\ Others(c) /\ task'[c] = t /\ task' \in [Caller -> SubmissionTask]
      /\ Queues' /\ Supervision'
  <2>1. Live(c) /\ t.at \notin {"none", "queued", "panicked"}
    BY <1>4, Zenon DEF Live
  <2>2. QED
    BY <1>4, <1>6, <1>7, <2>1, TaskFrame, Zenon
<1>9. /\ task[c].activation = "started" /\ call[c].at \in {"wait", "done", "gone"}
      /\ call[c].job # <<>> /\ task[c].holds = Batch(call[c])
      /\ task[c].item \in DOMAIN call[c].job
  <2>1. task[c].at \in Begun /\ task[c].at \in Holding
    BY Zenon DEF Begun, Holding
  <2>2. QED
    BY <1>1, <2>1, Zenon DEF Sends, Linked, Carries
<1>10. Current(c)' = Current(c)
  BY <1>4, <1>7, <1>8, SameCurrent, Zenon
<1>11. Sends'
  <2>1. Linked(call'[c], task'[c])
    BY <1>4, <1>5, <1>7, <1>8, <1>9, Zenon DEF Linked, Failure
  <2>2. Carries(call'[c], task'[c])
    BY <1>4, <1>7, <1>8, <1>9, Zenon DEF Carries, Holding
  <2>3. Calm(call'[c], task'[c])
    BY <1>4, <1>5, <1>7, <1>8, Zenon DEF Calm, Failure
  <2>4. QED
    BY <1>1, <1>8, <2>1, <2>2, <2>3, OneSend, Zenon
<1>12. Guards'
  <2>1. Keeps(call'[c], task'[c]) = {call[c].job[task[c].item]}
    BY <1>4, <1>7, <1>8, Zenon DEF Keeps, Reconciliation
  <2>2. Keeps(call[c], task[c]) = task[c].holds
    BY RunningKeeps, Zenon DEF Holding
  <2>3. call[c].job[task[c].item] \in task[c].holds
    BY <1>9, Zenon DEF Batch
  <2>4. Current(c).source = call[c].job[task[c].item]
    BY CurrentFields, Zenon
  <2>5. Leases(call'[c]) = Leases(call[c])
    BY <1>7, <1>9, Zenon DEF Leases
  <2>6. guarded' = guarded \ (Keeps(call[c], task[c]) \ Keeps(call'[c], task'[c]))
    BY <1>6, <2>1, <2>2, <2>4, Zenon
  <2>7. Keeps(call'[c], task'[c]) \subseteq Keeps(call[c], task[c])
    BY <2>1, <2>2, <2>3, Zenon
  <2>8. QED
    BY <1>1, <1>8, <2>5, <2>6, <2>7, GuardsOne, Zenon
<1>13. Envelopes'
  <2>1. \A e \in sent : e.of \in Caller
    BY <1>1, Zenon DEF TypeOK, Envelope
  <2>2. ASSUME NEW e \in sent
        PROVE  /\ Sent(e, call'[e.of], task'[e.of])
               /\ panics = 0 => task'[e.of].at # "gone"
               /\ task'[e.of].at \in Begun /\ e.item < task'[e.of].item => e \in accepted'
               /\ task'[e.of].at = "finished" => e \in settled'
    <3>1. CASE e.of # c
      BY <1>1, <1>6, <1>8, <2>1, <3>1, Zenon DEF Envelopes, Others, settled
    <3>2. CASE e.of = c
      <4>1. Sent(e, call[c], task[c]) /\ e.item <= task[c].item /\ task[c].at \in Begun
        BY <1>1, <3>2, Zenon DEF Envelopes, Sent, Begun
      <4>2. QED
        BY <1>1, <1>4, <1>6, <1>7, <1>8, <3>2, <4>1, ZenonT(30) DEF Envelopes, Sent
    <3>3. QED
      BY <3>1, <3>2, Zenon
  <2>3. \A d \in Caller : task'[d].at \in OnTheWire => Current(d)' \in sent'
    <3>1. \A d \in Caller \ {c} : Current(d)' = Current(d) /\ task'[d] = task[d]
      BY <1>8, SameCurrent, Zenon DEF Others
    <3>2. task[c].at \in OnTheWire
      BY Zenon DEF OnTheWire
    <3>3. QED
      BY <1>1, <1>10, <3>1, <3>2, Zenon DEF Envelopes
  <2>4. DefiniteMeansUnsent'
    BY <1>1, <1>5, <1>6, <1>7, ZenonT(30) DEF Envelopes, DefiniteMeansUnsent, settled
  <2>5. QED
    BY <2>2, <2>3, <2>4, Zenon DEF Envelopes
<1>14. Absences'
  <2>1. task[c].seen <= checkpoint
    BY <1>1, Zenon DEF Absences, Scanned
  <2>2. Scanned(Current(c), task[c])'
    BY <1>4, <1>8, <2>1, Zenon DEF Scanned, nodeVars
  <2>3. QED
    BY <1>1, <1>8, <2>2, AbsencesQuiet, Zenon
<1>15. TypeOK'
  <2>1. settled' \subseteq sent' /\ sent \subseteq sent' /\ sent' \subseteq Envelope
    BY <1>1, <1>6, Zenon DEF TypeOK, settled
  <2>2. QED
    BY <1>1, <1>6, <1>7, <1>8, <2>1, TypesOne, Zenon DEF TypeOK
<1>16. QED
  BY <1>8, <1>11, <1>12, <1>13, <1>14, <1>15, Zenon DEF IInv

\* A step of one send before its envelopes leave, or of its handler alone.
LEMMA HandlerSafe ==
    ASSUME IInv, NEW c \in Caller, Others(c),
           call' \in [Caller -> Handler], task' \in [Caller -> SubmissionTask],
           UNCHANGED <<supervisor, stage, sync, nodeVars, sent, accepted, absent, panics>>,
           Linked(call'[c], task'[c]), Carries(call'[c], task'[c]),
           panics = 0 => Calm(call'[c], task'[c]),
           \/ /\ task[c].at \in {"none", "queued", "dormant"}
              /\ task'[c].at \in {"none", "queued", "dormant", "gone"}
              /\ task'[c].seen = 0 \/ task'[c].seen = task[c].seen
           \/ /\ task'[c].at = task[c].at /\ task'[c].item = task[c].item
              /\ call'[c].job = call[c].job /\ call'[c].until = call[c].until
              /\ \/ task'[c].seen = task[c].seen /\ task'[c].read = task[c].read
                 \/ task'[c].seen = 0 /\ task[c].at = "gone",
           \/ call'[c].outcome = call[c].outcome
           \/ panics = 0 => task[c].at \in {"none", "queued", "dormant", "gone"},
           supervisor # "running" => (Live(c)' => Live(c)),
           call[c].at \in {"new", "done", "gone"} /\ ~ HandlersRun =>
               call'[c].at = call[c].at,
           queue' = queue \/ supervisor = "running",
           queue' \in Seq(Caller \cup {Close}), Len(queue') <= Capacity,
           Queues', Guards', preparing' \subseteq Source, guarded' \subseteq Source
    PROVE  IInv'
<1>1. TypeOK /\ Guards /\ Envelopes /\ Absences /\ Sends /\ Supervision
  BY Zenon DEF IInv
<1>2. Sends'
  BY <1>1, OneSend, Zenon
<1>3. Envelopes'
  <2>1. {"none", "queued", "dormant", "gone"} \cap OnTheWire = {}
    BY Zenon DEF OnTheWire, Reconciliation
  <2>2. QED
    BY <1>1, <2>1, EnvelopesQuiet, Zenon
<1>4. Absences'
  <2>1. 0 <= checkpoint /\ checkpoint' = checkpoint /\ landed' = landed
    BY <1>1 DEF TypeOK, nodeVars
  <2>2. Scanned(Current(c), task[c])
    BY <1>1, Zenon DEF Absences
  <2>3. task'[c].seen <= checkpoint
    BY <2>1, <2>2, Zenon DEF Scanned
  <2>4. Scanned(Current(c), task[c])'
    <3>1. CASE task'[c].at \in {"none", "queued", "dormant", "gone"}
      BY <2>1, <2>3, <3>1, Zenon DEF Scanned
    <3>2. CASE /\ task'[c].at = task[c].at /\ task'[c].item = task[c].item
               /\ call'[c].job = call[c].job /\ call'[c].until = call[c].until
               /\ task'[c].seen = task[c].seen /\ task'[c].read = task[c].read
      <4>1. Current(c)' = Current(c)
        BY <3>2, SameCurrent, Zenon
      <4>2. QED
        BY <2>1, <2>2, <3>2, <4>1, Zenon DEF Scanned
    <3>3. QED
      BY <3>1, <3>2, Zenon
  <2>5. QED
    BY <1>1, <2>4, AbsencesQuiet, Zenon
<1>5. Supervision'
  <2>1. supervisor \in {"ended", "failed"} =>
            task'[c].at \in {"none", "queued", "finished", "gone"}
    <3>1. supervisor \in {"ended", "failed"} => ~ Live(c) /\ task[c].at # "panicked"
      BY <1>1, Zenon DEF Supervision
    <3>2. QED
      BY <3>1, Zenon DEF Live
  <2>2. task[c].at = "panicked" => task'[c].at = "panicked"
    BY Zenon
  <2>3. QED
    BY <1>1, <2>1, <2>2, SupervisionOne, Zenon
<1>6. TypeOK'
  <2>1. SubmissionTask' = SubmissionTask
    BY Zenon DEF SubmissionTask, nodeVars
  <2>2. QED
    BY <1>1, <2>1, Zenon DEF TypeOK, nodeVars, settled
<1>7. QED
  BY <1>2, <1>3, <1>4, <1>5, <1>6, Zenon DEF IInv

-----------------------------------------------------------------------------
(* The steps of a handler.                                                 *)

\* The records of one send after a step that sets them.
LEMMA SetCall ==
    ASSUME TypeOK, NEW c \in Caller, NEW k \in Handler, call' = [call EXCEPT ![c] = k]
    PROVE  /\ call'[c] = k /\ call' \in [Caller -> Handler]
           /\ \A d \in Caller \ {c} : call'[d] = call[d]
BY Zenon DEF TypeOK

LEMMA SetTask ==
    ASSUME TypeOK, NEW c \in Caller, NEW t \in SubmissionTask, task' = [task EXCEPT ![c] = t]
    PROVE  /\ task'[c] = t /\ task' \in [Caller -> SubmissionTask]
           /\ \A d \in Caller \ {c} : task'[d] = task[d]
BY Zenon DEF TypeOK

\* A step of a handler that has no task yet: it takes or ends its leases.
LEMMA LeaseStep ==
    ASSUME IInv, NEW c \in Caller, NEW k \in Handler, call[c].at \in {"new", "prepare", "prepared"},
           call' = [call EXCEPT ![c] = k], k.at \in {"prepare", "prepared", "done", "gone"},
           k.job # <<>>, k.outcome.kind \in Failure => k.at = "done",
           call[c].at = "new" => HandlersRun,
           UNCHANGED <<guarded, task, appVars, nodeVars, sent, accepted, absent, panics>>,
           preparing' \subseteq Source, Guards'
    PROVE  IInv'
<1>1. TypeOK /\ Queues /\ task \in [Caller -> SubmissionTask] /\ guarded \subseteq Source
      /\ queue \in Seq(Caller \cup {Close}) /\ Len(queue) <= Capacity
  BY Zenon DEF IInv, TypeOK
<1>2. task[c] = NoTask
  BY Zenon DEF IInv, Sends, Linked
<1>3. /\ call'[c] = k /\ call' \in [Caller -> Handler] /\ Others(c) /\ task'[c] = NoTask
      /\ task'[c] = task[c]
  BY <1>1, <1>2, SetCall, Zenon DEF Others
<1>4. /\ NoTask.at = "none" /\ NoTask.holds = {} /\ NoTask.activation = "held"
      /\ NoTask.at \notin Begun /\ NoTask.at \notin Holding
  BY TaskEnds, Zenon DEF Begun, Holding, Reconciliation
<1>5. Linked(call'[c], task'[c]) /\ Carries(call'[c], task'[c]) /\ Calm(call'[c], task'[c])
  <2>1. Linked(k, NoTask)
    BY <1>4, Zenon DEF Linked
  <2>2. Carries(k, NoTask)
    BY <1>4, Zenon DEF Carries
  <2>3. Calm(k, NoTask)
    BY <1>4, Zenon DEF Calm
  <2>4. QED
    BY <1>3, <2>1, <2>2, <2>3, Zenon
<1>6. Queues'
  BY <1>1, <1>2, <1>3, <1>4, QueuesOne, Zenon DEF appVars
<1>7. Live(c)' => Live(c)
  BY <1>3, Zenon DEF Live
<1>8. task[c].at = "none" /\ task'[c].at = "none" /\ task'[c].seen = task[c].seen
  BY <1>2, <1>3, <1>4, Zenon
<1>9. task' = task /\ queue' = queue /\ guarded' = guarded
  BY Zenon DEF appVars
<1>10. QED
  BY <1>1, <1>3, <1>5, <1>6, <1>7, <1>8, <1>9, HandlerSafe, Zenon DEF appVars

\* What an answer of a handler's own is.
LEMMA ToldIs ==
    ASSUME NEW kind \in {"none", "ok", "busy", "definite", "ambiguous", "unavailable"}, NEW i \in Nat
    PROVE  Told(kind, i) \in Outcome /\ Told(kind, i).kind = kind /\ Told(kind, i).item = i
BY Zenon DEF Told, Outcome

LEMMA LeaseSafe ==
    ASSUME IInv, NEW c \in Caller, NEW job \in Jobs[c], Lease(c, job)
    PROVE  IInv'
<1> DEFINE wanted == {job[i] : i \in DOMAIN job}
           busy == {i \in DOMAIN job : job[i] \in Busy}
<1>1. /\ call[c].at = "new" /\ HandlersRun
      /\ UNCHANGED <<guarded, task, appVars, nodeVars, sent, accepted, absent, panics>>
      /\ IF busy # {}
         THEN /\ \E i \in busy :
                    call' = [call EXCEPT ![c].at = "done", ![c].job = job,
                                         ![c].outcome = Told("busy", i)]
              /\ UNCHANGED preparing
         ELSE /\ call' = [call EXCEPT ![c].at = "prepare", ![c].job = job]
              /\ preparing' = preparing \cup wanted
  BY Zenon DEF Lease
<1>2. job \in Seq(Source) /\ job # <<>>
  BY JobsAreBatches, Zenon
<1>3. /\ TypeOK /\ Guards /\ call[c] \in Handler /\ task[c] = NoTask
      /\ preparing \subseteq Source /\ guarded \subseteq Source
  BY <1>1, Records, Zenon DEF IInv, Sends, Linked, TypeOK
<1>4. \A i \in DOMAIN job : i \in Nat /\ job[i] \in Source
  BY <1>2
<1>5. CASE busy # {}
  <2>1. PICK i \in DOMAIN job : call' = [call EXCEPT ![c].at = "done", ![c].job = job,
                                                      ![c].outcome = Told("busy", i)]
    BY <1>1, <1>5, Zenon
  <2>2. PICK o \in Outcome : o = Told("busy", i)
    BY <1>4, ToldIs, Zenon
  <2> DEFINE k == [call[c] EXCEPT !.at = "done", !.job = job, !.outcome = o]
  <2>3. k \in Handler /\ k.at = "done" /\ k.job = job
    BY <1>2, <1>3, Zenon DEF Handler, Phases
  <2>4. call' = [call EXCEPT ![c] = k]
    BY <2>1, <2>2, Zenon
  <2> HIDE DEF k
  <2>5. Guards'
    <3>1. Leases(k) = {} /\ Leases(call[c]) = {}
      BY <1>1, <2>3, Zenon DEF Leases
    <3>2. call'[c] = k /\ Others(c) /\ task'[c] = task[c] /\ Keeps(k, NoTask) = {}
      BY <1>1, <1>3, <2>3, <2>4, SetCall, EndedKeeps, Zenon DEF Others
    <3>3. Keeps(call[c], NoTask) = {}
      BY EndedKeeps, Zenon
    <3>4. preparing' = preparing \ Leases(call[c])
      BY <1>1, <1>5, <3>1, Zenon
    <3>5. QED
      BY <1>1, <1>3, <3>1, <3>2, <3>3, <3>4, LeaseEnds, Zenon
  <2>6. preparing' \subseteq Source
    BY <1>1, <1>3, <1>5, Zenon
  <2>7. QED
    BY <1>1, <1>2, <2>3, <2>4, <2>5, <2>6, LeaseStep, Zenon
<1>6. CASE busy = {}
  <2> DEFINE k == [call[c] EXCEPT !.at = "prepare", !.job = job]
  <2>1. /\ k \in Handler /\ k.at = "prepare" /\ k.job = job /\ k.outcome = call[c].outcome
    BY <1>2, <1>3, Zenon DEF Handler, Phases
  <2>2. call' = [call EXCEPT ![c] = k] /\ preparing' = preparing \cup wanted
    BY <1>1, <1>6, Zenon
  <2> HIDE DEF k
  <2>3. call'[c] = k /\ Others(c) /\ task'[c] = NoTask
    BY <1>1, <1>3, <2>1, <2>2, SetCall, Zenon DEF Others
  <2>4. Leases(k) = wanted /\ wanted \subseteq Source /\ Leases(call[c]) = {}
    BY <1>1, <1>4, <2>1, Zenon DEF Leases, Batch
  <2>5. \A x \in wanted : x \notin preparing /\ x \notin guarded
    BY <1>6, Zenon DEF Busy
  <2> HIDE DEF wanted
  <2>6. Guards'
    <3>1. Keeps(k, NoTask) = {} /\ Keeps(call[c], NoTask) = {}
      BY EndedKeeps, Zenon
    <3>2. \A d \in Caller : Keeps(call'[d], task'[d]) = Keeps(call[d], task[d])
      BY <1>3, <2>3, <3>1, Zenon DEF Others
    <3>3. \A d \in Caller : Leases(call'[d]) = IF d = c THEN wanted ELSE Leases(call[d])
      BY <2>3, <2>4, Zenon DEF Others
    <3>4. \A d \in Caller : \A x \in wanted : x \notin Has(call[d], task[d])
      BY <1>3, <2>4, <2>5, Zenon DEF Guards, Has
    <3>5. \A d \in Caller : \A x \in Source :
              x \in Has(call'[d], task'[d]) =>
                  x \in Has(call[d], task[d]) \/ (d = c /\ x \in wanted)
      BY <3>2, <3>3, Zenon DEF Has
    <3>6. \A d, e \in Caller : \A x \in Source :
              x \in Has(call'[d], task'[d]) /\ x \in Has(call'[e], task'[e]) => d = e
      BY <1>3, <3>4, <3>5, Zenon DEF Guards
    <3>7. \A x \in Source : x \in preparing' <=> \E d \in Caller : x \in Leases(call'[d])
      BY <1>3, <2>2, <2>4, <3>3, Zenon DEF Guards
    <3>8. QED
      BY <1>1, <1>3, <3>2, <3>6, <3>7, Zenon DEF Guards
  <2>7. k.outcome.kind \notin Failure
    BY <1>1, <2>1, Zenon DEF IInv, Sends, Linked
  <2>8. preparing' \subseteq Source
    BY <1>3, <2>2, <2>4, Zenon
  <2>9. QED
    BY <1>1, <1>2, <2>1, <2>2, <2>6, <2>7, <2>8, LeaseStep, Zenon
<1>7. QED
  BY <1>5, <1>6, Zenon

LEMMA PreparationSafe ==
    ASSUME IInv, NEW c \in Caller, PreparationFails(c) \/ Prepared(c)
    PROVE  IInv'
<1>1. /\ TypeOK /\ Guards /\ call[c] \in Handler /\ task[c] = NoTask /\ call[c].job # <<>>
      /\ preparing \subseteq Source /\ call[c].at = "prepare" /\ Leases(call[c]) = Sources(c)
      /\ call[c].outcome.kind \notin Failure
  BY Records, Zenon DEF IInv, Sends, Linked, TypeOK, PreparationFails, Prepared, Leases, Batch,
                        Sources
<1>2. \A k : Keeps(k, NoTask) = {}
  BY EndedKeeps, Zenon
<1>3. CASE PreparationFails(c)
  <2>1. PICK o \in Outcome : o = Told("unavailable", 0)
    BY ToldIs
  <2> DEFINE k == [call[c] EXCEPT !.at = "done", !.outcome = o]
  <2>2. k \in Handler /\ k.at = "done" /\ k.job = call[c].job
    BY <1>1, Zenon DEF Handler, Phases
  <2>3. /\ call' = [call EXCEPT ![c] = k] /\ preparing' = preparing \ Sources(c)
        /\ UNCHANGED <<guarded, task, appVars, nodeVars, sent, accepted, absent, panics>>
    BY <1>3, <2>1, Zenon DEF PreparationFails
  <2> HIDE DEF k
  <2>4. Guards'
    <3>1. call'[c] = k /\ Others(c) /\ task'[c] = task[c] /\ Leases(k) = {}
      BY <1>1, <2>2, <2>3, SetCall, Zenon DEF Others, Leases
    <3>2. QED
      BY <1>1, <1>2, <2>3, <3>1, LeaseEnds, Zenon
  <2>5. preparing' \subseteq Source
    BY <1>1, <2>3, Zenon
  <2>6. QED
    BY <1>1, <2>2, <2>3, <2>4, <2>5, LeaseStep, Zenon
<1>4. CASE Prepared(c)
  <2>1. height + Lifetime \in 0 .. MaxHeight
    BY <1>1, <1>4, BoundsAreNumbers DEF Prepared, TypeOK
  <2> DEFINE k == [call[c] EXCEPT !.at = "prepared", !.until = height + Lifetime]
  <2>2. k \in Handler /\ k.at = "prepared" /\ k.job = call[c].job /\ k.outcome = call[c].outcome
    BY <1>1, <2>1, Zenon DEF Handler, Phases
  <2>3. /\ call' = [call EXCEPT ![c] = k]
        /\ UNCHANGED <<preparing, guarded, task, appVars, nodeVars, sent, accepted, absent, panics>>
    BY <1>4, Zenon DEF Prepared, sourceVars
  <2> HIDE DEF k
  <2>4. Guards'
    <3>1. call'[c] = k /\ Others(c) /\ task'[c] = task[c] /\ Leases(k) = Leases(call[c])
      <4>1. Leases(k) = Batch(call[c]) /\ Leases(call[c]) = Batch(call[c])
        BY <1>1, <2>2, Zenon DEF Leases, Batch
      <4>2. QED
        BY <1>1, <2>2, <2>3, <4>1, SetCall, Zenon DEF Others
    <3>2. guarded' = guarded \ (Keeps(call[c], task[c]) \ Keeps(call'[c], task'[c]))
      BY <1>1, <1>2, <2>3, Zenon
    <3>3. QED
      BY <1>1, <1>2, <2>3, <3>1, <3>2, GuardsOne, Zenon
  <2>5. QED
    BY <1>1, <2>2, <2>3, <2>4, LeaseStep, Zenon
<1>5. QED
  BY <1>3, <1>4, Zenon

LEMMA SubmitSafe ==
    ASSUME IInv, NEW c \in Caller, Submit(c)
    PROVE  IInv'
<1>1. /\ TypeOK /\ Guards /\ Queues /\ call[c] \in Handler /\ task[c] = NoTask
      /\ call[c].job # <<>> /\ preparing \subseteq Source /\ guarded \subseteq Source
      /\ call[c].at = "prepared" /\ Leases(call[c]) = Sources(c)
      /\ call[c].outcome.kind \notin Failure /\ Sources(c) = Batch(call[c])
      /\ call[c].job \in Seq(Source)
  BY Records, Zenon DEF IInv, Sends, Linked, TypeOK, Submit, Leases, Batch, Sources
<1>2. /\ preparing' = preparing \ Sources(c)
      /\ UNCHANGED <<appVars, nodeVars, sent, accepted, absent, panics>>
      /\ \/ /\ call' = [call EXCEPT ![c].at = "done", ![c].outcome = Told("definite", 1)]
            /\ guarded' = guarded /\ task' = task
         \/ /\ guarded' = guarded \cup Sources(c)
            /\ call' = [call EXCEPT ![c].at = "send"]
            /\ task' = [task EXCEPT ![c].at = "queued", ![c].holds = Sources(c)]
  BY Zenon DEF Submit
<1>3. CASE /\ call' = [call EXCEPT ![c].at = "done", ![c].outcome = Told("definite", 1)]
           /\ guarded' = guarded /\ task' = task
  <2>1. PICK o \in Outcome : o = Told("definite", 1)
    BY ToldIs
  <2> DEFINE k == [call[c] EXCEPT !.at = "done", !.outcome = o]
  <2>2. k \in Handler /\ k.at = "done" /\ k.job = call[c].job
    BY <1>1, Zenon DEF Handler, Phases
  <2>3. call' = [call EXCEPT ![c] = k]
    BY <1>3, <2>1, Zenon
  <2> HIDE DEF k
  <2>4. Guards'
    <3>1. call'[c] = k /\ Others(c) /\ task'[c] = task[c] /\ Leases(k) = {}
      BY <1>1, <1>3, <2>2, <2>3, SetCall, Zenon DEF Others, Leases
    <3>2. Keeps(call'[c], task'[c]) = Keeps(call[c], task[c])
      BY <1>1, <3>1, EndedKeeps, Zenon
    <3>3. QED
      BY <1>1, <1>2, <1>3, <3>1, <3>2, LeaseEnds, Zenon
  <2>5. preparing' \subseteq Source
    BY <1>1, <1>2, Zenon
  <2>6. QED
    BY <1>1, <1>2, <1>3, <2>2, <2>3, <2>4, <2>5, LeaseStep, Zenon
<1>4. CASE /\ guarded' = guarded \cup Sources(c)
           /\ call' = [call EXCEPT ![c].at = "send"]
           /\ task' = [task EXCEPT ![c].at = "queued", ![c].holds = Sources(c)]
  <2> DEFINE k == [call[c] EXCEPT !.at = "send"]
             t == [task[c] EXCEPT !.at = "queued", !.holds = Sources(c)]
  <2>1. Sources(c) \subseteq Source /\ 1 \in DOMAIN call[c].job
    BY <1>1, BatchSources, Zenon
  <2>2. /\ k \in Handler /\ k.at = "send" /\ k.job = call[c].job /\ k.until = call[c].until
        /\ k.outcome = call[c].outcome
    BY <1>1, Zenon DEF Handler, Phases
  <2>3. /\ t \in SubmissionTask /\ t.at = "queued" /\ t.holds = Sources(c)
        /\ t.activation = NoTask.activation /\ t.item = NoTask.item /\ t.tries = NoTask.tries
        /\ t.seen = NoTask.seen
    BY <1>1, <2>1, TaskEnds, Zenon DEF SubmissionTask, TaskPhases
  <2>4. call' = [call EXCEPT ![c] = k] /\ task' = [task EXCEPT ![c] = t]
    BY <1>4, Zenon
  <2> HIDE DEF k, t
  <2>5. /\ call'[c] = k /\ task'[c] = t /\ Others(c)
        /\ call' \in [Caller -> Handler] /\ task' \in [Caller -> SubmissionTask]
    BY <1>1, <2>2, <2>3, <2>4, SetCall, SetTask, ZenonT(30) DEF Others
  <2>6. Batch(k) = Batch(call[c])
    BY <2>2, Zenon DEF Batch
  <2>7. Linked(k, t)
    BY <1>1, <2>2, <2>3, TaskEnds, Zenon DEF Linked, Begun, Reconciliation
  <2>8. Carries(k, t)
    BY <1>1, <2>1, <2>2, <2>3, <2>6, TaskEnds, Zenon DEF Carries, Holding
  <2>9. Calm(k, t)
    BY <1>1, <2>2, <2>3, Zenon DEF Calm
  <2>10. Guards'
    <3>1. Leases(k) = {} /\ Keeps(k, t) = Sources(c)
      BY <2>2, <2>3, Zenon DEF Leases, Keeps, Reconciliation
    <3>2. Keeps(call[c], task[c]) = {}
      BY <1>1, EndedKeeps, Zenon
    <3>3. \A d \in Caller : Has(call'[d], task'[d]) = Has(call[d], task[d])
      <4>1. Has(call'[c], task'[c]) = Has(call[c], task[c])
        BY <1>1, <2>5, <3>1, <3>2, Zenon DEF Has
      <4>2. QED
        BY <2>5, <4>1, Zenon DEF Others
    <3>4. \A d \in Caller \ {c} : /\ Keeps(call'[d], task'[d]) = Keeps(call[d], task[d])
                                  /\ Leases(call'[d]) = Leases(call[d])
      BY <2>5, Zenon DEF Others
    <3>5. \A d \in Caller : Keeps(call'[d], task'[d]) \subseteq guarded'
      <4>1. Keeps(call'[c], task'[c]) \subseteq guarded'
        BY <1>4, <2>5, <3>1, Zenon
      <4>2. \A d \in Caller : Keeps(call[d], task[d]) \subseteq guarded'
        BY <1>1, <1>4, Zenon DEF Guards
      <4>3. QED
        BY <3>4, <4>1, <4>2, Zenon
    <3>6. \A d, e \in Caller : \A x \in Source :
              x \in Has(call'[d], task'[d]) /\ x \in Has(call'[e], task'[e]) => d = e
      BY <1>1, <3>3, Zenon DEF Guards
    <3>7. ASSUME NEW x \in Source
          PROVE  x \in preparing' <=> \E d \in Caller : x \in Leases(call'[d])
      <4>1. ASSUME x \in preparing'
            PROVE  \E d \in Caller : x \in Leases(call'[d])
        <5>1. x \in preparing /\ x \notin Leases(call[c])
          BY <1>1, <1>2, <4>1, Zenon
        <5>2. QED
          BY <1>1, <3>4, <5>1, Zenon DEF Guards
      <4>2. ASSUME NEW d \in Caller, x \in Leases(call'[d])
            PROVE  x \in preparing'
        <5>1. d # c /\ x \in Leases(call[d])
          BY <2>5, <3>1, <3>4, <4>2, Zenon
        <5>2. x \notin Leases(call[c]) /\ x \in preparing
          BY <1>1, <5>1, Zenon DEF Guards, Has
        <5>3. QED
          BY <1>1, <1>2, <5>2, Zenon
      <4>3. QED
        BY <4>1, <4>2, Zenon
    <3>8. ASSUME panics = 0, NEW x \in guarded'
          PROVE  \E d \in Caller : x \in Keeps(call'[d], task'[d])
      <4>1. CASE x \in Sources(c)
        BY <2>5, <3>1, <4>1, Zenon
      <4>2. CASE x \in guarded
        <5>1. PICK d \in Caller : x \in Keeps(call[d], task[d])
          BY <1>1, <3>8, <4>2, Zenon DEF Guards
        <5>2. QED
          BY <3>2, <3>4, <5>1, Zenon
      <4>3. QED
        BY <1>4, <4>1, <4>2, Zenon
    <3>9. QED
      BY <1>2, <3>5, <3>6, <3>7, <3>8, Zenon DEF Guards
  <2>11. queue' = queue /\ queue' \in Seq(Caller \cup {Close}) /\ Len(queue') <= Capacity
    BY <1>1, <1>2, Zenon DEF TypeOK, appVars
  <2>12. task[c].at = "none" /\ task'[c].at = "queued" /\ task'[c].seen = task[c].seen
         /\ call'[c].outcome = call[c].outcome /\ call'[c].at = "send"
    BY <1>1, <2>2, <2>3, <2>5, TaskEnds, Zenon
  <2>13. Queues'
    BY <1>1, <2>5, <2>11, <2>12, QueuesOne, Zenon
  <2>14. ~ Live(c)' /\ preparing' \subseteq Source /\ guarded' \subseteq Source
    BY <1>1, <1>2, <1>4, <2>1, <2>12, Zenon DEF Live
  <2>15. UNCHANGED <<supervisor, stage, sync, nodeVars, sent, accepted, absent, panics>>
    BY <1>2, Zenon DEF appVars
  <2>16. QED
    BY <1>1, <2>5, <2>7, <2>8, <2>9, <2>10, <2>11, <2>12, <2>13, <2>14, <2>15, HandlerSafe, Zenon
<1>5. QED
  BY <1>2, <1>3, <1>4, Zenon

LEMMA EnqueueSafe ==
    ASSUME IInv, NEW c \in Caller, Enqueue(c)
    PROVE  IInv'
<1>1. /\ call[c].at = "send" /\ supervisor = "running" /\ Len(queue) < Capacity
      /\ queue' = Append(queue, c) /\ call' = [call EXCEPT ![c].at = "ack"]
      /\ UNCHANGED <<preparing, guarded, task, supervisor, stage, sync, nodeVars, sent, accepted,
                     absent, panics>>
  BY Zenon DEF Enqueue, Accepting, sourceVars
<1>2. /\ TypeOK /\ Guards /\ Queues /\ call[c] \in Handler /\ task[c].at = "queued"
      /\ preparing \subseteq Source /\ guarded \subseteq Source
      /\ Linked(call[c], task[c]) /\ Carries(call[c], task[c]) /\ task[c].activation = "held"
      /\ task \in [Caller -> SubmissionTask] /\ queue \in Seq(Caller \cup {Close})
      /\ call[c].job # <<>>
  BY <1>1, Records, Zenon DEF IInv, Sends, Linked, TypeOK
<1> DEFINE k == [call[c] EXCEPT !.at = "ack"]
<1>3. /\ k \in Handler /\ k.at = "ack" /\ k.job = call[c].job /\ k.until = call[c].until
      /\ k.outcome = call[c].outcome
  BY <1>2, Zenon DEF Handler, Phases
<1>4. call' = [call EXCEPT ![c] = k]
  BY <1>1, Zenon
<1> HIDE DEF k
<1>5. call'[c] = k /\ Others(c) /\ call' \in [Caller -> Handler] /\ task' = task
      /\ Batch(k) = Batch(call[c])
  <2>1. task' = task
    BY <1>1, Zenon
  <2>2. call'[c] = k /\ call' \in [Caller -> Handler] /\ \A d \in Caller \ {c} : call'[d] = call[d]
    BY <1>2, <1>3, <1>4, SetCall, Zenon
  <2>3. Batch(k) = Batch(call[c])
    BY <1>3, Zenon DEF Batch
  <2>4. QED
    BY <2>1, <2>2, <2>3, Zenon DEF Others
<1>6. call[c].outcome.kind \notin Failure
  BY <1>1, <1>2, Zenon DEF Linked
<1>7. Linked(call'[c], task'[c])
  BY <1>2, <1>3, <1>5, <1>6, Zenon DEF Linked, Begun, Reconciliation
<1>8. Carries(call'[c], task'[c])
  BY <1>2, <1>3, <1>5, Zenon DEF Carries
<1>9. Calm(call'[c], task'[c])
  BY <1>2, <1>3, <1>5, <1>6, Zenon DEF Calm
<1>10. Guards'
  <2>1. Leases(k) = Leases(call[c])
    BY <1>1, <1>3, Zenon DEF Leases
  <2>2. Keeps(k, task[c]) = Keeps(call[c], task[c])
    BY <1>3, Zenon DEF Keeps
  <2>3. guarded' = guarded \ (Keeps(call[c], task[c]) \ Keeps(call'[c], task'[c]))
    BY <1>1, <1>5, <2>2, Zenon
  <2>4. QED
    BY <1>1, <1>2, <1>5, <2>1, <2>2, <2>3, GuardsOne, Zenon
<1> DEFINE n == Len(queue) + 1
<1>11. /\ queue' \in Seq(Caller \cup {Close}) /\ Len(queue') <= Capacity
       /\ Len(queue') = n /\ queue'[n] = c /\ n \in 1 .. Len(queue')
       /\ \A i \in 1 .. Len(queue) : i \in 1 .. Len(queue') /\ queue'[i] = queue[i]
       /\ \A i \in 1 .. Len(queue') : i \in 1 .. Len(queue) \/ i = n
  BY <1>1, <1>2, BoundsAreNumbers
<1> HIDE DEF n
<1>12. Queues'
  <2>1. \A i \in 1 .. Len(queue) : queue[i] # c
    BY <1>1, <1>2, Zenon DEF Queues
  <2>2. \A i, j \in 1 .. Len(queue') : queue'[i] \in Caller /\ queue'[i] = queue'[j] => i = j
    <3>1. ASSUME NEW i \in 1 .. Len(queue'), NEW j \in 1 .. Len(queue'),
                 queue'[i] \in Caller, queue'[i] = queue'[j]
          PROVE  i = j
      <4>1. CASE i = n
        BY <1>11, <2>1, <3>1, <4>1, Zenon
      <4>2. CASE i \in 1 .. Len(queue)
        <5>1. queue'[i] = queue[i] /\ queue[i] # c
          BY <1>11, <2>1, <4>2, Zenon
        <5>2. j \in 1 .. Len(queue) /\ queue'[j] = queue[j]
          BY <1>11, <3>1, <5>1, Zenon
        <5>3. \A m, o \in 1 .. Len(queue) : queue[m] \in Caller /\ queue[m] = queue[o] => m = o
          BY <1>2, Zenon DEF Queues
        <5>4. QED
          BY <3>1, <4>2, <5>1, <5>2, <5>3, Zenon
      <4>3. QED
        BY <1>11, <4>1, <4>2, Zenon
    <3>2. QED
      BY <3>1, Zenon
  <2>3. ASSUME NEW i \in 1 .. Len(queue'), queue'[i] \in Caller
        PROVE  task'[queue'[i]].at = "queued" /\ call'[queue'[i]].at \in {"ack", "gone"}
    <3>1. CASE i = n
      BY <1>2, <1>3, <1>5, <1>11, <3>1, Zenon
    <3>2. CASE i \in 1 .. Len(queue)
      <4>1. PICK d \in Caller \ {c} : d = queue[i] /\ d = queue'[i]
        BY <1>11, <2>1, <2>3, <3>2, Zenon
      <4>2. \A m \in 1 .. Len(queue) : queue[m] \in Caller =>
                task[queue[m]].at = "queued" /\ call[queue[m]].at \in {"ack", "gone"}
        BY <1>2, Zenon DEF Queues
      <4>3. task[d].at = "queued" /\ call[d].at \in {"ack", "gone"}
        BY <3>2, <4>1, <4>2, Zenon
      <4>4. QED
        BY <1>5, <4>1, <4>3, Zenon DEF Others
    <3>3. QED
      BY <1>11, <3>1, <3>2, Zenon
  <2>4. ASSUME NEW d \in Caller, task'[d].at = "queued", call'[d].at # "send"
        PROVE  \E i \in 1 .. Len(queue') : queue'[i] = d
    <3>1. CASE d = c
      BY <1>11, <3>1, Zenon
    <3>2. CASE d # c
      <4>1. task[d].at = "queued" /\ call[d].at # "send"
        BY <1>5, <2>4, <3>2, Zenon DEF Others
      <4>2. PICK i \in 1 .. Len(queue) : queue[i] = d
        BY <1>2, <4>1, Zenon DEF Queues
      <4>3. QED
        BY <1>11, <4>2, Zenon
    <3>3. QED
      BY <3>1, <3>2, Zenon
  <2>5. QED
    BY <2>2, <2>3, <2>4, Zenon DEF Queues
<1>13. Live(c)' => Live(c)
  BY <1>5, Zenon DEF Live
<1>14. /\ task'[c].at = task[c].at /\ task'[c].item = task[c].item
       /\ call'[c].job = call[c].job /\ call'[c].until = call[c].until
       /\ task'[c].seen = task[c].seen /\ task'[c].read = task[c].read
       /\ call'[c].outcome = call[c].outcome /\ task' \in [Caller -> SubmissionTask]
  BY <1>2, <1>3, <1>5, Zenon
<1>15. QED
  BY <1>1, <1>2, <1>5, <1>7, <1>8, <1>9, <1>10, <1>11, <1>12, <1>13, <1>14, HandlerSafe, Zenon

\* A handler moves on and its task's record with it, no source changing its owner but
\* those the task no longer keeps.
LEMMA HandlerMoves ==
    ASSUME IInv, NEW c \in Caller, NEW k \in Handler, NEW t \in SubmissionTask,
           call' = [call EXCEPT ![c] = k], task' = [task EXCEPT ![c] = t],
           call[c].at \in {"send", "ack", "wait"}, k.at \in {"ack", "wait", "done", "gone"},
           k.job = call[c].job, k.until = call[c].until, preparing' = preparing,
           UNCHANGED <<appVars, nodeVars, sent, accepted, absent, panics>>,
           Linked(k, t), Carries(k, t), panics = 0 => Calm(k, t),
           \/ /\ task[c].at \in {"none", "queued", "dormant"}
              /\ t.at \in {"none", "queued", "dormant", "gone"}
              /\ t.seen = 0 \/ t.seen = task[c].seen
           \/ /\ t.at = task[c].at /\ t.item = task[c].item
              /\ \/ t.seen = task[c].seen /\ t.read = task[c].read
                 \/ t.seen = 0 /\ task[c].at = "gone",
           \/ k.outcome = call[c].outcome
           \/ panics = 0 => task[c].at \in {"none", "queued", "dormant", "gone"},
           t.at \in Begun \cup {"dormant"} => task[c].at \in Begun \cup {"dormant"},
           \/ task[c].at = "queued" /\ call[c].at # "send" /\ t.at = "queued" /\ k.at \in {"ack", "gone"}
           \/ (task[c].at # "queued" \/ call[c].at = "send") /\ t.at # "queued",
           Keeps(k, t) \subseteq Keeps(call[c], task[c]),
           guarded' = guarded \ (Keeps(call[c], task[c]) \ Keeps(k, t))
    PROVE  IInv'
<1>1. /\ TypeOK /\ Guards /\ Queues /\ preparing \subseteq Source /\ guarded \subseteq Source
      /\ queue \in Seq(Caller \cup {Close}) /\ Len(queue) <= Capacity
      /\ call \in [Caller -> Handler] /\ task \in [Caller -> SubmissionTask]
  BY Zenon DEF IInv, TypeOK
<1>2. /\ call'[c] = k /\ task'[c] = t /\ Others(c)
      /\ call' \in [Caller -> Handler] /\ task' \in [Caller -> SubmissionTask]
  BY <1>1, SetCall, SetTask, Zenon DEF Others
<1>3. UNCHANGED <<queue, supervisor, stage, sync, nodeVars, sent, accepted, absent, panics>>
  BY Zenon DEF appVars
<1>4. Guards'
  <2>1. Leases(k) = {} /\ Leases(call[c]) = {}
    BY Zenon DEF Leases
  <2>2. QED
    BY <1>1, <1>2, <1>3, <2>1, GuardsOne, Zenon
<1>5. Queues'
  BY <1>1, <1>2, <1>3, QueuesOne, Zenon
<1>6. Live(c)' => Live(c)
  <2>1. t.at \in TaskPhases /\ task[c].at \in TaskPhases
    BY <1>1, Zenon DEF SubmissionTask
  <2>2. Live(c)' => t.at \in Begun \cup {"dormant"}
    BY <1>2, <2>1, Zenon DEF Live, TaskPhases, Begun, Reconciliation
  <2>3. QED
    BY <1>1, <2>2, LiveAt, Zenon
<1>7. guarded' \subseteq Source
  BY <1>1, Zenon
<1>8. call[c].at \notin {"new", "done", "gone"} /\ call'[c].job = call[c].job
      /\ call'[c].until = call[c].until
  BY <1>2, Zenon
<1>9. QED
  BY <1>1, <1>2, <1>3, <1>4, <1>5, <1>6, <1>7, <1>8, HandlerSafe, Zenon

LEMMA RegistrationFailsSafe ==
    ASSUME IInv, NEW c \in Caller, RegistrationFails(c)
    PROVE  IInv'
<1>1. /\ call[c].at \in {"send", "ack"}
      /\ call' = [call EXCEPT ![c].at = "done", ![c].outcome = Told("unavailable", 0)]
      /\ guarded' = guarded \ task[c].holds /\ task' = [task EXCEPT ![c] = Dropped]
      /\ call[c].at = "ack" => task[c].at = "gone"
      /\ preparing' = preparing /\ UNCHANGED <<appVars, nodeVars, sent, accepted, absent, panics>>
  BY Zenon DEF RegistrationFails
<1>2. /\ call[c] \in Handler /\ Linked(call[c], task[c]) /\ Carries(call[c], task[c])
      /\ task[c].at \in {"queued", "gone"} /\ call[c].job # <<>>
      /\ task[c].at = "queued" => call[c].at = "send"
  BY <1>1, Records, Zenon DEF IInv, Sends, Linked
<1>3. PICK o \in Outcome : o = Told("unavailable", 0) /\ o.kind = "unavailable"
  BY ToldIs
<1> DEFINE k == [call[c] EXCEPT !.at = "done", !.outcome = o]
<1>4. /\ k \in Handler /\ k.at = "done" /\ k.job = call[c].job /\ k.until = call[c].until
      /\ k.outcome = o
  BY <1>2, Zenon DEF Handler, Phases
<1>5. call' = [call EXCEPT ![c] = k]
  BY <1>1, <1>3, Zenon
<1> HIDE DEF k
<1>6. /\ Dropped \in SubmissionTask /\ Dropped.at = "gone" /\ Dropped.holds = {}
      /\ Dropped.activation = "held" /\ Dropped.seen = 0 /\ Dropped.item = 1
  BY TaskEnds, Zenon
<1>7. Linked(k, Dropped)
  BY <1>2, <1>4, <1>6, Zenon DEF Linked, Begun, Reconciliation
<1>8. Carries(k, Dropped)
  BY <1>6, Zenon DEF Carries, Holding, Begun, Reconciliation
<1>9. Calm(k, Dropped)
  BY <1>4, <1>6, Zenon DEF Calm
<1>10. Keeps(k, Dropped) = {} /\ Keeps(call[c], task[c]) = task[c].holds
  BY <1>2, EndedKeeps, Zenon DEF Keeps, Reconciliation
<1>11. guarded' = guarded \ (Keeps(call[c], task[c]) \ Keeps(k, Dropped))
  BY <1>1, <1>10, Zenon
<1>12. Dropped.at \notin Begun \cup {"dormant"} /\ Dropped.at # "queued"
      /\ Keeps(k, Dropped) \subseteq Keeps(call[c], task[c])
  BY <1>6, <1>10, EndedKeeps, Zenon
<1>13. \/ /\ task[c].at \in {"none", "queued", "dormant"}
          /\ Dropped.at \in {"none", "queued", "dormant", "gone"}
          /\ Dropped.seen = 0 \/ Dropped.seen = task[c].seen
       \/ /\ Dropped.at = task[c].at /\ Dropped.item = task[c].item
          /\ \/ Dropped.seen = task[c].seen /\ Dropped.read = task[c].read
             \/ Dropped.seen = 0 /\ task[c].at = "gone"
  <2>1. CASE task[c].at = "queued"
    BY <1>6, <2>1, Zenon
  <2>2. CASE task[c].at = "gone"
    BY <1>2, <1>6, <2>2, Zenon DEF Linked
  <2>3. QED
    BY <1>2, <2>1, <2>2, Zenon
<1>14. QED
  BY <1>1, <1>2, <1>4, <1>5, <1>6, <1>7, <1>8, <1>9, <1>11, <1>12, <1>13, HandlerMoves, Zenon

LEMMA ActivateSafe ==
    ASSUME IInv, NEW c \in Caller, Activate(c)
    PROVE  IInv'
<1>1. /\ call[c].at = "ack" /\ task[c].at = "dormant"
      /\ call' = [call EXCEPT ![c].at = "wait"]
      /\ task' = [task EXCEPT ![c].activation = "started"]
      /\ guarded' = guarded
      /\ preparing' = preparing /\ UNCHANGED <<appVars, nodeVars, sent, accepted, absent, panics>>
  BY Zenon DEF Activate, sourceVars
<1>2. /\ call[c] \in Handler /\ Linked(call[c], task[c]) /\ Carries(call[c], task[c])
      /\ task[c] \in SubmissionTask /\ call[c].job # <<>> /\ call[c].outcome.kind \notin Failure
  BY <1>1, Records, Zenon DEF IInv, Sends, Linked
<1> DEFINE k == [call[c] EXCEPT !.at = "wait"]
           t == [task[c] EXCEPT !.activation = "started"]
<1>3. /\ k \in Handler /\ k.at = "wait" /\ k.job = call[c].job /\ k.until = call[c].until
      /\ k.outcome = call[c].outcome
  BY <1>2, Zenon DEF Handler, Phases
<1>4. /\ t \in SubmissionTask /\ t.at = "dormant" /\ t.activation = "started"
      /\ t.holds = task[c].holds /\ t.item = task[c].item /\ t.tries = task[c].tries
      /\ t.seen = task[c].seen /\ t.read = task[c].read
  BY <1>1, <1>2, Zenon DEF SubmissionTask
<1>5. call' = [call EXCEPT ![c] = k] /\ task' = [task EXCEPT ![c] = t]
  BY <1>1, Zenon
<1> HIDE DEF k, t
<1>6. Linked(k, t)
  BY <1>2, <1>3, <1>4, Zenon DEF Linked, Begun, Reconciliation
<1>7. Carries(k, t)
  BY <1>1, <1>2, <1>3, <1>4, ZenonT(30) DEF Carries, Batch
<1>8. Calm(k, t)
  BY <1>2, <1>3, <1>4, Zenon DEF Calm
<1>9. Keeps(k, t) = Keeps(call[c], task[c])
  BY <1>1, <1>3, <1>4, Zenon DEF Keeps, Reconciliation
<1>10. guarded' = guarded \ (Keeps(call[c], task[c]) \ Keeps(k, t))
  BY <1>1, <1>9, Zenon
<1>11. QED
  BY <1>1, <1>3, <1>4, <1>5, <1>6, <1>7, <1>8, <1>9, <1>10, HandlerMoves, Zenon

LEMMA DeliverSafe ==
    ASSUME IInv, NEW c \in Caller, Deliver(c)
    PROVE  IInv'
<1>1. /\ call[c].at = "wait" /\ task' = task /\ guarded' = guarded
      /\ preparing' = preparing /\ UNCHANGED <<appVars, nodeVars, sent, accepted, absent, panics>>
      /\ \/ call' = [call EXCEPT ![c].at = "done"]
         \/ /\ task[c].at \in {"gone", "panicked"}
            /\ call' = [call EXCEPT ![c].at = "done", ![c].outcome = Told("unavailable", 0)]
  BY Zenon DEF Deliver, sourceVars
<1>2. /\ TypeOK /\ call[c] \in Handler /\ Linked(call[c], task[c]) /\ Carries(call[c], task[c])
      /\ task[c] \in SubmissionTask /\ call[c].job # <<>> /\ task[c].at # "queued"
      /\ panics = 0 => Calm(call[c], task[c])
  BY <1>1, Records, Zenon DEF IInv, Sends, Linked
<1>3. PICK u \in Outcome : u = Told("unavailable", 0) /\ u.kind = "unavailable"
  BY ToldIs
<1>4. PICK o \in Outcome :
         /\ call' = [call EXCEPT ![c].at = "done", ![c].outcome = o]
         /\ o = call[c].outcome \/ task[c].at \in {"gone", "panicked"}
  <2>1. CASE call' = [call EXCEPT ![c].at = "done"]
    <3>1. call[c].outcome \in Outcome
      BY <1>2, Zenon DEF Handler
    <3>2. [call EXCEPT ![c].at = "done"] = [call EXCEPT ![c].at = "done", ![c].outcome = call[c].outcome]
      BY <1>2, Zenon DEF TypeOK, Handler
    <3>3. QED
      BY <2>1, <3>1, <3>2, Zenon
  <2>2. QED
    BY <1>1, <1>3, <2>1, Zenon
<1> DEFINE k == [call[c] EXCEPT !.at = "done", !.outcome = o]
<1>5. /\ k \in Handler /\ k.at = "done" /\ k.job = call[c].job /\ k.until = call[c].until
      /\ k.outcome = o
  BY <1>2, Zenon DEF Handler, Phases
<1>6. call' = [call EXCEPT ![c] = k] /\ task' = [task EXCEPT ![c] = task[c]]
  <2>1. task = [task EXCEPT ![c] = task[c]]
    BY <1>2 DEF TypeOK
  <2>2. QED
    BY <1>1, <1>4, <2>1, Zenon
<1> HIDE DEF k
<1>7. Linked(k, task[c])
  BY <1>1, <1>2, <1>5, Zenon DEF Linked
<1>8. Carries(k, task[c])
  BY <1>2, <1>5, Zenon DEF Carries, Batch
<1>9. panics = 0 => Calm(k, task[c])
  BY <1>1, <1>2, <1>4, <1>5, Zenon DEF Calm
<1>10. Keeps(k, task[c]) = Keeps(call[c], task[c])
  BY <1>5, Zenon DEF Keeps
<1>11. guarded' = guarded \ (Keeps(call[c], task[c]) \ Keeps(k, task[c]))
  BY <1>1, <1>10, Zenon
<1>12. \/ k.outcome = call[c].outcome
       \/ panics = 0 => task[c].at \in {"none", "queued", "dormant", "gone"}
  BY <1>2, <1>4, <1>5, Zenon DEF Calm
<1>13. QED
  BY <1>1, <1>2, <1>5, <1>6, <1>7, <1>8, <1>9, <1>10, <1>11, <1>12, HandlerMoves, Zenon

LEMMA DisconnectSafe ==
    ASSUME IInv, NEW c \in Caller, Disconnect(c)
    PROVE  IInv'
<1>1. /\ call[c].at \in {"prepare", "prepared", "send", "ack", "wait"}
      /\ call' = [call EXCEPT ![c].at = "gone"]
      /\ UNCHANGED <<appVars, nodeVars, sent, accepted, absent, panics>>
  BY Zenon DEF Disconnect
<1>2. /\ TypeOK /\ Guards /\ call[c] \in Handler /\ task[c] \in SubmissionTask
      /\ Linked(call[c], task[c]) /\ Carries(call[c], task[c])
      /\ call[c].job # <<>>
      /\ panics = 0 => Calm(call[c], task[c])
  BY <1>1, Records, Zenon DEF IInv, Sends, Linked
<1> DEFINE k == [call[c] EXCEPT !.at = "gone"]
<1>3. /\ k \in Handler /\ k.at = "gone" /\ k.job = call[c].job /\ k.until = call[c].until
      /\ k.outcome = call[c].outcome
  BY <1>2, Zenon DEF Handler, Phases
<1>4. call' = [call EXCEPT ![c] = k]
  BY <1>1, Zenon
<1> HIDE DEF k
<1>5. Batch(k) = Batch(call[c])
  BY <1>3, Zenon DEF Batch
<1>6. CASE call[c].at \in {"prepare", "prepared"}
  <2>1. preparing' = preparing \ Sources(c) /\ guarded' = guarded /\ task' = task
    BY <1>6, Zenon DEF Disconnect, Leased
  <2>2. Leases(call[c]) = Sources(c) /\ task[c] = NoTask /\ call[c].outcome.kind \notin Failure
    BY <1>2, <1>6, Zenon DEF Leases, Batch, Sources, Linked
  <2>3. Guards'
    <3>1. call'[c] = k /\ Others(c) /\ task'[c] = task[c] /\ Leases(k) = {}
      BY <1>2, <1>3, <1>4, <2>1, SetCall, Zenon DEF Others, Leases
    <3>2. Keeps(call'[c], task'[c]) = Keeps(call[c], task[c])
      BY <2>2, <3>1, EndedKeeps, Zenon
    <3>3. QED
      BY <1>1, <1>2, <2>1, <2>2, <3>1, <3>2, LeaseEnds, Zenon
  <2>4. preparing' \subseteq Source
    BY <1>2, <2>1, Zenon DEF TypeOK
  <2>5. k.outcome.kind \notin Failure /\ k.job # <<>>
    BY <1>2, <1>3, <2>2, Zenon
  <2>6. QED
    BY <1>1, <1>3, <1>4, <1>6, <2>1, <2>3, <2>4, <2>5, LeaseStep, Zenon
<1>7. CASE call[c].at = "send"
  <2>1. preparing' = preparing /\ guarded' = guarded \ task[c].holds
        /\ task' = [task EXCEPT ![c] = Dropped]
    BY <1>7, Zenon DEF Disconnect, Leased
  <2>2. task[c].at = "queued" /\ call[c].outcome.kind \notin Failure
    BY <1>2, <1>7, Zenon DEF Linked
  <2>3. /\ Dropped \in SubmissionTask /\ Dropped.at = "gone" /\ Dropped.holds = {}
        /\ Dropped.activation = "held" /\ Dropped.seen = 0 /\ Dropped.item = 1
    BY TaskEnds, Zenon
  <2>4. Linked(k, Dropped)
    BY <1>2, <1>3, <2>3, Zenon DEF Linked, Begun, Reconciliation
  <2>5. Carries(k, Dropped)
    BY <2>3, Zenon DEF Carries, Holding, Begun, Reconciliation
  <2>6. Calm(k, Dropped)
    BY <1>3, <2>3, Zenon DEF Calm
  <2>7. Keeps(k, Dropped) = {} /\ Keeps(call[c], task[c]) = task[c].holds
    BY <2>2, EndedKeeps, Zenon DEF Keeps, Reconciliation
  <2>8. guarded' = guarded \ (Keeps(call[c], task[c]) \ Keeps(k, Dropped))
        /\ Dropped.at \notin Begun \cup {"dormant"} /\ Dropped.at # "queued"
        /\ Keeps(k, Dropped) \subseteq Keeps(call[c], task[c])
    BY <2>1, <2>3, <2>7, EndedKeeps, Zenon
  <2>9. QED
    BY <1>1, <1>3, <1>4, <1>7, <2>1, <2>2, <2>3, <2>4, <2>5, <2>6, <2>8, HandlerMoves, Zenon
<1>8. CASE call[c].at = "ack"
  <2>1. preparing' = preparing /\ guarded' = guarded
        /\ task' = [task EXCEPT ![c].activation = "dropped"]
    BY <1>8, Zenon DEF Disconnect, Leased
  <2>2. task[c].at \in {"queued", "dormant", "gone", "panicked"} /\ call[c].outcome.kind \notin Failure
        /\ task[c].activation # "started"
    BY <1>2, <1>8, Zenon DEF Linked
  <2> DEFINE t == [task[c] EXCEPT !.activation = "dropped"]
  <2>3. /\ t \in SubmissionTask /\ t.at = task[c].at /\ t.activation = "dropped"
        /\ t.holds = task[c].holds /\ t.item = task[c].item /\ t.tries = task[c].tries
        /\ t.seen = task[c].seen /\ t.read = task[c].read
    BY <1>2, Zenon DEF SubmissionTask
  <2>4. task' = [task EXCEPT ![c] = t]
    BY <2>1, Zenon
  <2> HIDE DEF t
  <2>5. Linked(k, t)
    BY <1>2, <1>3, <2>2, <2>3, Zenon DEF Linked, Begun, Reconciliation
  <2>6. Carries(k, t)
    BY <1>2, <1>3, <1>5, <2>3, Zenon DEF Carries
  <2>7. panics = 0 => Calm(k, t)
    BY <1>2, <1>3, <2>3, Zenon DEF Calm
  <2>8. Keeps(k, t) = Keeps(call[c], task[c])
    BY <1>3, <2>3, Zenon DEF Keeps
  <2>9. guarded' = guarded \ (Keeps(call[c], task[c]) \ Keeps(k, t))
    BY <2>1, <2>8, Zenon
  <2>10. QED
    BY <1>1, <1>3, <1>4, <1>8, <2>1, <2>3, <2>4, <2>5, <2>6, <2>7, <2>8, <2>9, HandlerMoves, Zenon
<1>9. CASE call[c].at = "wait"
  <2>1. preparing' = preparing /\ guarded' = guarded /\ task' = task
    BY <1>9, Zenon DEF Disconnect, Leased
  <2>2. task' = [task EXCEPT ![c] = task[c]]
    <3>1. task = [task EXCEPT ![c] = task[c]]
      BY <1>2 DEF TypeOK
    <3>2. QED
      BY <2>1, <3>1, Zenon
  <2>3. Linked(k, task[c])
    BY <1>2, <1>3, <1>9, Zenon DEF Linked
  <2>4. Carries(k, task[c])
    BY <1>2, <1>3, <1>5, Zenon DEF Carries
  <2>5. panics = 0 => Calm(k, task[c])
    BY <1>2, <1>3, <1>9, Zenon DEF Calm
  <2>6. Keeps(k, task[c]) = Keeps(call[c], task[c]) /\ task[c].at # "queued"
    BY <1>2, <1>3, <1>9, Zenon DEF Keeps, Linked
  <2>7. guarded' = guarded \ (Keeps(call[c], task[c]) \ Keeps(k, task[c]))
    BY <2>1, <2>6, Zenon
  <2>8. QED
    BY <1>1, <1>2, <1>3, <1>4, <1>9, <2>1, <2>2, <2>3, <2>4, <2>5, <2>6, <2>7, HandlerMoves, Zenon
<1>10. QED
  BY <1>1, <1>6, <1>7, <1>8, <1>9, Zenon

-----------------------------------------------------------------------------
(* The submission task.                                                    *)

LEMMA BeginSafe ==
    ASSUME IInv, NEW c \in Caller, Begin(c)
    PROVE  IInv'
<1>1. /\ task[c].at = "dormant" /\ preparing' = preparing /\ call' = call
      /\ UNCHANGED <<appVars, nodeVars, sent, accepted, absent, panics>>
      /\ \/ /\ task[c].activation = "started" /\ guarded' = guarded
            /\ task' = [task EXCEPT ![c].at = "dispatch"]
         \/ /\ task[c].activation = "dropped" /\ guarded' = guarded \ task[c].holds
            /\ task' = [task EXCEPT ![c] = Dropped]
  BY Zenon DEF Begin, Running
<1>2. /\ TypeOK /\ Guards /\ Queues /\ Absences /\ task[c] \in SubmissionTask
      /\ Linked(call[c], task[c]) /\ Carries(call[c], task[c]) /\ call \in [Caller -> Handler]
      /\ panics = 0 => Calm(call[c], task[c])
  BY Records, Zenon DEF IInv, Sends, TypeOK
<1>3. CASE /\ task[c].activation = "started" /\ guarded' = guarded
           /\ task' = [task EXCEPT ![c].at = "dispatch"]
  <2> DEFINE t == [task[c] EXCEPT !.at = "dispatch"]
  <2>1. /\ t \in SubmissionTask /\ t.at = "dispatch" /\ t.activation = task[c].activation
        /\ t.holds = task[c].holds /\ t.item = task[c].item /\ t.tries = task[c].tries
        /\ t.seen = task[c].seen /\ t.read = task[c].read
    BY <1>2, Zenon DEF SubmissionTask, TaskPhases
  <2>2. task' = [task EXCEPT ![c] = t]
    BY <1>3, Zenon
  <2> HIDE DEF t
  <2>3. Live(c)
    BY <1>1, Zenon DEF Live
  <2>4. t.tries < 3
    <3>1. t.tries = 0
      BY <1>1, <1>2, <2>1, Zenon DEF Carries
    <3>2. QED
      BY <3>1
  <2>5. Scanned(Current(c), t)
    BY <1>2, <2>1, Zenon DEF Absences, Scanned
  <2>6. t.at \in Begun \ {"check"} /\ t.at \in Holding /\ task[c].at \in Holding
        /\ t.at \notin OnTheWire
    BY <1>1, <2>1, Zenon DEF Begun, Holding, OnTheWire, Reconciliation
  <2>7. UNCHANGED <<sourceVars, call, appVars, nodeVars, accepted, absent, panics>> /\ sent' = sent
    BY <1>1, <1>3, Zenon DEF sourceVars
  <2>8. QED
    BY <1>3, <2>1, <2>2, <2>3, <2>4, <2>5, <2>6, <2>7, MoveSafe, Zenon
<1>4. CASE /\ task[c].activation = "dropped" /\ guarded' = guarded \ task[c].holds
           /\ task' = [task EXCEPT ![c] = Dropped]
  <2>1. /\ Dropped \in SubmissionTask /\ Dropped.at = "gone" /\ Dropped.holds = {}
        /\ Dropped.activation = "held" /\ Dropped.seen = 0 /\ Dropped.item = 1
    BY TaskEnds, Zenon
  <2>2. /\ task'[c] = Dropped /\ Others(c) /\ task' \in [Caller -> SubmissionTask]
        /\ call'[c] = call[c] /\ call' \in [Caller -> Handler]
    BY <1>1, <1>2, <1>4, <2>1, SetTask, Zenon DEF Others
  <2>3. call[c].at = "gone" /\ call[c].job # <<>>
    BY <1>2, <1>4, Zenon DEF Linked
  <2>4. Linked(call[c], Dropped)
    BY <2>1, <2>3, Zenon DEF Linked, Begun, Reconciliation
  <2>5. Carries(call[c], Dropped)
    BY <2>1, Zenon DEF Carries, Holding, Begun, Reconciliation
  <2>6. Calm(call[c], Dropped)
    BY <2>1, <2>3, Zenon DEF Calm
  <2>7. Keeps(call[c], Dropped) = {} /\ Keeps(call[c], task[c]) = task[c].holds
    BY <1>1, EndedKeeps, Zenon DEF Keeps, Reconciliation
  <2>8. guarded' = guarded \ (Keeps(call[c], task[c]) \ Keeps(call[c], Dropped))
        /\ Keeps(call[c], Dropped) \subseteq Keeps(call[c], task[c])
    BY <1>4, <2>7, Zenon
  <2>9. Guards'
    BY <1>1, <1>2, <2>2, <2>8, GuardsOne, Zenon
  <2>10. Queues' /\ queue' = queue
    BY <1>1, <1>2, <2>1, <2>2, QueuesOne, Zenon DEF appVars
  <2>11. ~ Live(c)' /\ preparing' \subseteq Source /\ guarded' \subseteq Source
         /\ queue' \in Seq(Caller \cup {Close}) /\ Len(queue') <= Capacity
    BY <1>1, <1>2, <1>4, <2>1, <2>2, <2>10, Zenon DEF Live, TypeOK
  <2>12. UNCHANGED <<supervisor, stage, sync, nodeVars, sent, accepted, absent, panics>>
    BY <1>1, Zenon DEF appVars
  <2>13. QED
    BY <1>1, <2>1, <2>2, <2>4, <2>5, <2>6, <2>9, <2>10, <2>11, <2>12, HandlerSafe, Zenon
<1>5. QED
  BY <1>1, <1>3, <1>4, Zenon

\* The task of c goes on to another phase, its record otherwise as it was.
LEMMA GoesSafe ==
    ASSUME IInv, NEW c \in Caller, task[c].at \in Begun, NEW at \in Begun \ {"check"},
           NEW tries \in 0 .. 3, NEW seen \in 0 .. MaxHeight, NEW read \in SUBSET landed,
           task' = [task EXCEPT ![c].at = at, ![c].tries = tries, ![c].seen = seen, ![c].read = read],
           UNCHANGED <<sourceVars, call, appVars, nodeVars, accepted, absent, panics>>,
           sent' = sent \/ sent' = sent \cup {Current(c)},
           at \in Holding <=> task[c].at \in Holding,
           at \in {"dispatch", "expiry"} => tries < 3,
           at \in OnTheWire => Current(c) \in sent',
           seen <= checkpoint,
           at = "page" => \A l \in read : l.envelope # Current(c),
           at \in {"recheck", "verdict"} => \A l \in landed : l.height <= seen => l.envelope # Current(c)
    PROVE  IInv'
<1>1. /\ task[c] \in SubmissionTask /\ Linked(call[c], task[c])
  BY Records, Zenon DEF IInv, Sends
<1> DEFINE t == [task[c] EXCEPT !.at = at, !.tries = tries, !.seen = seen, !.read = read]
<1>2. at \in TaskPhases
  BY Zenon DEF TaskPhases, Begun, Reconciliation
<1>3. /\ t \in SubmissionTask /\ t.at = at /\ t.activation = task[c].activation
      /\ t.holds = task[c].holds /\ t.item = task[c].item /\ t.tries = tries
      /\ t.seen = seen /\ t.read = read
  BY <1>1, <1>2, Zenon DEF SubmissionTask
<1>4. task' = [task EXCEPT ![c] = t]
  BY Zenon
<1> HIDE DEF t
<1>5. Live(c)
  BY BegunIs, Zenon DEF Live
<1>6. Scanned(Current(c), t)
  BY <1>3, Zenon DEF Scanned
<1>7. task[c].activation = "started"
  BY <1>1, Zenon DEF Linked
<1>8. QED
  BY <1>3, <1>4, <1>5, <1>6, <1>7, MoveSafe, Zenon

LEMMA TaskFields ==
    ASSUME IInv, NEW c \in Caller
    PROVE  /\ task[c].tries \in 0 .. 3 /\ task[c].seen \in 0 .. MaxHeight
           /\ task[c].read \in SUBSET landed /\ task[c].seen <= checkpoint /\ task[c].item \in Nat
           /\ task[c].holds \subseteq Source
<1>1. task[c] \in SubmissionTask
  BY Records, Zenon DEF IInv
<1>2. QED
  BY <1>1, Zenon DEF SubmissionTask, IInv, Absences, Scanned

\* What was sent of the batch of a task that runs: what it left behind, which was
\* accepted, and the envelope it is at.
LEMMA SentOf ==
    ASSUME IInv, NEW c \in Caller, task[c].at \in Begun, NEW e \in sent, e.of = c
    PROVE  \/ e.item < task[c].item /\ e \in accepted
           \/ e = Current(c) /\ e.item = task[c].item /\ task[c].at # "check"
<1>1. TypeOK /\ Sent(e, call[e.of], task[e.of]) /\ task[e.of] = task[c]
      /\ (task[c].at \in Begun /\ e.item < task[c].item => e \in accepted)
  BY Zenon DEF IInv, Envelopes
<1>2. e.item <= task[c].item /\ (e.item = task[c].item => task[c].at # "check")
  BY <1>1, Zenon DEF Sent
<1>3. e.item \in Nat /\ task[c].item \in Nat
  <2>1. e \in Envelope
    BY <1>1, Zenon DEF TypeOK
  <2>2. QED
    BY <2>1, TaskFields, Zenon DEF Envelope
<1>4. e.item < task[c].item \/ e.item = task[c].item
  BY <1>2, <1>3
<1>5. CASE e.item = task[c].item
  <2>1. e = Current(e.of)
    BY <1>1, <1>5, SentCurrent, Zenon
  <2>2. QED
    BY <1>2, <1>5, <2>1, Zenon
<1>6. QED
  BY <1>1, <1>4, <1>5, Zenon

LEMMA CompleteSafe ==
    ASSUME IInv, NEW c \in Caller, task[c].at \in Begun, task[c].at \in Holding, NEW o \in Outcome,
           Complete(c, o), UNCHANGED <<preparing, appVars, nodeVars, sent, absent, panics>>,
           accepted \subseteq accepted', accepted' \subseteq sent,
           \A e \in sent : e.of = c => e \in accepted',
           o.kind \in Failure => /\ o.kind = "definite"
                                 /\ \A e \in sent : e.of = c => e.item < o.item
    PROVE  IInv'
<1>1. TypeOK /\ call[c] \in Handler /\ GivenUpNeverLands /\ Keeps(call[c], task[c]) = task[c].holds
  BY Records, RunningKeeps, Zenon DEF IInv, Absences
<1>2. /\ guarded' = guarded \ task[c].holds /\ task' = [task EXCEPT ![c] = Finished]
      /\ call' = [call EXCEPT ![c].outcome = o]
  BY Zenon DEF Complete
<1> DEFINE k == [call[c] EXCEPT !.outcome = o]
<1>3. /\ k \in Handler /\ k.at = call[c].at /\ k.job = call[c].job /\ k.until = call[c].until
      /\ k.outcome = o
  BY <1>1, Zenon DEF Handler
<1>4. call' = [call EXCEPT ![c] = k]
  BY <1>2, Zenon
<1> HIDE DEF k
<1>5. call'[c] = k /\ call' \in [Caller -> Handler] /\ \A d \in Caller \ {c} : call'[d] = call[d]
  BY <1>1, <1>3, <1>4, SetCall, Zenon
<1>6. GivenUpNeverLands'
  BY <1>1, Zenon DEF GivenUpNeverLands, InBlock, nodeVars
<1>7. settled' \subseteq sent /\ (\A e \in sent : e.of = c => e \in settled')
  <2>1. absent \subseteq sent
    BY <1>1, Zenon DEF TypeOK, settled
  <2>2. QED
    BY <2>1, Zenon DEF settled
<1>8. QED
  BY <1>1, <1>2, <1>3, <1>5, <1>6, <1>7, FinishSafe, Zenon

LEMMA CheckLifetimeSafe ==
    ASSUME IInv, NEW c \in Caller, CheckLifetime(c)
    PROVE  IInv'
<1>1. /\ task[c].at = "check" /\ TypeOK
      /\ UNCHANGED <<preparing, appVars, nodeVars, sent, accepted, absent, panics>>
      /\ \/ Complete(c, Told("definite", task[c].item))
         \/ /\ task' = [task EXCEPT ![c].at = "dispatch", ![c].tries = 0]
            /\ UNCHANGED <<guarded, call>>
  BY Zenon DEF CheckLifetime, Running, IInv
<1>2. task[c].at \in Begun /\ task[c].at \in Holding
  BY <1>1, Zenon DEF Begun, Holding
<1>3. CASE Complete(c, Told("definite", task[c].item))
  <2>1. PICK o \in Outcome : o = Told("definite", task[c].item) /\ o.kind = "definite"
                             /\ o.item = task[c].item
    <3>1. task[c].item \in Nat
      BY TaskFields, Zenon
    <3>2. QED
      BY <3>1, ToldIs
  <2>2. \A e \in sent : e.of = c => e \in accepted /\ e.item < o.item
    BY <1>1, <1>2, <2>1, SentOf, Zenon
  <2>3. accepted \subseteq sent
    BY <1>1, Zenon DEF TypeOK, settled
  <2>4. Complete(c, o)
    BY <1>3, <2>1, Zenon
  <2>5. QED
    BY <1>1, <1>2, <2>1, <2>2, <2>3, <2>4, CompleteSafe, Zenon
<1>4. CASE /\ task' = [task EXCEPT ![c].at = "dispatch", ![c].tries = 0]
           /\ UNCHANGED <<guarded, call>>
  <2>1. "dispatch" \in Begun \ {"check"} /\ "dispatch" \in Holding /\ "dispatch" \notin OnTheWire
    BY Zenon DEF Begun, Holding, OnTheWire, Reconciliation
  <2>2. 0 \in 0 .. 3 /\ 0 < 3
    OBVIOUS
  <2>3. UNCHANGED <<sourceVars, call, appVars, nodeVars, accepted, absent, panics>> /\ sent' = sent
    BY <1>1, <1>4, Zenon DEF sourceVars
  <2>4. task' = [task EXCEPT ![c].at = "dispatch", ![c].tries = 0,
                             ![c].seen = task[c].seen, ![c].read = task[c].read]
    BY <1>1, <1>4, Zenon DEF TypeOK, SubmissionTask
  <2>5. QED
    BY <1>2, <2>1, <2>2, <2>3, <2>4, TaskFields, GoesSafe, Zenon
<1>5. QED
  BY <1>1, <1>3, <1>4, Zenon

LEMMA DispatchSafe ==
    ASSUME IInv, NEW c \in Caller, Dispatch(c)
    PROVE  IInv'
<1>1. /\ task[c].at = "dispatch" /\ TypeOK /\ sent' = sent \cup {Current(c)}
      /\ task' = [task EXCEPT ![c].at = "answer", ![c].tries = task[c].tries + 1]
      /\ UNCHANGED <<sourceVars, call, appVars, nodeVars, accepted, absent, panics>>
      /\ Carries(call[c], task[c])
  BY DEF Dispatch, Running, IInv, Sends
<1>2. task[c].at \in Begun /\ task[c].at \in Holding /\ "answer" \in Begun \ {"check"}
      /\ "answer" \in Holding
  BY <1>1, Zenon DEF Begun, Holding
<1>3. PICK n \in 0 .. 3 : n = task[c].tries + 1
  <2>1. task[c].tries < 3
    BY <1>1, Zenon DEF Carries
  <2>2. QED
    BY <2>1, TaskFields
<1>4. task' = [task EXCEPT ![c].at = "answer", ![c].tries = n,
                           ![c].seen = task[c].seen, ![c].read = task[c].read]
  BY <1>1, <1>3, Zenon DEF TypeOK, SubmissionTask
<1>5. Current(c) \in sent' /\ "answer" \notin {"dispatch", "expiry", "page", "recheck", "verdict"}
  BY <1>1, Zenon
<1>6. QED
  BY <1>1, <1>2, <1>4, <1>5, TaskFields, GoesSafe, Zenon

LEMMA AcceptedSafe ==
    ASSUME IInv, NEW c \in Caller, task[c].at \in {"answer", "status"}, Accepted(c),
           UNCHANGED <<preparing, appVars, nodeVars, sent, absent, panics>>
    PROVE  IInv'
<1>1. TypeOK /\ Current(c) \in sent /\ accepted' = accepted \cup {Current(c)}
  BY Zenon DEF IInv, Envelopes, OnTheWire, Accepted
<1>2. CASE task[c].item = Len(call[c].job)
  <2>1. PICK o \in Outcome : o = Told("ok", task[c].item) /\ o.kind = "ok"
    <3>1. task[c].item \in Nat
      BY TaskFields, Zenon
    <3>2. QED
      BY <3>1, ToldIs
  <2>2. Complete(c, o)
    BY <1>2, <2>1, Zenon DEF Accepted
  <2>3. task[c].at \in Begun /\ task[c].at \in Holding /\ o.kind \notin Failure
    BY <2>1, Zenon DEF Begun, Holding, Failure
  <2>4. \A e \in sent : e.of = c => e \in accepted'
    BY <1>1, <2>3, SentOf, Zenon
  <2>5. accepted \subseteq accepted' /\ accepted' \subseteq sent
    BY <1>1, Zenon DEF TypeOK, settled
  <2>6. QED
    BY <2>1, <2>2, <2>3, <2>4, <2>5, CompleteSafe, Zenon
<1>3. CASE task[c].item # Len(call[c].job)
  <2>1. /\ task' = [task EXCEPT ![c].at = "check", ![c].item = @ + 1]
        /\ UNCHANGED <<guarded, call>>
    BY <1>3, Zenon DEF Accepted
  <2>2. UNCHANGED <<sourceVars, call, appVars, nodeVars, sent, absent, panics>>
    BY <2>1, Zenon DEF sourceVars
  <2>3. QED
    BY <1>1, <1>3, <2>1, <2>2, AdvanceSafe, Zenon
<1>4. QED
  BY <1>2, <1>3, Zenon

\* The task goes on with nothing but its phase changed.
LEMMA StepSafe ==
    ASSUME IInv, NEW c \in Caller, task[c].at \in Begun, NEW at \in Begun \ {"check"},
           task' = [task EXCEPT ![c].at = at],
           UNCHANGED <<preparing, guarded, call, appVars, nodeVars, sent, accepted, absent, panics>>,
           at \in Holding <=> task[c].at \in Holding,
           at \in {"dispatch", "expiry"} => task[c].tries < 3,
           task[c].at \in OnTheWire, at # "page",
           at \in {"recheck", "verdict"} =>
               \A l \in landed : l.height <= task[c].seen => l.envelope # Current(c)
    PROVE  IInv'
<1>1. TypeOK /\ Current(c) \in sent
  BY Zenon DEF IInv, Envelopes
<1>2. PICK n \in 0 .. 3 : n = task[c].tries
  BY TaskFields, Zenon
<1>3. task' = [task EXCEPT ![c].at = at, ![c].tries = n,
                           ![c].seen = task[c].seen, ![c].read = task[c].read]
  BY <1>1, <1>2, Zenon DEF TypeOK, SubmissionTask
<1>4. UNCHANGED <<sourceVars, call, appVars, nodeVars, accepted, absent, panics>> /\ sent' = sent
  BY Zenon DEF sourceVars
<1>5. at \in {"dispatch", "expiry"} => n < 3
  BY <1>2, Zenon
<1>6. QED
  BY <1>1, <1>3, <1>4, <1>5, TaskFields, GoesSafe, ZenonT(30)

LEMMA AnswerSafe ==
    ASSUME IInv, NEW c \in Caller, Answer(c)
    PROVE  IInv'
<1>1. /\ task[c].at = "answer"
      /\ UNCHANGED <<preparing, appVars, nodeVars, sent, absent, panics>>
      /\ \/ Accepted(c)
         \/ /\ task' = [task EXCEPT ![c].at = "status"]
            /\ UNCHANGED <<guarded, call, accepted>>
  BY Zenon DEF Answer, Running
<1>2. CASE Accepted(c)
  BY <1>1, <1>2, AcceptedSafe, Zenon
<1>3. CASE /\ task' = [task EXCEPT ![c].at = "status"]
           /\ UNCHANGED <<guarded, call, accepted>>
  <2>1. task[c].at \in Begun /\ task[c].at \in Holding /\ task[c].at \in OnTheWire
        /\ "status" \in Begun \ {"check"} /\ "status" \in Holding
    BY <1>1, Zenon DEF Begun, Holding, OnTheWire
  <2>2. "status" \notin {"dispatch", "expiry", "page", "recheck", "verdict"}
    BY Zenon
  <2>3. QED
    BY <1>1, <1>3, <2>1, <2>2, StepSafe, Zenon
<1>4. QED
  BY <1>1, <1>2, <1>3, Zenon

LEMMA ObserveSafe ==
    ASSUME IInv, NEW c \in Caller, Observe(c)
    PROVE  IInv'
<1>1. /\ task[c].at = "status"
      /\ UNCHANGED <<preparing, appVars, nodeVars, sent, absent, panics>>
      /\ \/ Accepted(c)
         \/ /\ task[c].tries < 3
            /\ task' = [task EXCEPT ![c].at = "expiry"]
            /\ UNCHANGED <<guarded, call, accepted>>
         \/ RetainAmbiguity(c)
  BY Zenon DEF Observe, Running, Attempts
<1>2. CASE Accepted(c)
  BY <1>1, <1>2, AcceptedSafe, Zenon
<1>3. CASE /\ task[c].tries < 3
           /\ task' = [task EXCEPT ![c].at = "expiry"]
           /\ UNCHANGED <<guarded, call, accepted>>
  <2>1. task[c].at \in Begun /\ task[c].at \in Holding /\ task[c].at \in OnTheWire
        /\ "expiry" \in Begun \ {"check"} /\ "expiry" \in Holding
    BY <1>1, Zenon DEF Begun, Holding, OnTheWire
  <2>2. "expiry" \notin {"page", "recheck", "verdict"}
    BY Zenon
  <2>3. QED
    BY <1>1, <1>3, <2>1, <2>2, StepSafe, Zenon
<1>4. CASE RetainAmbiguity(c)
  BY <1>1, <1>4, RetainSafe, Zenon
<1>5. QED
  BY <1>1, <1>2, <1>3, <1>4, Zenon

LEMMA RetrySafe ==
    ASSUME IInv, NEW c \in Caller, Retry(c)
    PROVE  IInv'
<1>1. /\ task[c].at = "expiry"
      /\ UNCHANGED <<preparing, appVars, nodeVars, sent, absent, panics>>
      /\ \/ /\ task' = [task EXCEPT ![c].at = "dispatch"]
            /\ UNCHANGED <<guarded, call, accepted>>
         \/ RetainAmbiguity(c)
      /\ Carries(call[c], task[c])
  BY Zenon DEF Retry, Running, IInv, Sends
<1>2. CASE /\ task' = [task EXCEPT ![c].at = "dispatch"]
           /\ UNCHANGED <<guarded, call, accepted>>
  <2>1. task[c].at \in Begun /\ task[c].at \in Holding /\ task[c].at \in OnTheWire
        /\ "dispatch" \in Begun \ {"check"} /\ "dispatch" \in Holding
    BY <1>1, Zenon DEF Begun, Holding, OnTheWire
  <2>2. "dispatch" \notin {"page", "recheck", "verdict"} /\ task[c].tries < 3
    BY <1>1, Zenon DEF Carries
  <2>3. QED
    BY <1>1, <1>2, <2>1, <2>2, StepSafe, Zenon
<1>3. CASE RetainAmbiguity(c)
  BY <1>1, <1>3, RetainSafe, Zenon
<1>4. QED
  BY <1>1, <1>2, <1>3, Zenon

-----------------------------------------------------------------------------
(* The reconciliation.                                                     *)

\* Evidence of the envelope, or of its absence, releases its source and nothing else.
LEMMA ResolveSafe ==
    ASSUME IInv, NEW c \in Caller, task[c].at \in Reconciliation, NEW present, Resolve(c, present),
           present \/ ((\A l \in landed : l.envelope # Current(c)) /\ height >= Current(c).until),
           UNCHANGED <<preparing, call, appVars, nodeVars, sent, panics>>
    PROVE  IInv'
<1>1. /\ TypeOK /\ call \in [Caller -> Handler] /\ GivenUpNeverLands /\ Current(c) \in sent
      /\ panics = 0 => Calm(call[c], task[c])
  BY Zenon DEF IInv, TypeOK, Absences, Envelopes, OnTheWire, Sends
<1>2. /\ guarded' = guarded \ {Current(c).source} /\ task' = [task EXCEPT ![c] = Finished]
      /\ accepted' = (IF present THEN accepted \cup {Current(c)} ELSE accepted)
      /\ absent' = (IF present THEN absent ELSE absent \cup {Current(c)})
  BY Zenon DEF Resolve
<1>3. /\ accepted \subseteq accepted' /\ absent \subseteq absent'
      /\ accepted' \subseteq accepted \cup {Current(c)} /\ absent' \subseteq absent \cup {Current(c)}
      /\ Current(c) \in accepted' \cup absent'
  BY <1>2, Zenon
<1>4. settled' \subseteq sent
  BY <1>1, <1>3, Zenon DEF TypeOK, settled
<1>5. task[c].at \in Begun /\ task[c].at \notin {"none", "finished", "gone"}
  BY Zenon DEF Begun, Reconciliation
<1>6. \A e \in sent : e.of = c => e \in settled'
  BY <1>3, <1>5, SentOf, Zenon DEF settled
<1>7. guarded' = guarded \ Keeps(call[c], task[c])
  BY <1>2, RunningKeeps, CurrentFields, Zenon
<1>8. GivenUpNeverLands'
  <2>1. landed' = landed /\ height' = height
    BY Zenon DEF nodeVars
  <2>2. ASSUME NEW e \in absent'
        PROVE  (\A l \in landed : l.envelope # e) /\ height >= e.until
    <3>1. CASE e \in absent
      BY <1>1, <3>1, Zenon DEF GivenUpNeverLands, InBlock
    <3>2. CASE e \notin absent
      BY <1>2, <2>2, <3>2, Zenon
    <3>3. QED
      BY <3>1, <3>2, Zenon
  <2>3. QED
    BY <2>1, <2>2, Zenon DEF GivenUpNeverLands, InBlock
<1>9. panics = 0 => call[c].outcome.kind \notin Failure
  BY <1>1, <1>5, Zenon DEF Calm
<1>10. call' = call /\ call' \in [Caller -> Handler]
  BY <1>1, Zenon
<1>11. QED
  BY <1>2, <1>3, <1>4, <1>5, <1>6, <1>7, <1>8, <1>9, <1>10, FinishSafe, Zenon

LEMMA PauseSafe ==
    ASSUME IInv, NEW c \in Caller, task[c].at \in Reconciliation, Pause(c),
           UNCHANGED <<preparing, call, appVars, nodeVars, sent, panics>>
    PROVE  IInv'
<1>1. /\ TypeOK /\ Current(c) \in sent /\ guarded' = guarded /\ accepted' = accepted /\ absent' = absent
      /\ task' = [task EXCEPT ![c].at = "pause", ![c].seen = 0, ![c].read = {}]
  BY Zenon DEF IInv, Envelopes, OnTheWire, Pause
<1>2. PICK n \in 0 .. 3 : n = task[c].tries
  BY TaskFields, Zenon
<1>3. task' = [task EXCEPT ![c].at = "pause", ![c].tries = n, ![c].seen = 0, ![c].read = {}]
  BY <1>1, <1>2, Zenon DEF TypeOK, SubmissionTask
<1>4. UNCHANGED <<sourceVars, call, appVars, nodeVars, accepted, absent, panics>>
  BY <1>1, Zenon DEF sourceVars
<1>5. task[c].at \in Begun /\ task[c].at \notin Holding /\ "pause" \in Begun \ {"check"}
      /\ "pause" \notin Holding
  BY Zenon DEF Begun, Holding, Reconciliation
<1>6. 0 \in 0 .. MaxHeight /\ 0 <= checkpoint /\ {} \in SUBSET landed
  BY <1>1, BoundsAreNumbers DEF TypeOK
<1>7. "pause" \notin {"dispatch", "expiry", "page", "recheck", "verdict"} /\ sent' = sent
  BY Zenon
<1>8. QED
  BY <1>1, <1>3, <1>4, <1>5, <1>6, <1>7, GoesSafe, Zenon

\* A reconciliation goes on to another of its phases but the first page.
LEMMA ReconcileSafe ==
    ASSUME IInv, NEW c \in Caller, task[c].at \in Reconciliation, NEW at \in Reconciliation \ {"page"},
           Goes(c, at), UNCHANGED <<preparing, call, appVars, nodeVars, sent, panics>>,
           at \in {"recheck", "verdict"} =>
               \A l \in landed : l.height <= task[c].seen => l.envelope # Current(c)
    PROVE  IInv'
<1>1. task' = [task EXCEPT ![c].at = at] /\ UNCHANGED <<guarded, accepted, absent>>
  BY Zenon DEF Goes
<1>2. /\ task[c].at \in Begun /\ task[c].at \notin Holding /\ task[c].at \in OnTheWire
      /\ at \in Begun \ {"check"} /\ at \notin Holding /\ at \notin {"dispatch", "expiry", "page"}
  BY Zenon DEF Begun, Holding, OnTheWire, Reconciliation
<1>3. QED
  BY <1>1, <1>2, StepSafe, Zenon

LEMMA InspectStatusSafe ==
    ASSUME IInv, NEW c \in Caller, InspectStatus(c)
    PROVE  IInv'
<1>1. /\ task[c].at \in Reconciliation
      /\ Resolve(c, TRUE) \/ Goes(c, "mark")
      /\ UNCHANGED <<preparing, call, appVars, nodeVars, sent, panics>>
  BY Zenon DEF InspectStatus, Running, Reconciliation
<1>2. "mark" \in Reconciliation \ {"page"} /\ "mark" \notin {"recheck", "verdict"}
  BY Zenon DEF Reconciliation
<1>3. CASE Resolve(c, TRUE)
  BY <1>1, <1>3, ResolveSafe, Zenon
<1>4. CASE Goes(c, "mark")
  BY <1>1, <1>2, <1>4, ReconcileSafe, Zenon
<1>5. QED
  BY <1>1, <1>3, <1>4, Zenon

LEMMA MarkCheckpointSafe ==
    ASSUME IInv, NEW c \in Caller, MarkCheckpoint(c)
    PROVE  IInv'
<1>1. /\ task[c].at \in Reconciliation /\ TypeOK /\ Current(c) \in sent
      /\ UNCHANGED <<preparing, call, appVars, nodeVars, sent, panics>>
      /\ \/ Pause(c)
         \/ /\ task' = [task EXCEPT ![c].at = "page", ![c].seen = checkpoint, ![c].read = {}]
            /\ UNCHANGED <<guarded, accepted, absent>>
  BY Zenon DEF MarkCheckpoint, Running, Reconciliation, IInv, Envelopes, OnTheWire
<1>2. CASE Pause(c)
  BY <1>1, <1>2, PauseSafe, Zenon
<1>3. CASE /\ task' = [task EXCEPT ![c].at = "page", ![c].seen = checkpoint, ![c].read = {}]
           /\ UNCHANGED <<guarded, accepted, absent>>
  <2>1. PICK n \in 0 .. 3 : n = task[c].tries
    BY TaskFields, Zenon
  <2>2. task' = [task EXCEPT ![c].at = "page", ![c].tries = n, ![c].seen = checkpoint, ![c].read = {}]
    BY <1>1, <1>3, <2>1, Zenon DEF TypeOK, SubmissionTask
  <2>3. UNCHANGED <<sourceVars, call, appVars, nodeVars, accepted, absent, panics>>
    BY <1>1, <1>3, Zenon DEF sourceVars
  <2>4. task[c].at \in Begun /\ task[c].at \notin Holding /\ "page" \in Begun \ {"check"}
        /\ "page" \notin Holding
    BY <1>1, Zenon DEF Begun, Holding, Reconciliation
  <2>5. checkpoint \in 0 .. MaxHeight /\ checkpoint <= checkpoint
    BY <1>1, BoundsAreNumbers DEF TypeOK
  <2>6. "page" \notin {"dispatch", "expiry", "recheck", "verdict"} /\ sent' = sent
        /\ {} \in SUBSET landed
    BY <1>1, Zenon
  <2>7. QED
    BY <1>1, <2>2, <2>3, <2>4, <2>5, <2>6, GoesSafe, ZenonT(30)
<1>4. QED
  BY <1>1, <1>2, <1>3, Zenon

LEMMA ScanPageSafe ==
    ASSUME IInv, NEW c \in Caller, ScanPage(c)
    PROVE  IInv'
<1>1. /\ task[c].at = "page" /\ task[c].at \in Reconciliation /\ TypeOK /\ Current(c) \in sent
      /\ UNCHANGED <<preparing, call, appVars, nodeVars, sent, panics>>
      /\ \A l \in task[c].read : l.envelope # Current(c)
  BY Zenon DEF ScanPage, Running, Reconciliation, IInv, Envelopes, OnTheWire, Absences, Scanned
<1> DEFINE rest == History(Current(c).source) \ task[c].read
<1>2. \/ Pause(c)
      \/ /\ checkpoint = task[c].seen
         /\ \E page \in NextPage(rest) :
               IF \E l \in page : l.envelope = Current(c)
               THEN Resolve(c, TRUE)
               ELSE IF page # rest
               THEN /\ task' = [task EXCEPT ![c].read = @ \cup page]
                    /\ UNCHANGED <<guarded, accepted, absent>>
               ELSE Goes(c, "recheck")
  BY Zenon DEF ScanPage
<1>3. CASE Pause(c)
  BY <1>1, <1>3, PauseSafe, Zenon
<1>4. ASSUME NEW page \in NextPage(rest), checkpoint = task[c].seen,
             IF \E l \in page : l.envelope = Current(c)
             THEN Resolve(c, TRUE)
             ELSE IF page # rest
             THEN /\ task' = [task EXCEPT ![c].read = @ \cup page]
                  /\ UNCHANGED <<guarded, accepted, absent>>
             ELSE Goes(c, "recheck")
      PROVE  IInv'
  <2>1. page \subseteq rest
    BY Zenon DEF NextPage
  <2>2. rest \subseteq landed
    BY Zenon DEF History
  <2>3. \A l \in landed : l.height <= checkpoint /\ l.envelope = Current(c) =>
            l \in rest \/ l \in task[c].read
    BY Zenon DEF History
  <2> HIDE DEF rest
  <2>4. CASE \E l \in page : l.envelope = Current(c)
    BY <1>1, <1>4, <2>4, ResolveSafe, Zenon
  <2>5. CASE ~ (\E l \in page : l.envelope = Current(c)) /\ page # rest
    <3>1. /\ task' = [task EXCEPT ![c].read = task[c].read \cup page]
          /\ UNCHANGED <<guarded, accepted, absent>>
      BY <1>1, <1>4, <2>5 DEF TypeOK
    <3>2. PICK n \in 0 .. 3 : n = task[c].tries
      BY TaskFields, Zenon
    <3>3. PICK r \in SUBSET landed : r = task[c].read \cup page
      <4>1. task[c].read \cup page \in SUBSET landed
        BY <2>1, <2>2, TaskFields, Zenon
      <4>2. QED
        BY <4>1, Zenon
    <3> DEFINE m == task[c].seen
    <3>4. task' = [task EXCEPT ![c].at = "page", ![c].tries = n, ![c].seen = m, ![c].read = r]
      BY <1>1, <3>1, <3>2, <3>3, Zenon DEF TypeOK, SubmissionTask
    <3>10. m \in 0 .. MaxHeight /\ m <= checkpoint
      BY TaskFields, Zenon
    <3> HIDE DEF m
    <3>5. \A l \in r : l.envelope # Current(c)
      BY <1>1, <2>5, <3>3, Zenon
    <3>6. UNCHANGED <<sourceVars, call, appVars, nodeVars, accepted, absent, panics>>
      BY <1>1, <3>1, Zenon DEF sourceVars
    <3>7. task[c].at \in Begun /\ task[c].at \notin Holding /\ "page" \in Begun \ {"check"}
          /\ "page" \notin Holding
      BY <1>1, Zenon DEF Begun, Holding, Reconciliation
    <3>8. "page" \notin {"dispatch", "expiry", "recheck", "verdict"} /\ sent' = sent
      BY <1>1, Zenon
    <3>9. QED
      BY <1>1, <3>4, <3>5, <3>6, <3>7, <3>8, <3>10, GoesSafe, Zenon
  <2>6. CASE ~ (\E l \in page : l.envelope = Current(c)) /\ page = rest
    <3>1. Goes(c, "recheck")
      BY <1>4, <2>6, Zenon
    <3>2. \A l \in landed : l.height <= task[c].seen => l.envelope # Current(c)
      BY <1>1, <1>4, <2>3, <2>6, Zenon
    <3>3. "recheck" \in Reconciliation \ {"page"}
      BY Zenon DEF Reconciliation
    <3>4. QED
      BY <1>1, <3>1, <3>2, <3>3, ReconcileSafe, Zenon
  <2>7. QED
    BY <2>4, <2>5, <2>6, Zenon
<1>5. QED
  BY <1>2, <1>3, <1>4, Zenon

LEMMA RecheckSafe ==
    ASSUME IInv, NEW c \in Caller, Recheck(c)
    PROVE  IInv'
<1>1. /\ task[c].at \in Reconciliation
      /\ Pause(c) \/ Goes(c, "verdict")
      /\ UNCHANGED <<preparing, call, appVars, nodeVars, sent, panics>>
      /\ \A l \in landed : l.height <= task[c].seen => l.envelope # Current(c)
  BY Zenon DEF Recheck, Running, Reconciliation, IInv, Absences, Scanned
<1>2. "verdict" \in Reconciliation \ {"page"}
  BY Zenon DEF Reconciliation
<1>3. CASE Pause(c)
  BY <1>1, <1>3, PauseSafe, Zenon
<1>4. CASE Goes(c, "verdict")
  BY <1>1, <1>2, <1>4, ReconcileSafe, Zenon
<1>5. QED
  BY <1>1, <1>3, <1>4, Zenon

LEMMA VerdictSafe ==
    ASSUME IInv, NEW c \in Caller, Verdict(c)
    PROVE  IInv'
<1>1. /\ task[c].at \in Reconciliation
      /\ Pause(c) \/ (ProvenAbsent(c) /\ Resolve(c, FALSE))
      /\ UNCHANGED <<preparing, call, appVars, nodeVars, sent, panics>>
      /\ \A l \in landed : l.height <= task[c].seen => l.envelope # Current(c)
      /\ \A l \in landed : l.height <= l.envelope.until
      /\ TypeOK /\ Current(c) \in sent
  BY Zenon DEF Verdict, Running, Reconciliation, IInv, Absences, Scanned, Envelopes, OnTheWire
<1>2. CASE Pause(c)
  BY <1>1, <1>2, PauseSafe, Zenon
<1>3. CASE ProvenAbsent(c) /\ Resolve(c, FALSE)
  <2>1. Current(c).until <= task[c].seen /\ height >= Current(c).until
    <3>1. height > LastValid(c) /\ task[c].seen >= LastValid(c) /\ Current(c).until = LastValid(c)
      BY <1>3, CurrentFields, Zenon DEF ProvenAbsent, LastValid
    <3>2. height \in Nat /\ task[c].seen \in Nat /\ LastValid(c) \in Nat
      <4>1. Current(c).until \in 0 .. MaxHeight
        BY <1>1, Zenon DEF TypeOK, Envelope
      <4>2. QED
        BY <1>1, <3>1, <4>1, TaskFields, BoundsAreNumbers DEF TypeOK
    <3>3. QED
      BY <3>1, <3>2
  <2>2. ASSUME NEW l \in landed, l.envelope = Current(c)
        PROVE  FALSE
    <3>1. l.height <= Current(c).until /\ ~ (l.height <= task[c].seen)
      BY <1>1, <2>2, Zenon
    <3>2. l.height \in Nat /\ Current(c).until \in Nat /\ task[c].seen \in Nat
      <4>1. l \in [envelope : sent, height : 1 .. height] /\ Current(c) \in Envelope
        BY <1>1, Zenon DEF TypeOK
      <4>2. l.height \in 1 .. height /\ Current(c).until \in 0 .. MaxHeight
        BY <4>1, Zenon DEF Envelope
      <4>3. QED
        BY <1>1, <4>2, TaskFields, BoundsAreNumbers DEF TypeOK
    <3>3. QED
      BY <2>1, <3>1, <3>2
  <2>3. QED
    BY <1>1, <1>3, <2>1, <2>2, ResolveSafe, Zenon
<1>4. QED
  BY <1>1, <1>2, <1>3, Zenon

LEMMA ResumeSafe ==
    ASSUME IInv, NEW c \in Caller, Resume(c)
    PROVE  IInv'
<1>1. /\ task[c].at \in Reconciliation /\ Goes(c, "inspect")
      /\ UNCHANGED <<preparing, call, appVars, nodeVars, sent, panics>>
  BY Zenon DEF Resume, Running, Reconciliation
<1>2. "inspect" \in Reconciliation \ {"page"} /\ "inspect" \notin {"recheck", "verdict"}
  BY Zenon DEF Reconciliation
<1>3. QED
  BY <1>1, <1>2, ReconcileSafe, Zenon

-----------------------------------------------------------------------------
(* The supervisor.                                                         *)

\* Tasks end where they are, by a panic or dropped by the supervisor: nothing they
\* would have to be asked about is lost unless a task panicked.
LEMMA EnvelopesDrop ==
    ASSUME TypeOK, Envelopes, call' = call, UNCHANGED <<sent, accepted, absent>>,
           \A d \in Caller : task'[d] = task[d] \/ task'[d].at \in {"gone", "panicked"},
           panics' = 0 => /\ panics = 0
                          /\ \A d \in Caller : task'[d] = task[d] \/ task[d].at = "queued"
    PROVE  Envelopes'
<1>1. \A a \in {"gone", "panicked"} :
          a \notin Begun /\ a \notin OnTheWire /\ a \notin {"none", "queued", "dormant", "finished"}
  BY Zenon DEF Begun, OnTheWire, Reconciliation
<1>2. \A e \in sent : e.of \in Caller /\ Sent(e, call[e.of], task[e.of])
  BY Zenon DEF TypeOK, Envelopes, Envelope
<1>3. \A e \in sent' : Sent(e, call'[e.of], task'[e.of])
  <2>1. ASSUME NEW e \in sent, task'[e.of].at \in {"gone", "panicked"}
        PROVE  Sent(e, call[e.of], task'[e.of])
    BY <1>1, <1>2, <2>1, Zenon DEF Sent
  <2>2. \A e \in sent : Sent(e, call[e.of], task'[e.of])
    BY <1>2, <2>1, Zenon
  <2>3. QED
    BY <2>2, Zenon
<1>4. \A e \in sent : panics' = 0 => task'[e.of] = task[e.of]
  BY <1>2, Zenon DEF Sent
<1>5. \A e \in sent' : panics' = 0 => task'[e.of].at # "gone"
  BY <1>4, Zenon DEF Envelopes
<1>6. settled' = settled
  BY Zenon DEF settled
<1>7. \A e \in sent' : task'[e.of].at \in Begun /\ e.item < task'[e.of].item => e \in accepted'
  <2>1. \A e \in sent : task'[e.of].at \in Begun => task'[e.of] = task[e.of]
    BY <1>1, <1>2, Zenon
  <2>2. QED
    BY <2>1, Zenon DEF Envelopes
<1>8. \A e \in sent' : task'[e.of].at = "finished" => e \in settled'
  <2>1. \A e \in sent : task'[e.of].at = "finished" => task'[e.of] = task[e.of]
    BY <1>1, <1>2, Zenon
  <2>2. QED
    BY <1>6, <2>1, Zenon DEF Envelopes
<1>9. \A d \in Caller : task'[d].at \in OnTheWire => Current(d)' \in sent'
  <2>1. ASSUME NEW d \in Caller, task'[d].at \in OnTheWire
        PROVE  Current(d)' \in sent'
    <3>1. task'[d] = task[d]
      BY <1>1, <2>1, Zenon
    <3>2. Current(d)' = Current(d) /\ Current(d) \in sent
      BY <2>1, <3>1, SameCurrent, Zenon DEF Envelopes
    <3>3. QED
      BY <3>2, Zenon
  <2>2. QED
    BY <2>1, Zenon
<1>10. DefiniteMeansUnsent'
  <2>1. DefiniteMeansUnsent
    BY Zenon DEF Envelopes
  <2>2. QED
    BY <1>6, <2>1, Zenon DEF DefiniteMeansUnsent
<1>11. QED
  BY <1>3, <1>5, <1>7, <1>8, <1>9, <1>10, ZenonT(30) DEF Envelopes

LEMMA AbsencesDrop ==
    ASSUME Absences, call' = call, UNCHANGED <<nodeVars, absent>>,
           \A d \in Caller : \/ task'[d] = task[d]
                             \/ task'[d].at \in {"gone", "panicked"} /\ task'[d].seen <= checkpoint
    PROVE  Absences'
<1>1. landed' = landed /\ height' = height /\ checkpoint' = checkpoint
  BY Zenon DEF nodeVars
<1>2. ASSUME NEW d \in Caller
      PROVE  Scanned(Current(d), task[d])'
  <2>1. Scanned(Current(d), task[d])
    BY Zenon DEF Absences
  <2>2. CASE task'[d] = task[d]
    <3>1. Current(d)' = Current(d)
      BY <2>2, SameCurrent, Zenon
    <3>2. QED
      BY <1>1, <2>1, <2>2, <3>1, Zenon DEF Scanned
  <2>3. CASE task'[d].at \in {"gone", "panicked"} /\ task'[d].seen <= checkpoint
    BY <1>1, <2>3, Zenon DEF Scanned
  <2>4. QED
    BY <2>2, <2>3, Zenon
<1>3. GivenUpNeverLands'
  BY <1>1, Zenon DEF Absences, GivenUpNeverLands, InBlock
<1>4. QED
  BY <1>1, <1>2, <1>3, Zenon DEF Absences

\* The types of a step of the supervisor or of main.
LEMMA TypesApp ==
    ASSUME TypeOK, UNCHANGED <<preparing, call, nodeVars, sent, accepted, absent>>,
           task' \in [Caller -> SubmissionTask], guarded' \subseteq Source,
           queue' \in Seq(Caller \cup {Close}), Len(queue') <= Capacity,
           supervisor' \in {"running", "draining", "ended", "failed"},
           stage' \in {Stages[i] : i \in DOMAIN Stages}, sync' \in {"running", "fatal", "stopped"},
           panics' \in 0 .. MaxPanics
    PROVE  TypeOK'
<1>1. SubmissionTask' = SubmissionTask
  BY Zenon DEF SubmissionTask, nodeVars
<1>2. settled' = settled
  BY Zenon DEF settled
<1>3. QED
  BY <1>1, <1>2, Zenon DEF TypeOK, nodeVars

LEMMA PanicSafe ==
    ASSUME IInv, NEW c \in Caller, Panic(c)
    PROVE  IInv'
<1>1. /\ Live(c) /\ supervisor \in {"running", "draining"}
      /\ panics' = panics + 1 /\ panics < MaxPanics
      /\ guarded' = guarded \ task[c].holds /\ preparing' = preparing /\ call' = call
      /\ task' = [task EXCEPT ![c].at = "panicked", ![c].holds = {}]
      /\ UNCHANGED <<queue, supervisor, stage, sync, nodeVars, sent, accepted, absent>>
  BY Zenon DEF Panic, appVars
<1>2. /\ TypeOK /\ Sends /\ Queues /\ Guards /\ Envelopes /\ Absences /\ Supervision
      /\ task[c] \in SubmissionTask
      /\ Linked(call[c], task[c]) /\ Carries(call[c], task[c])
  BY Records, Zenon DEF IInv, Sends
<1> DEFINE t == [task[c] EXCEPT !.at = "panicked", !.holds = {}]
<1>3. /\ t \in SubmissionTask /\ t.at = "panicked" /\ t.activation = task[c].activation
      /\ t.holds = {} /\ t.item = task[c].item /\ t.seen = task[c].seen
  BY <1>2, Zenon DEF SubmissionTask, TaskPhases
<1>4. task' = [task EXCEPT ![c] = t]
  BY <1>1, Zenon
<1> HIDE DEF t
<1>5. /\ task'[c] = t /\ Others(c) /\ task' \in [Caller -> SubmissionTask]
      /\ \A d \in Caller \ {c} : task'[d] = task[d]
  BY <1>1, <1>2, <1>3, <1>4, SetTask, Zenon DEF Others
<1>6. panics' # 0 /\ panics' \in 0 .. MaxPanics /\ panics' > 0
  BY <1>1, <1>2, BoundsAreNumbers DEF TypeOK
<1>7. Sends'
  <2>1. Linked(call[c], t)
    <3>1. task[c].at \notin {"none", "queued", "finished", "gone", "panicked"}
      BY <1>1, Zenon DEF Live
    <3>2. call[c].at \notin {"new", "prepare", "prepared", "send"}
      BY <1>2, <3>1, TaskEnds, Zenon DEF Linked
    <3>3. QED
      BY <1>2, <1>3, <3>2, Zenon DEF Linked, Begun, Reconciliation
  <2>2. Carries(call[c], t)
    BY <1>3, Zenon DEF Carries, Holding, Begun, Reconciliation
  <2>3. \A d \in Caller : Linked(call[d], task'[d]) /\ Carries(call[d], task'[d])
    BY <1>2, <1>5, <2>1, <2>2, Zenon DEF Sends
  <2>4. QED
    BY <1>1, <1>6, <2>3, Zenon DEF Sends
<1>8. Queues'
  BY <1>1, <1>2, <1>3, <1>5, QueuesOne, Zenon DEF Live
<1>9. Guards'
  <2>1. Keeps(call[c], t) = {}
    BY <1>3, Zenon DEF Keeps, Reconciliation
  <2>2. task[c].holds \subseteq Keeps(call[c], task[c])
    BY Zenon DEF Keeps
  <2>3. \A d \in Caller : Keeps(call'[d], task'[d]) \subseteq Keeps(call[d], task[d])
    BY <1>1, <1>5, <2>1, Zenon
  <2>4. \A x \in guarded \ guarded' : \E d \in Caller :
               x \in Keeps(call[d], task[d]) /\ x \notin Keeps(call'[d], task'[d])
    <3>1. ASSUME NEW x \in guarded \ guarded'
          PROVE  x \in Keeps(call[c], task[c]) /\ x \notin Keeps(call'[c], task'[c])
      BY <1>1, <1>5, <2>1, <2>2, Zenon
    <3>2. QED
      BY <3>1, Zenon
  <2>5. \A x \in Source : x \in preparing' <=> \E d \in Caller : x \in Leases(call'[d])
    BY <1>1, <1>2, Zenon DEF Guards
  <2>6. \A d \in Caller : Leases(call'[d]) \subseteq Leases(call[d])
    BY <1>1, Zenon
  <2>7. guarded' \subseteq guarded
    BY <1>1, Zenon
  <2>8. QED
    BY <1>2, <1>6, <2>3, <2>4, <2>5, <2>6, <2>7, GuardsShrink, ZenonT(30)
<1>10. Envelopes'
  BY <1>1, <1>2, <1>3, <1>5, <1>6, EnvelopesDrop, Zenon
<1>11. Absences'
  <2>1. t.seen <= checkpoint
    BY <1>3, TaskFields, Zenon
  <2>2. QED
    BY <1>1, <1>2, <1>3, <1>5, <2>1, AbsencesDrop, Zenon
<1>12. Supervision'
  <2>1. HandlersDone' <=> HandlersDone
    BY <1>1, Zenon DEF HandlersDone
  <2>2. supervisor \notin {"ended", "failed"}
    BY <1>1, Zenon
  <2>3. task'[c].at = "panicked"
    BY <1>3, <1>5, Zenon
  <2>4. QED
    BY <1>1, <1>2, <2>1, <2>2, <2>3, Zenon DEF Supervision
<1>13. TypeOK'
  <2>1. guarded' \subseteq Source
    BY <1>1, <1>2, Zenon DEF TypeOK
  <2>2. queue' \in Seq(Caller \cup {Close}) /\ Len(queue') <= Capacity
        /\ UNCHANGED <<supervisor, stage, sync>>
    BY <1>1, <1>2, Zenon DEF TypeOK
  <2>3. supervisor' \in {"running", "draining", "ended", "failed"}
        /\ stage' \in {Stages[i] : i \in DOMAIN Stages} /\ sync' \in {"running", "fatal", "stopped"}
    BY <1>2, <2>2, Zenon DEF TypeOK
  <2>4. QED
    BY <1>1, <1>2, <1>5, <1>6, <2>1, <2>2, <2>3, TypesApp, ZenonT(30)
<1>14. QED
  BY <1>7, <1>8, <1>9, <1>10, <1>11, <1>12, <1>13, ZenonT(30) DEF IInv

\* Tasks that are dropped lose the guards they hold, and only a fault of a task drops
\* one that was activated.
LEMMA DropSafe ==
    ASSUME IInv, NEW C \in SUBSET Caller, DropTasks(C),
           UNCHANGED <<preparing, call, nodeVars, sent, accepted, absent, panics>>,
           \A c \in C : call[c].at \notin {"new", "prepare", "prepared", "send"},
           panics = 0 => \A c \in C : task[c].at = "queued"
    PROVE  /\ Sends' /\ Guards' /\ Envelopes' /\ Absences'
           /\ task' \in [Caller -> SubmissionTask] /\ guarded' \subseteq Source
           /\ \A c \in C : task'[c] = Dropped
           /\ \A c \in Caller \ C : task'[c] = task[c]
<1>1. TypeOK /\ Sends /\ Guards /\ Envelopes /\ Absences /\ task \in [Caller -> SubmissionTask]
      /\ guarded \subseteq Source
  BY Zenon DEF IInv, TypeOK
<1>2. /\ Dropped \in SubmissionTask /\ Dropped.at = "gone" /\ Dropped.holds = {}
      /\ Dropped.activation = "held" /\ Dropped.seen = 0 /\ Dropped.item = 1
  BY TaskEnds, Zenon
<1>3. /\ guarded' = guarded \ UNION {task[c].holds : c \in C}
      /\ task' = [c \in Caller |-> IF c \in C THEN Dropped ELSE task[c]]
  BY Zenon DEF DropTasks
<1>4. /\ task' \in [Caller -> SubmissionTask]
      /\ \A c \in C : task'[c] = Dropped
      /\ \A c \in Caller \ C : task'[c] = task[c]
  BY <1>1, <1>2, <1>3, Zenon
<1>5. Sends'
  <2>1. ASSUME NEW c \in C
        PROVE  /\ Linked(call[c], Dropped) /\ Carries(call[c], Dropped)
               /\ panics = 0 => Calm(call[c], Dropped)
    <3>1. Linked(call[c], task[c]) /\ call[c].at \notin {"new", "prepare", "prepared", "send"}
      BY <1>1, Zenon DEF Sends
    <3>2. Linked(call[c], Dropped)
      BY <1>2, <3>1, Zenon DEF Linked, Begun, Reconciliation
    <3>3. Carries(call[c], Dropped)
      BY <1>2, Zenon DEF Carries, Holding, Begun, Reconciliation
    <3>4. panics = 0 => Calm(call[c], Dropped)
      BY <1>2, <3>1, Zenon DEF Calm, Linked
    <3>5. QED
      BY <3>2, <3>3, <3>4, Zenon
  <2>2. \A c \in Caller : /\ Linked(call[c], task'[c]) /\ Carries(call[c], task'[c])
                          /\ panics = 0 => Calm(call[c], task'[c])
    BY <1>1, <1>4, <2>1, Zenon DEF Sends
  <2>3. QED
    BY <2>2, Zenon DEF Sends
<1>6. Guards'
  <2>1. \A c \in C : Keeps(call'[c], task'[c]) = {}
    BY <1>4, EndedKeeps, Zenon
  <2>2. \A c \in Caller \ C : Keeps(call'[c], task'[c]) = Keeps(call[c], task[c])
    BY <1>4, Zenon
  <2>3. \A d \in Caller : Keeps(call'[d], task'[d]) \subseteq Keeps(call[d], task[d])
    BY <2>1, <2>2, Zenon
  <2>4. ASSUME NEW x \in guarded \ guarded'
        PROVE  \E d \in Caller : x \in Keeps(call[d], task[d]) /\ x \notin Keeps(call'[d], task'[d])
    <3>1. PICK c \in C : x \in task[c].holds
      BY <1>3, <2>4, Zenon
    <3>2. QED
      BY <2>1, <3>1, Zenon DEF Keeps
  <2>5. ASSUME panics' = 0, NEW x \in guarded', NEW d \in Caller, x \in Keeps(call[d], task[d])
        PROVE  x \in Keeps(call'[d], task'[d])
    <3>1. CASE d \in C
      <4>1. task[d].at = "queued" /\ "queued" \notin Reconciliation
        BY <2>5, <3>1, Zenon DEF Reconciliation
      <4>2. x \in task[d].holds
        BY <2>5, <4>1, Zenon DEF Keeps
      <4>3. QED
        BY <1>3, <2>5, <3>1, <4>2, Zenon
    <3>2. QED
      BY <2>2, <2>5, <3>1, Zenon
  <2>6. \A x \in Source : x \in preparing' <=> \E d \in Caller : x \in Leases(call'[d])
    BY <1>1, Zenon DEF Guards
  <2>7. guarded' \subseteq guarded /\ \A d \in Caller : Leases(call'[d]) \subseteq Leases(call[d])
    BY <1>3, Zenon
  <2>8. QED
    BY <1>1, <2>3, <2>4, <2>5, <2>6, <2>7, GuardsShrink, Zenon
<1>7. Envelopes'
  <2>1. \A d \in Caller : task'[d] = task[d] \/ task'[d].at \in {"gone", "panicked"}
    BY <1>2, <1>4, Zenon
  <2>2. panics' = 0 => /\ panics = 0
                       /\ \A d \in Caller : task'[d] = task[d] \/ task[d].at = "queued"
    BY <1>4, Zenon
  <2>3. QED
    BY <1>1, <2>1, <2>2, EnvelopesDrop, Zenon
<1>8. Absences'
  <2>1. Dropped.seen <= checkpoint
    BY <1>1, <1>2 DEF TypeOK
  <2>2. \A d \in Caller : \/ task'[d] = task[d]
                          \/ task'[d].at \in {"gone", "panicked"} /\ task'[d].seen <= checkpoint
    BY <1>2, <1>4, <2>1, Zenon
  <2>3. QED
    BY <1>1, <2>2, AbsencesDrop, Zenon
<1>9. guarded' \subseteq Source
  BY <1>1, <1>3, Zenon
<1>10. QED
  BY <1>4, <1>5, <1>6, <1>7, <1>8, <1>9, ZenonT(30)

LEMMA EmptyQueue ==
    ASSUME IInv, queue' = <<>>,
           \A c \in Caller : task'[c].at = "queued" => call'[c].at = "send"
    PROVE  Queues' /\ queue' \in Seq(Caller \cup {Close}) /\ Len(queue') <= Capacity
<1>1. queue' \in Seq(Caller \cup {Close}) /\ Len(queue') <= Capacity /\ 1 .. Len(queue') = {}
  BY BoundsAreNumbers
<1>2. QED
  BY <1>1, Zenon DEF Queues

LEMMA QueuedAre ==
    ASSUME IInv
    PROVE  /\ Queued \subseteq Caller
           /\ \A c \in Queued : task[c].at = "queued" /\ call[c].at \in {"ack", "gone"}
           /\ \A c \in Caller : task[c].at = "queued" /\ call[c].at # "send" => c \in Queued
<1>1. Queues /\ DOMAIN queue = 1 .. Len(queue)
  BY DEF IInv, TypeOK
<1>2. QED
  BY <1>1, Zenon DEF Queued, Queues

LEMMA TakeCloseSafe ==
    ASSUME IInv, TakeClose
    PROVE  IInv'
<1>1. /\ supervisor = "running" /\ supervisor' = "draining" /\ queue' = <<>> /\ DropTasks(Queued)
      /\ UNCHANGED <<preparing, call, stage, sync, nodeVars, sent, accepted, absent, panics>>
  BY Zenon DEF TakeClose
<1>2. TypeOK /\ Supervision
  BY Zenon DEF IInv
<1>3. /\ Sends' /\ Guards' /\ Envelopes' /\ Absences'
      /\ task' \in [Caller -> SubmissionTask] /\ guarded' \subseteq Source
      /\ \A c \in Queued : task'[c] = Dropped
      /\ \A c \in Caller \ Queued : task'[c] = task[c]
  <2>1. Queued \in SUBSET Caller
        /\ \A c \in Queued : task[c].at = "queued" /\ call[c].at \notin {"new", "prepare", "prepared", "send"}
    BY QueuedAre, Zenon
  <2>2. QED
    BY <1>1, <2>1, DropSafe, Zenon
<1>4. \A c \in Caller : task'[c].at = "queued" => call'[c].at = "send"
  BY <1>1, <1>3, QueuedAre, TaskEnds, Zenon
<1>5. Queues' /\ queue' \in Seq(Caller \cup {Close}) /\ Len(queue') <= Capacity
  BY <1>1, <1>4, EmptyQueue, Zenon
<1>6. Supervision'
  <2>1. HandlersDone' <=> HandlersDone
    BY <1>1, Zenon DEF HandlersDone
  <2>2. panics > 0 => \E c \in Caller : task'[c].at = "panicked"
    BY <1>1, <1>2, <1>3, QueuedAre, Zenon DEF Supervision
  <2>3. QED
    BY <1>1, <1>2, <2>1, <2>2, Zenon DEF Supervision
<1>7. TypeOK'
  <2>1. panics' \in 0 .. MaxPanics /\ stage' \in {Stages[i] : i \in DOMAIN Stages}
        /\ sync' \in {"running", "fatal", "stopped"}
    BY <1>1, <1>2, Zenon DEF TypeOK
  <2>2. QED
    BY <1>1, <1>2, <1>3, <1>5, <2>1, TypesApp, Zenon
<1>8. QED
  BY <1>3, <1>5, <1>6, <1>7, Zenon DEF IInv

LEMMA SupervisorFailsSafe ==
    ASSUME IInv, SupervisorFails
    PROVE  IInv'
<1> DEFINE C == {c \in Caller : Live(c) \/ task[c].at = "panicked"} \cup Queued
<1>1. /\ \E c \in Caller : task[c].at = "panicked"
      /\ supervisor \in {"running", "draining"} /\ supervisor' = "failed" /\ queue' = <<>>
      /\ DropTasks(C)
      /\ UNCHANGED <<preparing, call, stage, sync, nodeVars, sent, accepted, absent, panics>>
  BY Zenon DEF SupervisorFails
<1>2. TypeOK /\ Supervision /\ Sends
  BY Zenon DEF IInv
<1>3. panics # 0
  BY <1>1, <1>2, Zenon DEF Sends, Calm
<1>4. /\ Sends' /\ Guards' /\ Envelopes' /\ Absences'
      /\ task' \in [Caller -> SubmissionTask] /\ guarded' \subseteq Source
      /\ \A c \in C : task'[c] = Dropped
      /\ \A c \in Caller \ C : task'[c] = task[c]
  <2>1. C \in SUBSET Caller
    BY QueuedAre, Zenon
  <2>2. ASSUME NEW c \in C
        PROVE  call[c].at \notin {"new", "prepare", "prepared", "send"}
    <3>1. CASE c \in Queued
      BY <3>1, QueuedAre, Zenon
    <3>2. CASE c \notin Queued
      <4>1. c \in Caller /\ task[c].at \notin {"none", "queued"} /\ Linked(call[c], task[c])
        BY <1>2, <3>2, Zenon DEF Live, Sends
      <4>2. QED
        BY <4>1, TaskEnds, Zenon DEF Linked
    <3>3. QED
      BY <3>1, <3>2, Zenon
  <2> HIDE DEF C
  <2>3. QED
    BY <1>1, <1>3, <2>1, <2>2, DropSafe, Zenon
<1>5. \A c \in Caller : task'[c].at = "queued" => call'[c].at = "send"
  <2>1. \A c \in Caller : task'[c].at = "queued" => task'[c] = task[c] /\ c \notin Queued
    BY <1>4, TaskEnds, Zenon
  <2>2. QED
    BY <1>1, <2>1, QueuedAre, Zenon
<1>6. Queues' /\ queue' \in Seq(Caller \cup {Close}) /\ Len(queue') <= Capacity
  BY <1>1, <1>5, EmptyQueue, Zenon
<1>7. Supervision'
  <2>1. HandlersDone' <=> HandlersDone
    BY <1>1, Zenon DEF HandlersDone
  <2>2. \A c \in Caller : ~ Live(c)' /\ task'[c].at # "panicked"
    <3>1. ASSUME NEW c \in C
          PROVE  ~ Live(c)' /\ task'[c].at # "panicked"
      BY <1>4, TaskEnds, Zenon DEF Live
    <3>2. ASSUME NEW c \in Caller \ C
          PROVE  ~ Live(c)' /\ task'[c].at # "panicked"
      BY <1>4, Zenon DEF Live
    <3>3. QED
      BY <3>1, <3>2, Zenon
  <2>3. QED
    BY <1>1, <1>2, <2>1, <2>2, Zenon DEF Supervision
<1>8. TypeOK'
  <2>1. panics' \in 0 .. MaxPanics /\ stage' \in {Stages[i] : i \in DOMAIN Stages}
        /\ sync' \in {"running", "fatal", "stopped"}
    BY <1>1, <1>2, Zenon DEF TypeOK
  <2>2. QED
    BY <1>1, <1>2, <1>4, <1>6, <2>1, TypesApp, Zenon
<1>9. QED
  BY <1>4, <1>6, <1>7, <1>8, Zenon DEF IInv

LEMMA TakeInsertSafe ==
    ASSUME IInv, TakeInsert
    PROVE  IInv'
<1> DEFINE c == Head(queue)
<1>1. /\ supervisor = "running" /\ queue # <<>> /\ c # Close /\ queue' = Tail(queue)
      /\ task' = [task EXCEPT ![c].at = "dormant"] /\ preparing' = preparing /\ guarded' = guarded
      /\ UNCHANGED <<call, supervisor, stage, sync, nodeVars, sent, accepted, absent, panics>>
  BY Zenon DEF TakeInsert, sourceVars
<1>2. /\ queue \in Seq(Caller \cup {Close}) /\ Len(queue) <= Capacity /\ TypeOK /\ Queues /\ Guards
      /\ preparing \subseteq Source /\ guarded \subseteq Source /\ call \in [Caller -> Handler]
  BY Zenon DEF IInv, TypeOK
<1>3. /\ c = queue[1] /\ 1 \in 1 .. Len(queue) /\ c \in Caller \cup {Close}
      /\ queue' \in Seq(Caller \cup {Close}) /\ Len(queue') <= Capacity
      /\ \A i \in 1 .. Len(queue') : /\ i + 1 \in 1 .. Len(queue) /\ i + 1 # 1
                                     /\ queue'[i] = queue[i + 1]
      /\ \A i \in 1 .. Len(queue) : i = 1 \/ \E j \in 1 .. Len(queue') : i = j + 1
      /\ \A i, j \in 1 .. Len(queue') : i + 1 = j + 1 => i = j
  <2>1. Len(queue) > 0 /\ c = queue[1] /\ Len(queue') = Len(queue) - 1
        /\ queue' \in Seq(Caller \cup {Close})
        /\ \A i \in 1 .. Len(queue') : queue'[i] = queue[i + 1]
    BY <1>1, <1>2
  <2>2. \A i \in 1 .. Len(queue) : i = 1 \/ (i - 1 \in 1 .. Len(queue') /\ i = (i - 1) + 1)
    BY <1>2, <2>1
  <2> DEFINE n == Len(queue)
  <2>3. n \in Nat /\ n > 0 /\ n <= Capacity /\ Capacity \in Nat /\ Len(queue') = n - 1
    BY <1>2, <2>1, BoundsAreNumbers
  <2>4. c \in Caller \cup {Close}
    BY <1>2, <2>1
  <2> HIDE DEF n
  <2>5. /\ 1 \in 1 .. n /\ n - 1 <= Capacity
        /\ \A i \in 1 .. n - 1 : i + 1 \in 1 .. n /\ i + 1 # 1
        /\ \A i, j \in 1 .. n - 1 : i + 1 = j + 1 => i = j
    BY <2>3
  <2>6. \A i \in 1 .. Len(queue) : i = 1 \/ \E j \in 1 .. Len(queue') : i = j + 1
    BY <2>2, Zenon
  <2>7. QED
    BY <2>1, <2>3, <2>4, <2>5, <2>6, Zenon DEF n
<1> HIDE DEF c
<1>4. c \in Caller
  BY <1>1, <1>3, Zenon
<1>5. /\ task[c] \in SubmissionTask /\ task[c].at = "queued" /\ call[c].at \in {"ack", "gone"}
      /\ Linked(call[c], task[c]) /\ Carries(call[c], task[c])
      /\ panics = 0 => Calm(call[c], task[c])
  <2>1. task[queue[1]].at = "queued" /\ call[queue[1]].at \in {"ack", "gone"}
    BY <1>2, <1>3, <1>4, Zenon DEF Queues
  <2>2. QED
    BY <1>2, <1>3, <1>4, <2>1, Records, Zenon DEF IInv, Sends
<1> DEFINE t == [task[c] EXCEPT !.at = "dormant"]
<1>6. /\ t \in SubmissionTask /\ t.at = "dormant" /\ t.activation = task[c].activation
      /\ t.holds = task[c].holds /\ t.item = task[c].item /\ t.tries = task[c].tries
      /\ t.seen = task[c].seen
  BY <1>5, Zenon DEF SubmissionTask, TaskPhases
<1>7. task' = [task EXCEPT ![c] = t]
  BY <1>1, Zenon
<1> HIDE DEF t
<1>8. /\ task'[c] = t /\ Others(c) /\ task' \in [Caller -> SubmissionTask]
      /\ call'[c] = call[c] /\ call' \in [Caller -> Handler]
      /\ \A d \in Caller \ {c} : task'[d] = task[d] /\ call'[d] = call[d]
  BY <1>1, <1>2, <1>4, <1>6, <1>7, SetTask, Zenon DEF Others
<1>9. Linked(call[c], t)
  BY <1>5, <1>6, Zenon DEF Linked, Begun, Reconciliation
<1>10. Carries(call[c], t)
  BY <1>5, <1>6, Zenon DEF Carries, Holding
<1>11. panics = 0 => Calm(call[c], t)
  BY <1>5, <1>6, Zenon DEF Calm
<1>12. Guards'
  <2>1. Keeps(call[c], t) = Keeps(call[c], task[c])
    BY <1>5, <1>6, Zenon DEF Keeps, Reconciliation
  <2>2. guarded' = guarded \ (Keeps(call[c], task[c]) \ Keeps(call'[c], task'[c]))
    BY <1>1, <1>8, <2>1, Zenon
  <2>3. QED
    BY <1>1, <1>2, <1>4, <1>8, <2>1, <2>2, GuardsOne, ZenonT(30)
<1>13. Queues'
  <2>1. \A i, j \in 1 .. Len(queue) : queue[i] \in Caller /\ queue[i] = queue[j] => i = j
    BY <1>2, Zenon DEF Queues
  <2>2. \A i \in 1 .. Len(queue') : queue'[i] # c
    <3>1. ASSUME NEW i \in 1 .. Len(queue'), queue'[i] = c
          PROVE  FALSE
      <4>1. PICK m \in 1 .. Len(queue) : m # 1 /\ queue[m] = c
        BY <1>3, <3>1, Zenon
      <4>2. 1 \in 1 .. Len(queue) /\ queue[1] = c /\ queue[1] \in Caller
        BY <1>3, <1>4, Zenon
      <4>3. QED
        BY <2>1, <4>1, <4>2, Zenon
    <3>2. QED
      BY <3>1, Zenon
  <2>3. ASSUME NEW i \in 1 .. Len(queue'), NEW j \in 1 .. Len(queue'),
               queue'[i] \in Caller, queue'[i] = queue'[j]
        PROVE  i = j
    <3>1. i + 1 \in 1 .. Len(queue) /\ j + 1 \in 1 .. Len(queue)
          /\ queue[i + 1] = queue'[i] /\ queue[j + 1] = queue'[j]
      BY <1>3, Zenon
    <3>2. i + 1 = j + 1
      BY <2>1, <2>3, <3>1, Zenon
    <3>3. QED
      BY <1>3, <3>2, Zenon
  <2>4. ASSUME NEW i \in 1 .. Len(queue'), queue'[i] \in Caller
        PROVE  task'[queue'[i]].at = "queued" /\ call'[queue'[i]].at \in {"ack", "gone"}
    <3>1. PICK m \in 1 .. Len(queue) : queue[m] = queue'[i]
      BY <1>3, Zenon
    <3>2. PICK d \in Caller \ {c} : d = queue'[i]
      BY <2>2, <2>4, Zenon
    <3>3. task[d].at = "queued" /\ call[d].at \in {"ack", "gone"}
      BY <1>2, <3>1, <3>2, Zenon DEF Queues
    <3>4. QED
      BY <1>8, <3>2, <3>3, Zenon
  <2>5. ASSUME NEW d \in Caller, task'[d].at = "queued", call'[d].at # "send"
        PROVE  \E i \in 1 .. Len(queue') : queue'[i] = d
    <3>1. d # c
      BY <1>6, <1>8, <2>5, Zenon
    <3>2. task[d].at = "queued" /\ call[d].at # "send"
      BY <1>8, <2>5, <3>1, Zenon
    <3>3. PICK i \in 1 .. Len(queue) : queue[i] = d
      BY <1>2, <3>2, Zenon DEF Queues
    <3>4. PICK j \in 1 .. Len(queue') : i = j + 1
      BY <1>3, <3>1, <3>3, Zenon
    <3>5. QED
      BY <1>3, <3>3, <3>4, Zenon
  <2>6. QED
    BY <2>3, <2>4, <2>5, Zenon DEF Queues
<1>14. preparing' \subseteq Source /\ guarded' \subseteq Source
       /\ UNCHANGED <<supervisor, stage, sync, nodeVars, sent, accepted, absent, panics>>
  BY <1>1, <1>2, Zenon
<1>15. /\ task[c].at \in {"none", "queued", "dormant"}
       /\ task'[c].at \in {"none", "queued", "dormant", "gone"} /\ task'[c].seen = task[c].seen
       /\ call'[c].outcome = call[c].outcome /\ call'[c].at = call[c].at
  BY <1>5, <1>6, <1>8, Zenon
<1>16. QED
  BY <1>1, <1>3, <1>4, <1>8, <1>9, <1>10, <1>11, <1>12, <1>13, <1>14, <1>15, HandlerSafe, ZenonT(30)

-----------------------------------------------------------------------------
(* The application, the node and the index.                                *)

\* A step that leaves the sends alone.
LEMMA AppSafe ==
    ASSUME IInv,
           UNCHANGED <<preparing, guarded, call, task, nodeVars, sent, accepted, absent, panics>>,
           queue' \in Seq(Caller \cup {Close}), Len(queue') <= Capacity,
           supervisor' \in {"running", "draining", "ended", "failed"},
           stage' \in {Stages[i] : i \in DOMAIN Stages}, sync' \in {"running", "fatal", "stopped"},
           Queues', Supervision'
    PROVE  IInv'
<1>1. TypeOK /\ Sends /\ Guards /\ Envelopes /\ Absences
  BY Zenon DEF IInv
<1>2. TypeOK'
  <2>1. task' \in [Caller -> SubmissionTask] /\ guarded' \subseteq Source /\ panics' \in 0 .. MaxPanics
    BY <1>1, Zenon DEF TypeOK
  <2>2. QED
    BY <1>1, <2>1, TypesApp, Zenon
<1>3. Sends'
  BY <1>1, Zenon DEF Sends
<1>4. Guards'
  BY <1>1, Zenon DEF Guards
<1>5. Envelopes'
  BY <1>1, EnvelopesDrop, Zenon
<1>6. Absences'
  BY <1>1, AbsencesDrop, Zenon
<1>7. QED
  BY <1>2, <1>3, <1>4, <1>5, <1>6, Zenon DEF IInv

\* The queue and the supervisor as they were.
LEMMA StageSafe ==
    ASSUME IInv,
           UNCHANGED <<preparing, guarded, call, task, queue, nodeVars, sent, accepted, absent, panics>>,
           supervisor' \in {"running", "draining", "ended", "failed"},
           stage' \in {Stages[i] : i \in DOMAIN Stages}, sync' \in {"running", "fatal", "stopped"},
           Supervision'
    PROVE  IInv'
<1>1. queue' \in Seq(Caller \cup {Close}) /\ Len(queue') <= Capacity /\ Queues'
  BY Zenon DEF IInv, TypeOK, Queues
<1>2. QED
  BY <1>1, AppSafe, Zenon

LEMMA StagesAre ==
    {Stages[i] : i \in DOMAIN Stages} =
        {"serving", "stopping", "closing", "closed",
         "handled", "drained", "stopped"}
BY DEF Stages

LEMMA MainSafe ==
    ASSUME IInv, SupervisorEnds \/ StopAdmission \/ DrainHandlers \/ DrainSubmissions \/ StopIndexing
                 \/ IndexerFails
    PROVE  IInv'
<1>1. UNCHANGED <<preparing, guarded, call, task, queue, nodeVars, sent, accepted, absent, panics>>
  BY Zenon DEF SupervisorEnds, StopAdmission, DrainHandlers, DrainSubmissions, StopIndexing,
               IndexerFails, sourceVars
<1>2. Supervision /\ supervisor \in {"running", "draining", "ended", "failed"}
      /\ sync \in {"running", "fatal", "stopped"} /\ stage \in {Stages[i] : i \in DOMAIN Stages}
  BY Zenon DEF IInv, TypeOK
<1>3. (HandlersDone' <=> HandlersDone) /\ \A c \in Caller : Live(c)' <=> Live(c)
  BY <1>1, Zenon DEF HandlersDone, Live
<1>4. supervisor' \in {"running", "draining", "ended", "failed"}
      /\ sync' \in {"running", "fatal", "stopped"}
  BY <1>2, Zenon DEF SupervisorEnds, StopAdmission, DrainHandlers, DrainSubmissions, StopIndexing,
                     IndexerFails
<1>5. stage' \in {Stages[i] : i \in DOMAIN Stages}
  BY <1>2, StagesAre, Zenon DEF SupervisorEnds, StopAdmission, DrainHandlers, DrainSubmissions,
                                StopIndexing, IndexerFails, Advance
<1>6. Supervision'
  <2>1. CASE SupervisorEnds
    BY <1>1, <1>2, <1>3, <2>1, Zenon DEF Supervision, SupervisorEnds
  <2>2. CASE StopAdmission
    BY <1>1, <1>2, <1>3, <2>2, Zenon DEF Supervision, StopAdmission, Advance
  <2>3. CASE DrainHandlers
    BY <1>1, <1>2, <1>3, <2>3, Zenon DEF Supervision, DrainHandlers, Advance
  <2>4. CASE DrainSubmissions
    BY <1>1, <1>2, <1>3, <2>4, Zenon DEF Supervision, DrainSubmissions, Advance
  <2>5. CASE StopIndexing
    BY <1>1, <1>2, <1>3, <2>5, Zenon DEF Supervision, StopIndexing, Advance
  <2>6. CASE IndexerFails
    BY <1>1, <1>2, <1>3, <2>6, Zenon DEF Supervision, IndexerFails
  <2>7. QED
    BY <2>1, <2>2, <2>3, <2>4, <2>5, <2>6, ZenonT(30)
<1>7. QED
  BY <1>1, <1>4, <1>5, <1>6, StageSafe, Zenon

LEMMA CloseRegistrarSafe ==
    ASSUME IInv, CloseRegistrar
    PROVE  IInv'
<1>1. /\ UNCHANGED <<preparing, guarded, call, task, supervisor, sync, nodeVars, sent, accepted, absent, panics>>
      /\ \/ /\ supervisor = "running" /\ Len(queue) < Capacity /\ stage = "stopping"
            /\ stage' = "closing" /\ queue' = Append(queue, Close)
         \/ /\ supervisor # "running" /\ stage \in {"stopping", "closing"}
            /\ stage' = "closed" /\ queue' = queue
  BY Zenon DEF CloseRegistrar, sourceVars, Accepting, Advance
<1>2. Supervision /\ supervisor \in {"running", "draining", "ended", "failed"} /\ Queues
      /\ sync \in {"running", "fatal", "stopped"} /\ stage \in {Stages[i] : i \in DOMAIN Stages}
      /\ queue \in Seq(Caller \cup {Close}) /\ Len(queue) <= Capacity
  BY Zenon DEF IInv, TypeOK
<1>3. (HandlersDone' <=> HandlersDone) /\ \A c \in Caller : Live(c)' <=> Live(c)
  BY <1>1, Zenon DEF HandlersDone, Live
<1>4. stage' \in {Stages[i] : i \in DOMAIN Stages}
      /\ stage' \notin {"handled", "drained", "stopped"}
      /\ stage \notin {"handled", "drained", "stopped"}
      /\ sync # "stopped"
  BY <1>1, <1>2, StagesAre, Zenon DEF Supervision
<1>5. Supervision'
  BY <1>1, <1>2, <1>3, <1>4, Zenon DEF Supervision
<1>6. queue' \in Seq(Caller \cup {Close}) /\ Len(queue') <= Capacity /\ Queues'
  <2>1. CASE queue' = queue
    BY <1>1, <1>2, <2>1, Zenon DEF Queues
  <2>2. CASE Len(queue) < Capacity /\ queue' = Append(queue, Close)
    <3> DEFINE n == Len(queue) + 1
    <3>1. /\ queue' \in Seq(Caller \cup {Close}) /\ Len(queue') <= Capacity /\ queue'[n] = Close
          /\ \A i \in 1 .. Len(queue) : i \in 1 .. Len(queue') /\ queue'[i] = queue[i]
          /\ \A i \in 1 .. Len(queue') : i \in 1 .. Len(queue) \/ i = n
      BY <1>2, <2>2, BoundsAreNumbers
    <3> HIDE DEF n
    <3>2. \A i \in 1 .. Len(queue') : queue'[i] \in Caller => i \in 1 .. Len(queue)
      BY <3>1, CloseIsNoSend, Zenon
    <3>3. ASSUME NEW i \in 1 .. Len(queue'), NEW j \in 1 .. Len(queue'),
                 queue'[i] \in Caller, queue'[i] = queue'[j]
          PROVE  i = j
      <4>1. i \in 1 .. Len(queue) /\ j \in 1 .. Len(queue)
        BY <3>2, <3>3, Zenon
      <4>2. queue[i] \in Caller /\ queue[i] = queue[j]
        BY <3>1, <3>3, <4>1, Zenon
      <4>3. QED
        BY <1>2, <4>1, <4>2, Zenon DEF Queues
    <3>4. \A i \in 1 .. Len(queue') : queue'[i] \in Caller =>
              task'[queue'[i]].at = "queued" /\ call'[queue'[i]].at \in {"ack", "gone"}
      <4>1. ASSUME NEW i \in 1 .. Len(queue'), queue'[i] \in Caller
            PROVE  task[queue'[i]].at = "queued" /\ call[queue'[i]].at \in {"ack", "gone"}
        <5>1. i \in 1 .. Len(queue) /\ queue'[i] = queue[i]
          BY <3>1, <3>2, <4>1, Zenon
        <5>2. task[queue[i]].at = "queued" /\ call[queue[i]].at \in {"ack", "gone"}
          BY <1>2, <4>1, <5>1, Zenon DEF Queues
        <5>3. QED
          BY <5>1, <5>2, Zenon
      <4>2. QED
        BY <1>1, <4>1, Zenon
    <3>5. ASSUME NEW d \in Caller, task'[d].at = "queued", call'[d].at # "send"
          PROVE  \E i \in 1 .. Len(queue') : queue'[i] = d
      <4>1. PICK i \in 1 .. Len(queue) : queue[i] = d
        BY <1>1, <1>2, <3>5, Zenon DEF Queues
      <4>2. QED
        BY <3>1, <4>1, Zenon
    <3>6. QED
      BY <3>1, <3>3, <3>4, <3>5, Zenon DEF Queues
  <2>3. QED
    BY <1>1, <2>1, <2>2, Zenon
<1>7. QED
  BY <1>1, <1>2, <1>4, <1>5, <1>6, AppSafe, Zenon

\* A step of the node or of the index: what it adds to the blocks lies beyond every
\* checkpoint a traversal keeps to, and is within the lifetime of its envelope.
LEMMA NodeSafe ==
    ASSUME IInv,
           UNCHANGED <<preparing, guarded, call, task, appVars, sent, accepted, absent, panics>>,
           height' \in 0 .. MaxHeight, checkpoint' \in 0 .. height',
           height <= height', checkpoint <= checkpoint', landed \subseteq landed',
           \A l \in landed' \ landed :
               /\ l \in [envelope : sent, height : 1 .. height'] /\ l.height > checkpoint
               /\ l.height <= l.envelope.until /\ l.envelope.until > height
    PROVE  IInv'
<1>1. TypeOK /\ Sends /\ Queues /\ Guards /\ Envelopes /\ Absences /\ Supervision
  BY Zenon DEF IInv
<1>2. height \in Nat /\ checkpoint \in Nat /\ height' \in Nat /\ checkpoint' \in Nat
  BY <1>1, BoundsAreNumbers DEF TypeOK
<1>3. UNCHANGED <<queue, supervisor, stage, sync>> /\ settled' = settled
  BY Zenon DEF appVars, settled
<1>4. TypeOK'
  <2>1. task' \in [Caller -> SubmissionTask']
    <3>1. ASSUME NEW t \in SubmissionTask
          PROVE  t \in SubmissionTask'
      BY Zenon DEF SubmissionTask
    <3>2. task \in [Caller -> SubmissionTask]
      BY <1>1, Zenon DEF TypeOK
    <3>3. QED
      BY <3>1, <3>2, Zenon
  <2>2. landed' \subseteq [envelope : sent', height : 1 .. height']
    <3>1. ASSUME NEW l \in landed
          PROVE  l \in [envelope : sent, height : 1 .. height']
      <4>1. l \in [envelope : sent, height : 1 .. height]
        BY <1>1, Zenon DEF TypeOK
      <4>2. 1 .. height \subseteq 1 .. height'
        BY <1>2
      <4>3. QED
        BY <4>1, <4>2, Zenon
    <3>2. QED
      BY <3>1, Zenon
  <2>3. QED
    BY <1>1, <1>3, <2>1, <2>2, Zenon DEF TypeOK
<1>5. Sends'
  BY <1>1, Zenon DEF Sends
<1>6. Queues'
  BY <1>1, <1>3, Zenon DEF Queues
<1>7. Guards'
  BY <1>1, Zenon DEF Guards
<1>8. Envelopes'
  BY <1>1, EnvelopesDrop, Zenon
<1>9. Absences'
  <2>1. \A l \in landed' : l.height \in Nat
    BY <1>2, <1>4 DEF TypeOK
  <2>2. ASSUME NEW d \in Caller
        PROVE  Scanned(Current(d), task[d])'
    <3>1. Scanned(Current(d), task[d]) /\ Current(d)' = Current(d) /\ task'[d] = task[d]
      BY <1>1, SameCurrent, Zenon DEF Absences
    <3>2. task[d].seen \in Nat /\ task[d].seen <= checkpoint
      BY TaskFields, BoundsAreNumbers
    <3>3. task[d].seen <= checkpoint'
      BY <1>2, <3>2
    <3>4. \A l \in landed' \ landed : ~ (l.height <= task[d].seen)
      BY <1>2, <2>1, <3>2
    <3>5. QED
      BY <3>1, <3>3, <3>4, Zenon DEF Scanned
  <2>3. \A l \in landed' : l.height <= l.envelope.until
    BY <1>1, Zenon DEF Absences
  <2>4. ASSUME NEW e \in absent
        PROVE  (\A l \in landed' : l.envelope # e) /\ height' >= e.until
    <3>1. (\A l \in landed : l.envelope # e) /\ height >= e.until
      BY <1>1, Zenon DEF Absences, GivenUpNeverLands, InBlock
    <3>2. e.until \in Nat
      <4>1. e \in Envelope
        BY <1>1, Zenon DEF TypeOK, settled
      <4>2. e.until \in 0 .. MaxHeight
        BY <4>1, Zenon DEF Envelope
      <4>3. QED
        BY <4>2, BoundsAreNumbers
    <3>3. height' >= e.until /\ ~ (e.until > height)
      BY <1>2, <3>1, <3>2
    <3>4. QED
      BY <3>1, <3>3, Zenon
  <2>5. GivenUpNeverLands'
    BY <2>4, Zenon DEF GivenUpNeverLands, InBlock
  <2>6. QED
    BY <2>2, <2>3, <2>5, Zenon DEF Absences
<1>10. Supervision'
  <2>1. (HandlersDone' <=> HandlersDone) /\ \A c \in Caller : Live(c)' <=> Live(c)
    BY Zenon DEF HandlersDone, Live
  <2>2. QED
    BY <1>1, <1>3, <2>1, Zenon DEF Supervision
<1>11. QED
  BY <1>4, <1>5, <1>6, <1>7, <1>8, <1>9, <1>10, ZenonT(30) DEF IInv

LEMMA ProduceSafe ==
    ASSUME IInv, Produce
    PROVE  IInv'
<1>1. /\ height < MaxHeight /\ height' = height + 1 /\ checkpoint' = checkpoint
      /\ UNCHANGED <<preparing, guarded, call, task, appVars, sent, accepted, absent, panics>>
  BY Zenon DEF Produce, sourceVars
<1>2. PICK S \in SUBSET {e \in sent : ~ InBlock(e) /\ e.until > height} :
         landed' = landed \cup {[envelope |-> e, height |-> height + 1] : e \in S}
  BY Zenon DEF Produce
<1>3. /\ height \in Nat /\ checkpoint \in Nat /\ checkpoint <= height /\ TypeOK
      /\ \A e \in sent : e.until \in Nat
  <2>1. TypeOK
    BY Zenon DEF IInv
  <2>2. \A e \in sent : e.until \in 0 .. MaxHeight
    BY <2>1, Zenon DEF TypeOK, Envelope
  <2>3. QED
    BY <2>1, <2>2, BoundsAreNumbers DEF TypeOK
<1>4. /\ height' \in 0 .. MaxHeight /\ checkpoint' \in 0 .. height' /\ height <= height'
      /\ checkpoint <= checkpoint' /\ height' > checkpoint /\ height' \in 1 .. height'
  BY <1>1, <1>3, BoundsAreNumbers
<1>5. ASSUME NEW l \in landed' \ landed
      PROVE  /\ l \in [envelope : sent, height : 1 .. height'] /\ l.height > checkpoint
             /\ l.height <= l.envelope.until /\ l.envelope.until > height
  <2>1. PICK e \in S : l = [envelope |-> e, height |-> height']
    BY <1>1, <1>2, <1>5, Zenon
  <2>2. e \in sent /\ e.until > height /\ l.envelope = e /\ l.height = height'
    BY <1>2, <2>1, Zenon
  <2>3. l \in [envelope : sent, height : 1 .. height']
    BY <1>4, <2>1, <2>2, Zenon
  <2>4. height' <= e.until
    BY <1>1, <1>3, <2>2
  <2>5. QED
    BY <1>4, <2>2, <2>3, <2>4, Zenon
<1>6. landed \subseteq landed'
  BY <1>2, Zenon
<1>7. QED
  BY <1>1, <1>4, <1>5, <1>6, NodeSafe, Zenon

LEMMA IndexBlockSafe ==
    ASSUME IInv, IndexBlock
    PROVE  IInv'
<1>1. /\ checkpoint < height /\ checkpoint' = checkpoint + 1 /\ height' = height /\ landed' = landed
      /\ UNCHANGED <<preparing, guarded, call, task, appVars, sent, accepted, absent, panics>>
      /\ TypeOK
  BY Zenon DEF IndexBlock, sourceVars, IInv
<1>2. /\ height' \in 0 .. MaxHeight /\ checkpoint' \in 0 .. height' /\ height <= height'
      /\ checkpoint <= checkpoint'
  BY <1>1, BoundsAreNumbers DEF TypeOK
<1>3. QED
  BY <1>1, <1>2, NodeSafe, Zenon

-----------------------------------------------------------------------------

LEMMA InitSafe == Init => IInv
<1> SUFFICES ASSUME Init PROVE IInv
  OBVIOUS
<1>1. /\ preparing = {} /\ guarded = {} /\ queue = <<>> /\ supervisor = "running"
      /\ stage = "serving" /\ sync = "running" /\ height = 0 /\ checkpoint = 0
      /\ landed = {} /\ sent = {} /\ accepted = {} /\ absent = {} /\ panics = 0
      /\ \A c \in Caller : call[c] = Idle /\ task[c] = NoTask
      /\ call \in [Caller -> {Idle}] /\ task \in [Caller -> {NoTask}]
  BY Zenon DEF Init
<1>2. /\ Idle \in Handler /\ Idle.at = "new" /\ Idle.outcome.kind = "none" /\ Idle.job = <<>>
  <2>1. Told("none", 0) \in Outcome /\ Told("none", 0).kind = "none"
    BY ToldIs
  <2>2. <<>> \in Seq(Source) /\ 0 \in 0 .. MaxHeight
    BY BoundsAreNumbers
  <2>3. QED
    BY <2>1, <2>2, Zenon DEF Idle, Handler, Phases
<1>3. TypeOK
  <2>1. stage \in {Stages[i] : i \in DOMAIN Stages}
    BY <1>1, StagesAre, Zenon
  <2>2. /\ queue \in Seq(Caller \cup {Close}) /\ Len(queue) <= Capacity
        /\ checkpoint \in 0 .. height /\ height \in 0 .. MaxHeight /\ panics \in 0 .. MaxPanics
    BY <1>1, BoundsAreNumbers
  <2>3. call \in [Caller -> Handler] /\ task \in [Caller -> SubmissionTask]
    BY <1>1, <1>2, TaskEnds, Zenon
  <2>4. settled = {}
    BY <1>1, Zenon DEF settled
  <2>5. QED
    BY <1>1, <2>1, <2>2, <2>3, <2>4, ZenonT(30) DEF TypeOK
<1>4. Sends
  <2>1. Linked(Idle, NoTask)
    BY <1>2, TaskEnds, Zenon DEF Linked, Begun, Reconciliation, Failure
  <2>2. Carries(Idle, NoTask)
    BY TaskEnds, Zenon DEF Carries, Holding, Begun, Reconciliation
  <2>3. Calm(Idle, NoTask)
    BY <1>2, TaskEnds, Zenon DEF Calm, Failure
  <2>4. QED
    BY <1>1, <2>1, <2>2, <2>3, Zenon DEF Sends
<1>5. Queues
  <2>1. 1 .. Len(queue) = {}
    BY <1>1
  <2>2. \A c \in Caller : task[c].at = "none"
    BY <1>1, TaskEnds, Zenon
  <2>3. QED
    BY <2>1, <2>2, Zenon DEF Queues
<1>6. Guards
  <2>1. Keeps(Idle, NoTask) = {} /\ Leases(Idle) = {}
    BY <1>2, EndedKeeps, Zenon DEF Leases
  <2>2. QED
    BY <1>1, <2>1, Zenon DEF Guards, Has
<1>7. Envelopes
  <2>1. \A c \in Caller : task[c].at \notin OnTheWire
    BY <1>1, TaskEnds, Zenon DEF OnTheWire, Reconciliation
  <2>2. QED
    BY <1>1, <2>1, Zenon DEF Envelopes, DefiniteMeansUnsent
<1>8. Absences
  <2>1. 0 <= checkpoint
    BY <1>1
  <2>2. QED
    BY <1>1, <2>1, TaskEnds, Zenon DEF Absences, Scanned, GivenUpNeverLands
<1>9. Supervision
  <2>1. ~ (panics > 0)
    BY <1>1
  <2>2. QED
    BY <1>1, <2>1, Zenon DEF Supervision
<1>10. QED
  BY <1>3, <1>4, <1>5, <1>6, <1>7, <1>8, <1>9, ZenonT(30) DEF IInv

LEMMA StutterSafe == IInv /\ UNCHANGED vars => IInv'
<1> SUFFICES ASSUME IInv, UNCHANGED vars PROVE IInv'
  OBVIOUS
<1>1. /\ UNCHANGED <<preparing, guarded, call, task, queue, nodeVars, sent, accepted, absent, panics>>
      /\ UNCHANGED <<supervisor, stage, sync>>
  BY Zenon DEF vars, nodeVars
<1>2. /\ Supervision /\ supervisor \in {"running", "draining", "ended", "failed"}
      /\ sync \in {"running", "fatal", "stopped"} /\ stage \in {Stages[i] : i \in DOMAIN Stages}
  BY Zenon DEF IInv, TypeOK
<1>3. Supervision'
  <2>1. (HandlersDone' <=> HandlersDone) /\ \A c \in Caller : Live(c)' <=> Live(c)
    BY <1>1, Zenon DEF HandlersDone, Live
  <2>2. QED
    BY <1>1, <1>2, <2>1, Zenon DEF Supervision
<1>4. QED
  BY <1>1, <1>2, <1>3, StageSafe, Zenon

\* The inductive step, one action at a time.
LEMMA NextSafe == IInv /\ [Next]_vars => IInv'
<1> SUFFICES ASSUME IInv, [Next]_vars PROVE IInv'
  OBVIOUS
<1>1. ASSUME NEW c \in Caller, NEW job \in Jobs[c], Lease(c, job)
      PROVE  IInv'
  BY <1>1, LeaseSafe, Zenon
<1>2. ASSUME NEW c \in Caller, HandlerStep(c)
      PROVE  IInv'
  <2>1. CASE PreparationFails(c) \/ Prepared(c)
    BY <2>1, PreparationSafe, Zenon
  <2>2. CASE Submit(c)
    BY <2>2, SubmitSafe, Zenon
  <2>3. CASE Enqueue(c)
    BY <2>3, EnqueueSafe, ZenonT(30)
  <2>4. CASE RegistrationFails(c)
    BY <2>4, RegistrationFailsSafe, Zenon
  <2>5. CASE Activate(c)
    BY <2>5, ActivateSafe, Zenon
  <2>6. CASE Deliver(c)
    BY <2>6, DeliverSafe, Zenon
  <2>7. QED
    BY <1>2, <2>1, <2>2, <2>3, <2>4, <2>5, <2>6, Zenon DEF HandlerStep
<1>3. ASSUME NEW c \in Caller, TaskStep(c)
      PROVE  IInv'
  BY <1>3, BeginSafe, CheckLifetimeSafe, DispatchSafe, AnswerSafe, ObserveSafe, RetrySafe,
     InspectStatusSafe, MarkCheckpointSafe, ScanPageSafe, RecheckSafe, VerdictSafe, ResumeSafe,
     Zenon DEF TaskStep
<1>4. ASSUME NEW c \in Caller, Disconnect(c)
      PROVE  IInv'
  BY <1>4, DisconnectSafe, Zenon
<1>5. ASSUME NEW c \in Caller, Panic(c)
      PROVE  IInv'
  BY <1>5, PanicSafe, Zenon
<1>6. CASE SupervisorStep
  BY <1>6, TakeInsertSafe, TakeCloseSafe, SupervisorFailsSafe, MainSafe, Zenon DEF SupervisorStep
<1>7. CASE StopAdmission \/ MainStep
  BY <1>7, CloseRegistrarSafe, MainSafe, Zenon DEF MainStep
<1>8. CASE Produce \/ IndexBlock \/ IndexerFails
  BY <1>8, ProduceSafe, IndexBlockSafe, MainSafe, Zenon
<1>9. CASE Rest \/ UNCHANGED vars
  BY <1>9, StutterSafe, Zenon DEF Rest
<1>10. QED
  BY <1>1, <1>2, <1>3, <1>4, <1>5, <1>6, <1>7, <1>8, <1>9, ZenonT(30) DEF Next

-----------------------------------------------------------------------------
(* What follows from the inductive invariant.                              *)

LEMMA OwnsIs ==
    ASSUME IInv, NEW c \in Caller
    PROVE  /\ Owns(c) = Has(call[c], task[c]) /\ Has(call[c], task[c]) \subseteq Source
           /\ Leased(c) => Leases(call[c]) = Sources(c) /\ Keeps(call[c], task[c]) = {}
           /\ ~ Leased(c) => Leases(call[c]) = {}
<1>1. /\ TypeOK /\ call[c] \in Handler /\ Linked(call[c], task[c]) /\ Carries(call[c], task[c])
      /\ call[c].job \in Seq(Source)
  BY Records, Zenon DEF IInv, Sends, Handler
<1>2. Owns(c) = Has(call[c], task[c])
  <2>1. (IF Leased(c) THEN Sources(c) ELSE {}) = Leases(call[c])
    BY Zenon DEF Leased, Leases, Sources, Batch
  <2>2. (IF Reconciling(c) THEN {Current(c).source} ELSE {}) =
            (IF task[c].at \in Reconciliation THEN {call[c].job[task[c].item]} ELSE {})
    BY CurrentFields, Zenon DEF Reconciling, Reconciliation
  <2>3. QED
    BY <2>1, <2>2 DEF Owns, Has, Keeps
<1>3. Batch(call[c]) \subseteq Source
  BY <1>1 DEF Batch
<1>4. task[c].at \in Reconciliation => call[c].job[task[c].item] \in Source
  <2>1. task[c].at \in Reconciliation => task[c].item \in DOMAIN call[c].job
    BY <1>1, Zenon DEF Carries, Begun
  <2>2. QED
    BY <1>1, <2>1
<1>5. Has(call[c], task[c]) \subseteq Source
  BY <1>3, <1>4, TaskFields, Zenon DEF Has, Leases, Keeps
<1>6. Leased(c) => Leases(call[c]) = Sources(c) /\ Keeps(call[c], task[c]) = {}
  BY <1>1, EndedKeeps, Zenon DEF Leased, Leases, Sources, Batch, Linked
<1>7. ~ Leased(c) => Leases(call[c]) = {}
  BY Zenon DEF Leased, Leases
<1>8. QED
  BY <1>2, <1>5, <1>6, <1>7, Zenon

LEMMA OwnersApart == IInv => OneOwner
<1> SUFFICES ASSUME IInv PROVE OneOwner
  OBVIOUS
<1>1. Guards /\ preparing \subseteq Source /\ guarded \subseteq Source
  BY Zenon DEF IInv, TypeOK
<1>2. ASSUME NEW c \in Caller, NEW d \in Caller, c # d
      PROVE  Owns(c) \cap Owns(d) = {}
  <2>1. ASSUME NEW x, x \in Owns(c), x \in Owns(d)
        PROVE  FALSE
    <3>1. x \in Has(call[c], task[c]) /\ x \in Has(call[d], task[d]) /\ x \in Source
      BY <2>1, OwnsIs, Zenon
    <3>2. QED
      BY <1>1, <1>2, <3>1, Zenon DEF Guards
  <2>2. QED
    BY <2>1, Zenon
<1>3. preparing = UNION {Sources(c) : c \in {d \in Caller : Leased(d)}}
  <2>1. ASSUME NEW x \in preparing
        PROVE  x \in UNION {Sources(c) : c \in {d \in Caller : Leased(d)}}
    <3>1. PICK c \in Caller : x \in Leases(call[c])
      BY <1>1, Zenon DEF Guards
    <3>2. Leased(c) /\ x \in Sources(c)
      BY <3>1, OwnsIs, Zenon
    <3>3. QED
      BY <3>2, Zenon
  <2>2. ASSUME NEW x, x \in UNION {Sources(c) : c \in {d \in Caller : Leased(d)}}
        PROVE  x \in preparing
    <3>1. PICK c \in Caller : Leased(c) /\ x \in Sources(c)
      BY <2>2, Zenon
    <3>2. x \in Leases(call[c]) /\ x \in Source
      BY <3>1, OwnsIs, Zenon DEF Has
    <3>3. QED
      BY <1>1, <3>2, Zenon DEF Guards
  <2>3. QED
    BY <2>1, <2>2, Zenon
<1>4. ASSUME panics = 0
      PROVE  guarded = (UNION {Owns(c) : c \in Caller}) \ preparing
  <2> DEFINE All == UNION {Owns(c) : c \in Caller}
  <2>0. \A x : x \in All <=> \E d \in Caller : x \in Owns(d)
    BY Zenon
  <2> HIDE DEF All
  <2>1. ASSUME NEW x \in guarded
        PROVE  x \in All /\ x \notin preparing
    <3>1. PICK c \in Caller : x \in Keeps(call[c], task[c])
      BY <1>1, <1>4, Zenon DEF Guards
    <3>2. x \in Has(call[c], task[c]) /\ x \in Source
      BY <1>1, <3>1, Zenon DEF Has
    <3>3. x \in Owns(c)
      BY <3>2, OwnsIs, Zenon
    <3>4. ASSUME x \in preparing
          PROVE  FALSE
      <4>1. PICK d \in Caller : x \in Leases(call[d])
        BY <1>1, <3>4, Zenon DEF Guards
      <4>2. x \in Has(call[d], task[d]) /\ Leased(d)
        BY <4>1, OwnsIs, Zenon DEF Has
      <4>3. c = d
        BY <1>1, <3>2, <4>2, Zenon DEF Guards
      <4>4. Keeps(call[d], task[d]) = {}
        BY <4>2, OwnsIs, Zenon
      <4>5. QED
        BY <3>1, <4>3, <4>4, Zenon
    <3>5. QED
      BY <2>0, <3>3, <3>4, Zenon
  <2>2. ASSUME NEW x, x \in All, x \notin preparing
        PROVE  x \in guarded
    <3>1. PICK c \in Caller : x \in Owns(c)
      BY <2>0, <2>2, Zenon
    <3>2. x \in Has(call[c], task[c]) /\ x \in Source
      BY <3>1, OwnsIs, Zenon
    <3>3. x \notin Leases(call[c])
      BY <1>1, <2>2, <3>2, Zenon DEF Guards
    <3>4. x \in Keeps(call[c], task[c])
      BY <3>2, <3>3, Zenon DEF Has
    <3>5. QED
      BY <1>1, <3>4, Zenon DEF Guards
  <2>3. guarded = All \ preparing
    BY <2>1, <2>2, Zenon
  <2>4. QED
    BY <2>3, Zenon DEF All
<1>5. QED
  BY <1>2, <1>3, <1>4, Zenon DEF OneOwner

\* An envelope whose outcome is unknown is the one its task is at, and the task keeps
\* its source.
LEMMA OpenIsCurrent ==
    ASSUME IInv, panics = 0, NEW e \in sent, e \notin settled
    PROVE  /\ e.of \in Caller /\ e = Current(e.of)
           /\ e.source \in Keeps(call[e.of], task[e.of]) /\ e.source \in Source
<1>1. TypeOK /\ Envelopes /\ Sends /\ e \in Envelope
  BY Zenon DEF IInv, TypeOK
<1>2. e.of \in Caller /\ e.source \in Source /\ Sent(e, call[e.of], task[e.of])
  BY <1>1, Zenon DEF Envelope, Envelopes
<1>3. PICK c \in Caller : c = e.of
  BY <1>2, Zenon
<1>4. task[c].at \in TaskPhases /\ Carries(call[c], task[c]) /\ Calm(call[c], task[c])
  BY <1>1, Records, Zenon DEF Sends, SubmissionTask
<1>5. task[c].at \notin {"none", "queued", "dormant", "gone", "finished", "panicked"}
  BY <1>1, <1>2, <1>3, <1>4, Zenon DEF Sent, Envelopes, Calm
<1>6. task[c].at \in Begun
  BY <1>4, <1>5, Zenon DEF TaskPhases, Begun, Reconciliation
<1>7. e = Current(c) /\ e.item = task[c].item
  BY <1>3, <1>6, SentOf, Zenon DEF settled
<1>8. e.source = call[c].job[task[c].item] /\ task[c].item \in DOMAIN call[c].job
  BY <1>4, <1>6, <1>7, CurrentFields, Zenon DEF Carries
<1>9. e.source \in Keeps(call[c], task[c])
  <2>1. CASE task[c].at \in Holding
    BY <1>4, <1>8, <2>1, Zenon DEF Carries, Keeps, Batch
  <2>2. CASE task[c].at \notin Holding
    BY <1>6, <1>8, <2>2, BegunIs, Zenon DEF Keeps
  <2>3. QED
    BY <2>1, <2>2, Zenon
<1>10. QED
  BY <1>2, <1>3, <1>7, <1>9, ZenonT(30)

LEMMA EnvelopesApart == IInv => OneOpenEnvelope
<1> SUFFICES ASSUME IInv, panics = 0, NEW e \in sent \ settled
             PROVE  /\ e.source \in guarded
                    /\ \A f \in sent \ settled : e.source = f.source => e = f
  BY Zenon DEF OneOpenEnvelope
<1>1. Guards
  BY Zenon DEF IInv
<1>2. e.source \in guarded
  BY <1>1, OpenIsCurrent, Zenon DEF Guards
<1>3. ASSUME NEW f \in sent \ settled, e.source = f.source
      PROVE  e = f
  <2>1. /\ e.of \in Caller /\ e = Current(e.of) /\ f.of \in Caller /\ f = Current(f.of)
        /\ e.source \in Keeps(call[e.of], task[e.of]) /\ f.source \in Keeps(call[f.of], task[f.of])
        /\ e.source \in Source
    BY OpenIsCurrent, Zenon
  <2>2. e.source \in Has(call[e.of], task[e.of]) /\ e.source \in Has(call[f.of], task[f.of])
    BY <1>3, <2>1, Zenon DEF Has
  <2>3. e.of = f.of
    BY <1>1, <2>1, <2>2, Zenon DEF Guards
  <2>4. QED
    BY <2>1, <2>3, Zenon
<1>4. QED
  BY <1>2, <1>3, Zenon

LEMMA StopIsLast == IInv => IndexOutlivesGuards
<1> SUFFICES ASSUME IInv, sync = "stopped"
             PROVE  /\ HandlersDone
                    /\ supervisor # "failed" => guarded = {} /\ preparing = {} /\ sent = settled
  BY Zenon DEF IndexOutlivesGuards
<1>1. TypeOK /\ Sends /\ Queues /\ Guards /\ Envelopes /\ Supervision
  BY Zenon DEF IInv
<1>2. HandlersDone /\ supervisor \in {"ended", "failed"}
  BY <1>1, Zenon DEF Supervision
<1>3. ASSUME supervisor # "failed"
      PROVE  guarded = {} /\ preparing = {} /\ sent = settled
  <2>1. /\ \A c \in Caller : ~ Live(c) /\ task[c].at # "panicked"
        /\ queue = <<>> /\ ~ (panics > 0)
    BY <1>1, <1>2, <1>3, ZenonT(30) DEF Supervision
  <2>2. panics = 0 /\ 1 .. Len(queue) = {}
    BY <1>1, <2>1, BoundsAreNumbers DEF TypeOK
  <2>3. ASSUME NEW c \in Caller
        PROVE  /\ task[c].at \in {"none", "finished", "gone"}
               /\ Keeps(call[c], task[c]) = {} /\ Leases(call[c]) = {}
    <3>1. Linked(call[c], task[c]) /\ Carries(call[c], task[c]) /\ call[c].at \in {"new", "done", "gone"}
      BY <1>1, <1>2, Zenon DEF Sends, HandlersDone
    <3>2. task[c].at # "queued"
      BY <1>1, <2>2, <3>1, Zenon DEF Queues, Linked
    <3>3. task[c].at \in {"none", "finished", "gone"}
      BY <2>1, <3>2, Zenon DEF Live
    <3>4. task[c].at \notin Holding /\ task[c].at \notin Reconciliation
      BY <3>3, Zenon DEF Holding, Reconciliation
    <3>5. Keeps(call[c], task[c]) = {}
      BY <3>1, <3>4, Zenon DEF Carries, Keeps
    <3>6. QED
      BY <3>1, <3>3, <3>5, Zenon DEF Leases
  <2>4. guarded = {}
    BY <1>1, <2>2, <2>3, Zenon DEF Guards
  <2>5. preparing = {}
    BY <1>1, <2>3, Zenon DEF Guards, TypeOK
  <2>6. ASSUME NEW e \in sent
        PROVE  e \in settled
    <3>1. e.of \in Caller /\ Sent(e, call[e.of], task[e.of]) /\ task[e.of].at # "gone"
      BY <1>1, <2>2, Zenon DEF Envelopes, TypeOK, Envelope
    <3>2. task[e.of].at = "finished"
      BY <2>3, <3>1, Zenon DEF Sent
    <3>3. QED
      BY <1>1, <3>2, Zenon DEF Envelopes
  <2>7. settled \subseteq sent
    BY <1>1, Zenon DEF TypeOK
  <2>8. QED
    BY <2>4, <2>5, <2>6, <2>7, Zenon
<1>4. QED
  BY <1>2, <1>3, Zenon

\* A step puts an envelope on the wire only by dispatching it.
LEMMA OnlyDispatchSends ==
    ASSUME Next, sent' # sent
    PROVE  \E c \in Caller : Dispatch(c)
<1>1. ASSUME NEW c \in Caller, NEW job \in Jobs[c], Lease(c, job)
      PROVE  sent' = sent
  BY <1>1, Zenon DEF Lease
<1>2. ASSUME NEW c \in Caller, HandlerStep(c)
      PROVE  sent' = sent
  BY <1>2, Zenon DEF HandlerStep, PreparationFails, Prepared, Submit, Enqueue, RegistrationFails,
                     Activate, Deliver
<1>3. ASSUME NEW c \in Caller, TaskStep(c)
      PROVE  sent' = sent \/ Dispatch(c)
  BY <1>3, Zenon DEF TaskStep, Begin, CheckLifetime, Answer, Observe, Retry, InspectStatus,
                     MarkCheckpoint, ScanPage, Recheck, Verdict, Resume
<1>4. ASSUME NEW c \in Caller, Disconnect(c) \/ Panic(c)
      PROVE  sent' = sent
  BY <1>4, Zenon DEF Disconnect, Panic
<1>5. CASE SupervisorStep \/ StopAdmission \/ MainStep
  BY <1>5, Zenon DEF SupervisorStep, TakeInsert, TakeClose, SupervisorFails, SupervisorEnds,
                     StopAdmission, MainStep, CloseRegistrar, DrainHandlers, DrainSubmissions,
                     StopIndexing
<1>6. CASE Produce \/ IndexBlock \/ IndexerFails \/ Rest
  BY <1>6, Zenon DEF Produce, IndexBlock, IndexerFails, Rest, vars
<1>7. QED
  BY <1>1, <1>2, <1>3, <1>4, <1>5, <1>6, ZenonT(30) DEF Next

LEMMA DispatchSupervised == IInv /\ [Next]_vars => SupervisedStep
<1> SUFFICES ASSUME IInv, [Next]_vars, sent' # sent
             PROVE  supervisor \in {"running", "draining"} /\ ~ Reached("drained")
  BY Zenon DEF SupervisedStep
<1>1. PICK c \in Caller : Dispatch(c)
  <2>1. Next
    BY Zenon DEF vars
  <2>2. QED
    BY <2>1, OnlyDispatchSends, Zenon
<1>2. Live(c)
  BY <1>1, Zenon DEF Dispatch, Running, Live
<1>3. TypeOK /\ Supervision
  BY Zenon DEF IInv
<1>4. supervisor \in {"running", "draining"}
  BY <1>2, <1>3, Zenon DEF Supervision, TypeOK
<1>5. stage \notin {"drained", "stopped"}
  BY <1>3, <1>4, Zenon DEF Supervision
<1>6. Reached("drained") => stage \in {"drained", "stopped"}
  BY DEF Reached, Stages
<1>7. QED
  BY <1>4, <1>5, <1>6, Zenon

-----------------------------------------------------------------------------

\* The inductive invariant holds in every state: sources, tasks, commands, envelopes,
\* traversals and the shutdown fit together at every step of every send.
THEOREM SendsInvariant == Spec => []IInv
<1>1. Init => IInv
  BY InitSafe
<1>2. IInv /\ [Next]_vars => IInv'
  BY NextSafe
<1>3. QED
  BY <1>1, <1>2, PTL DEF Spec

\* The state of the coordinator, the tasks, the supervisor, the node and the index has
\* its types: attempts stay within three, and a block holds only what was sent.
THEOREM SendsTyped == Spec => []TypeOK
<1>1. IInv => TypeOK
  BY Zenon DEF IInv
<1>2. QED
  BY <1>1, SendsInvariant, PTL

\* Sends are safe: a source is leased or guarded by one send at a time and nothing is
\* leaked; of the envelopes of a source at most one is open; an envelope given up never
\* lands; a definite failure names the first envelope that was not sent; and indexing
\* stops only when every guard is resolved.
THEOREM SendsStaySafe == Spec => []SendsAreSafe
<1>1. IInv => SendsAreSafe
  BY OwnersApart, EnvelopesApart, StopIsLast, ZenonT(30) DEF SendsAreSafe, IInv, Absences, Envelopes
<1>2. QED
  BY <1>1, SendsInvariant, PTL

\* Whatever is dispatched is supervised, and nothing is after the submissions drained.
THEOREM DispatchIsSupervised == Spec => SupervisedDispatch
<1>1. IInv /\ [Next]_vars => [SupervisedStep]_vars
  BY DispatchSupervised
<1>2. QED
  BY <1>1, SendsInvariant, PTL DEF Spec, SupervisedDispatch
=============================================================================
