----------------------------- MODULE SpanContext -----------------------------
(***************************************************************************)
(* The span context of the throttle filters in src/infrastructure/layer.rs *)
(* and the signature they compute for an event.                            *)
(*                                                                         *)
(* Several filters, each with its own configuration, are attached to one   *)
(* subscriber, which calls their hooks one after the other, in the order   *)
(* of the stack.  They share one cache of attributes per span, kept in the *)
(* extensions of the span.  Threads create spans, record values on them    *)
(* and log events at the same time.  A hook for a span is one step: it     *)
(* works under the write lock of the extensions, and no other thread knows *)
(* a span whose on_new_span hooks have not returned.  The walk of an event *)
(* through its scope locks one span at a time, so every span is a step.    *)
(*                                                                         *)
(* Field values are opaque.  A signature is the tuple of what is hashed.   *)
(***************************************************************************)
EXTENDS Naturals, Sequences, FiniteSets, Functions

CONSTANTS
    Threads,
    Stack,          \* the throttle filters, in the order their hooks are called
    ContextFields,  \* filter -> span_context_fields
    Excluded,       \* filter -> excluded_fields
    Exempt,         \* filter -> exempt_targets
    Spans,          \* span ids; an id is used again after its span is closed
    Declared,       \* span -> the fields its metadata declares
    Events,         \* the events logged: [target, fields]
    SummaryTarget,  \* the target of the default summary formatter
    Values,         \* values of fields
    None,           \* no span, no cache, no signature
    MaxSpans,       \* bound: spans created
    MaxRecords,     \* bound: calls of Span::record
    MaxEvents       \* bound: events logged

ASSUME StackAssumption ==
    /\ Stack \in Seq(DOMAIN ContextFields \cap DOMAIN Excluded \cap DOMAIN Exempt)
    /\ Stack # <<>>
ASSUME FieldsAssumption == \A f \in DOMAIN ContextFields : IsFiniteSet(ContextFields[f])
ASSUME DeclaredAssumption == DOMAIN Declared = Spans
ASSUME SpanBounds == MaxSpans \in Nat /\ MaxRecords \in Nat /\ MaxEvents \in Nat

VARIABLES
    live,       \* spans that are open
    parent,     \* span -> its parent, or None
    cache,      \* span -> CachedSpanFields in its extensions, or None
    op,         \* thread -> the call under way, with the values it passes
    at,         \* thread -> the filter of the stack whose hook is called
    rest,       \* thread -> the spans that its event has yet to visit
    context,    \* thread -> context_fields collected so far
    signature,  \* thread -> the signature last handed to the limiter, or None
    exempted,   \* filter -> events counted as allowed without a check
    recorded,   \* history: span -> its attributes, by the calls that have returned
    mixed,      \* history: spans whose attributes two calls have set at a time
    expected,   \* history: thread -> the attributes its event found in its scope
    disturbed,  \* history: threads whose event met a Span::record under way
    created, records, logged  \* history: what has happened so far

spans == <<live, parent, cache>>
event == <<rest, context, signature, expected, exempted>>
history == <<recorded, mixed>>
bounds == <<created, records, logged>>
vars == <<spans, op, at, event, history, disturbed, bounds>>

-----------------------------------------------------------------------------
NoFields == <<>>

\* BTreeMap::extend: the fields f, and of g those that f does not have.
Over(f, g) == [n \in DOMAIN f \cup DOMAIN g |-> IF n \in DOMAIN f THEN f[n] ELSE g[n]]

Idle == [kind |-> "idle", span |-> None, values |-> NoFields]

\* The attributes that a call can pass for span s: some of its declared fields.
Attributes(s) == UNION {[fields -> Values] : fields \in SUBSET Declared[s]}

ASSUME SpanNoneAssumption == \A s \in Spans : None \notin Spans \cup Attributes(s)

\* What a hook finds in the extensions of s.
Stored(s) == IF cache[s] = None THEN NoFields ELSE cache[s]

\* The spans from s outwards.
Scope[s \in Spans \cup {None}] == IF s = None THEN <<>> ELSE <<s>> \o Scope[parent[s]]

\* The attributes of the spans of the scope of s, from s outwards.
Held(s) == [i \in DOMAIN Scope[s] |-> recorded[Scope[s][i]]]

\* i is the first of the maps to have a value of n.
FirstWith(i, n, maps) == n \in DOMAIN maps[i] /\ \A j \in 1 .. i - 1 : n \notin DOMAIN maps[j]

\* Reference: for every field that one of the maps has a value of, the value of
\* the first that has one.
Innermost(maps) ==
    [n \in UNION {DOMAIN maps[i] : i \in DOMAIN maps} |->
        maps[CHOOSE i \in DOMAIN maps : FirstWith(i, n, maps)][n]]

Filter(t) == Stack[at[t]]
LastFilter(t) == at[t] = Len(Stack)
Recording == {t \in Threads : op[t].kind = "record"}

TypeOK ==
    /\ live \subseteq Spans
    /\ parent \in [Spans -> Spans \cup {None}]
    /\ \A s \in Spans : cache[s] = None \/ cache[s] \in Attributes(s) \ {NoFields}
    /\ \A s \in Spans : cache[s] # None => s \in live \/ \E t \in Threads : op[t].span = s
    /\ \A t \in Threads :
          /\ op[t].kind \in {"idle", "new", "record", "event"}
          /\ at[t] \in 1 .. Len(Stack)
          /\ \A i \in 1 .. Len(rest[t]) : rest[t][i] \in Spans
          /\ Range(context[t]) \subseteq Values

Init ==
    /\ live = {}
    /\ parent = [s \in Spans |-> None]
    /\ cache = [s \in Spans |-> None]
    /\ op = [t \in Threads |-> Idle]
    /\ at = [t \in Threads |-> 1]
    /\ rest = [t \in Threads |-> <<>>]
    /\ context = [t \in Threads |-> NoFields]
    /\ signature = [t \in Threads |-> None]
    /\ exempted = [f \in DOMAIN Exempt |-> 0]
    /\ recorded = [s \in Spans |-> NoFields]
    /\ mixed = {}
    /\ expected = [t \in Threads |-> NoFields]
    /\ disturbed = {}
    /\ created = 0
    /\ records = 0
    /\ logged = 0

\* The call of t goes on with the hook of the next filter, or returns.
NextFilter(t) ==
    IF LastFilter(t)
        THEN /\ op' = [op EXCEPT ![t] = Idle]
             /\ at' = [at EXCEPT ![t] = 1]
        ELSE /\ at' = [at EXCEPT ![t] = @ + 1]
             /\ UNCHANGED op
-----------------------------------------------------------------------------
(* Span creation. *)

\* Some of the fields that s declares are context fields of filter f.
DeclaresContextField(f, s) == ContextFields[f] \cap Declared[s] # {}

\* A thread creates a span; its fields without a value are Empty.
NewSpan(t, s, p, values) ==
    /\ op[t] = Idle
    /\ created < MaxSpans
    /\ created' = created + 1
    /\ s \notin live /\ (\A u \in Threads : op[u].span # s)
    /\ op' = [op EXCEPT ![t] = [kind |-> "new", span |-> s, values |-> values]]
    /\ parent' = [parent EXCEPT ![s] = p]
    /\ UNCHANGED <<live, cache, at, event, history, disturbed, records, logged>>

\* Mutant: the cache keeps the context fields of the filter only.
RecordSpanContextOwn(t) ==
    LET s == op[t].span
        own == Restrict(op[t].values, DOMAIN op[t].values \cap ContextFields[Filter(t)])
    IN  /\ op[t].kind = "new"
        /\ cache' = [cache EXCEPT ![s] = IF cache[s] = None /\ own # NoFields THEN own ELSE @]
        /\ live' = IF LastFilter(t) THEN live \cup {s} ELSE live
        /\ recorded' = [recorded EXCEPT ![s] = op[t].values]
        /\ mixed' = mixed \ {s}
        /\ NextFilter(t)
        /\ UNCHANGED <<parent, event, disturbed, bounds>>

\* Mutant: a cache is made even when all declared fields are Empty.
RecordSpanContextEmpty(t) ==
    LET s == op[t].span
        caches == DeclaresContextField(Filter(t), s) /\ cache[s] = None
    IN  /\ op[t].kind = "new"
        /\ cache' = [cache EXCEPT ![s] = IF caches THEN op[t].values ELSE @]
        /\ live' = IF LastFilter(t) THEN live \cup {s} ELSE live
        /\ recorded' = [recorded EXCEPT ![s] = op[t].values]
        /\ mixed' = mixed \ {s}
        /\ NextFilter(t)
        /\ UNCHANGED <<parent, event, disturbed, bounds>>

\* on_new_span: record_span_context.
RecordSpanContext(t) ==
    LET s == op[t].span
        values == op[t].values
        caches == /\ DeclaresContextField(Filter(t), s)
                  /\ cache[s] = None
                  /\ values # NoFields
    IN  /\ op[t].kind = "new"
        /\ cache' = [cache EXCEPT ![s] = IF caches THEN values ELSE @]
        /\ live' = IF LastFilter(t) THEN live \cup {s} ELSE live
        /\ recorded' = [recorded EXCEPT ![s] = values]
        /\ mixed' = mixed \ {s}
        /\ NextFilter(t)
        /\ UNCHANGED <<parent, event, disturbed, bounds>>

\* The last reference to a span is dropped: no open span has it as its parent
\* and no call is about it.  The registry clears its extensions.
Close(s) ==
    /\ s \in live
    /\ \A c \in live : parent[c] # s
    /\ \A t \in Threads : /\ op[t].span # s
                          /\ op[t].kind = "new" => parent[op[t].span] # s
    /\ live' = live \ {s}
    /\ cache' = [cache EXCEPT ![s] = None]
    /\ parent' = [parent EXCEPT ![s] = None]
    /\ recorded' = [recorded EXCEPT ![s] = NoFields]
    /\ UNCHANGED <<op, at, event, mixed, disturbed, bounds>>
-----------------------------------------------------------------------------
(* Span::record. *)

Record(t, s, values) ==
    /\ op[t] = Idle
    /\ s \in live
    /\ records < MaxRecords
    /\ records' = records + 1
    /\ op' = [op EXCEPT ![t] = [kind |-> "record", span |-> s, values |-> values]]
    /\ mixed' = IF \E u \in Recording : op[u].span = s THEN mixed \cup {s} ELSE mixed
    /\ disturbed' = disturbed \cup {u \in Threads : op[u].kind = "event"}
    /\ UNCHANGED <<spans, at, event, recorded, created, logged>>

\* Mutant: the values recorded take the place of the attributes.
UpdateSpanContextReplaces(t) ==
    LET s == op[t].span
        values == op[t].values
        updates == DeclaresContextField(Filter(t), s) /\ values # NoFields
    IN  /\ op[t].kind = "record"
        /\ cache' = [cache EXCEPT ![s] = IF updates THEN values ELSE @]
        /\ recorded' = [recorded EXCEPT ![s] = IF LastFilter(t) THEN Over(values, @) ELSE @]
        /\ NextFilter(t)
        /\ UNCHANGED <<live, parent, event, mixed, disturbed, bounds>>

\* on_record: update_span_context.
UpdateSpanContext(t) ==
    LET s == op[t].span
        values == op[t].values
        updates == DeclaresContextField(Filter(t), s) /\ values # NoFields
    IN  /\ op[t].kind = "record"
        /\ cache' = [cache EXCEPT ![s] =
                        IF ~updates THEN @ ELSE IF @ = None THEN values ELSE Over(values, @)]
        /\ recorded' = [recorded EXCEPT ![s] = IF LastFilter(t) THEN Over(values, @) ELSE @]
        /\ NextFilter(t)
        /\ UNCHANGED <<live, parent, event, mixed, disturbed, bounds>>
-----------------------------------------------------------------------------
(* Events. *)

\* The walk of a filter begins; without context fields it visits nothing.
WalkFrom(f, s) == IF ContextFields[f] = {} THEN <<>> ELSE Scope[s]

\* An event is logged with the parent s, entered or explicit, or without one.
LogEvent(t, s, e) ==
    /\ op[t] = Idle
    /\ s \in live \cup {None}
    /\ logged < MaxEvents
    /\ logged' = logged + 1
    /\ op' = [op EXCEPT ![t] = [kind |-> "event", span |-> s, values |-> e]]
    /\ rest' = [rest EXCEPT ![t] = WalkFrom(Stack[1], s)]
    /\ context' = [context EXCEPT ![t] = NoFields]
    /\ signature' = [signature EXCEPT ![t] = None]
    /\ expected' = [expected EXCEPT ![t] = Innermost(Held(s))]
    /\ disturbed' = IF Recording = {} THEN disturbed \ {t} ELSE disturbed \cup {t}
    /\ UNCHANGED <<spans, at, exempted, history, created, records>>

\* The targets that event_enabled lets pass before it looks at anything else.
Bypasses(f, e) == e.target = SummaryTarget \/ e.target \in Exempt[f]

\* Mutant: the outer-most span wins.
VisitSpanOuter(t) ==
    LET f == Filter(t)
        stored == Stored(Head(rest[t]))
    IN  /\ op[t].kind = "event" /\ ~Bypasses(f, op[t].values)
        /\ rest[t] # <<>>
        /\ context' = [context EXCEPT ![t] =
                            Over(Restrict(stored, DOMAIN stored \cap ContextFields[f]), @)]
        /\ rest' = [rest EXCEPT ![t] = Tail(@)]
        /\ UNCHANGED <<spans, op, at, signature, expected, exempted, history, disturbed, bounds>>

\* extract_span_context: one span of the scope is visited, and the walk ends
\* when all fields have been found.
VisitSpan(t) ==
    LET f == Filter(t)
        stored == Stored(Head(rest[t]))
        collected == Over(context[t], Restrict(stored, DOMAIN stored \cap ContextFields[f]))
        complete == Cardinality(DOMAIN collected) = Cardinality(ContextFields[f])
    IN  /\ op[t].kind = "event" /\ ~Bypasses(f, op[t].values)
        /\ rest[t] # <<>>
        /\ context' = [context EXCEPT ![t] = collected]
        /\ rest' = [rest EXCEPT ![t] = IF complete THEN <<>> ELSE Tail(@)]
        /\ UNCHANGED <<spans, op, at, signature, expected, exempted, history, disturbed, bounds>>

\* extract_event_fields
EventFields(f, e) == Restrict(e.fields, DOMAIN e.fields \ Excluded[f])

\* compute_signature: the context is extended by the fields of the event.
SignatureOf(f, e, fields) == <<e.target, Over(EventFields(f, e), fields)>>

\* event_enabled goes on with the signature, or at once for a target that
\* bypasses the throttle; the decision is that of RateLimiter.
Decide(t) ==
    LET f == Filter(t)
        e == op[t].values
    IN  /\ op[t].kind = "event"
        /\ \/ /\ Bypasses(f, e)
              /\ signature' = [signature EXCEPT ![t] = None]
              /\ exempted' = [exempted EXCEPT ![f] = IF e.target = SummaryTarget THEN @ ELSE @ + 1]
           \/ /\ ~Bypasses(f, e) /\ rest[t] = <<>>
              /\ signature' = [signature EXCEPT ![t] = SignatureOf(f, e, context[t])]
              /\ UNCHANGED exempted
        /\ rest' = [rest EXCEPT ![t] =
                        IF LastFilter(t) THEN <<>> ELSE WalkFrom(Stack[at[t] + 1], op[t].span)]
        /\ context' = [context EXCEPT ![t] = NoFields]
        /\ expected' = [expected EXCEPT ![t] = IF LastFilter(t) THEN NoFields ELSE @]
        /\ NextFilter(t)
        /\ UNCHANGED <<spans, history, disturbed, bounds>>
-----------------------------------------------------------------------------
Next ==
    \/ \E t \in Threads :
          \/ \E s \in Spans, p \in live \cup {None} :
                \E values \in Attributes(s) : NewSpan(t, s, p, values)
          \/ RecordSpanContext(t)
          \/ \E s \in Spans : \E values \in Attributes(s) : Record(t, s, values)
          \/ UpdateSpanContext(t)
          \/ \E s \in Spans \cup {None}, e \in Events : LogEvent(t, s, e)
          \/ VisitSpan(t)
          \/ Decide(t)
    \/ \E s \in Spans : Close(s)

Spec == Init /\ [][Next]_vars
-----------------------------------------------------------------------------
(* Properties. *)

\* Some filter of the stack needs the attributes of s.
Interesting(s) == \E i \in 1 .. Len(Stack) : DeclaresContextField(Stack[i], s)

\* "the cache is configuration independent. It always holds all attributes of
\* the span": whichever filter has made it, and however often values were
\* recorded since, once no call is under way for the span.
CacheHoldsAttributes ==
    \A s \in live :
        Interesting(s) /\ (\A t \in Recording : op[t].span # s) =>
            /\ DOMAIN Stored(s) = DOMAIN recorded[s]
            /\ s \notin mixed => Stored(s) = recorded[s]

\* The walk of a filter has ended.
Walked(t) == op[t].kind = "event" /\ rest[t] = <<>> /\ ~Bypasses(Filter(t), op[t].values)

\* A context field that was set in the scope of an event before the event is
\* in its context, whatever other threads record meanwhile.
ContextComplete ==
    \A t \in Threads : Walked(t) =>
        ContextFields[Filter(t)] \cap DOMAIN expected[t] \subseteq DOMAIN context[t]

\* The signature of event e by what its scope held when it was logged.
Reference(f, e, found) ==
    LET own == DOMAIN e.fields \ Excluded[f]
    IN  <<e.target, [n \in own \cup (ContextFields[f] \cap DOMAIN found) |->
                        IF n \in own THEN e.fields[n] ELSE found[n]]>>

\* When no value is recorded meanwhile, every filter hands the signature of
\* the inner-most values, under the fields of the event itself, to its
\* limiter, whichever filters have run before it (action property).
SignatureExact ==
    [][\A t \in Threads :
          /\ Walked(t) /\ <<op[t], at[t]>>' # <<op[t], at[t]>>
          /\ t \notin disturbed /\ Range(Scope[op[t].span]) \cap mixed = {}
          => signature'[t] = Reference(Filter(t), op[t].values, expected[t])]_vars
-----------------------------------------------------------------------------
(* The inductive invariant behind them. *)

AllAttributes == UNION {Attributes(s) : s \in Spans}

Calls ==
    {Idle}
    \cup [kind : {"new", "record"}, span : Spans, values : AllAttributes]
    \cup [kind : {"event"}, span : Spans \cup {None}, values : Events]

\* A call passes values for its span; a span under creation is known to its
\* call only, the other calls are about open spans.
CallsInv ==
    /\ op \in [Threads -> Calls]
    /\ at \in [Threads -> 1 .. Len(Stack)]
    /\ \A t \in Threads :
          /\ op[t].kind = "idle" => at[t] = 1
          /\ op[t].kind \in {"new", "record"} => op[t].values \in Attributes(op[t].span)
          /\ op[t].kind \in {"record", "event"} => op[t].span \in live \cup {None}
          /\ op[t].kind = "new" =>
                op[t].span \notin live /\ \A u \in Threads \ {t} : op[u].span # op[t].span

\* Thread t is creating span s.
Creates(t, s) == op[t].kind = "new" /\ op[t].span = s

\* A parent is open; only open spans and those under creation have one.
ParentsInv ==
    /\ live \subseteq Spans
    /\ parent \in [Spans -> Spans \cup {None}]
    /\ \A s \in Spans : parent[s] # None =>
          parent[s] \in live /\ (s \in live \/ \E t \in Threads : Creates(t, s))

\* g is what Scope defines for the parents of up.
IsScope(g, up) ==
    /\ g \in [Spans \cup {None} -> Seq(Spans)]
    /\ g[None] = <<>>
    /\ \A s \in Spans : g[s] = <<s>> \o g[up[s]]

\* Some filter before the one whose hook is called has worked on s.
Passed(t, s) == \E i \in 1 .. at[t] - 1 : DeclaresContextField(Stack[i], s)

Recorders(s) == {t \in Recording : op[t].span = s}

\* A span under creation has what the filters passed made of the values of its
\* call.  The cache of an open span is ahead of the attributes by the values of
\* the calls of Span::record that are under way and have passed a filter that
\* needs the span.
CreatedCache(s) ==
    \A t \in Threads : Creates(t, s) =>
        /\ at[t] > 1 => recorded[s] = op[t].values
        /\ Stored(s) = IF Passed(t, s) THEN op[t].values ELSE NoFields

OpenCache(s) ==
    s \in live /\ Interesting(s) =>
        /\ DOMAIN Stored(s) = DOMAIN recorded[s]
               \cup UNION {DOMAIN op[t].values : t \in {u \in Recorders(s) : Passed(u, s)}}
        /\ s \notin mixed =>
              /\ \A t, u \in Recorders(s) : t = u
              /\ Recorders(s) = {} => Stored(s) = recorded[s]
              /\ \A t \in Recorders(s) :
                    Stored(s) = IF Passed(t, s) THEN Over(op[t].values, recorded[s])
                                ELSE recorded[s]

CacheOf(s) ==
    /\ recorded[s] \in Attributes(s)
    /\ cache[s] = None \/ cache[s] \in Attributes(s) \ {NoFields}
    /\ s \notin live /\ (\A t \in Threads : ~Creates(t, s)) => cache[s] = None
    /\ CreatedCache(s)
    /\ OpenCache(s)

CacheInv ==
    /\ recorded \in [Spans -> AllAttributes]
    /\ cache \in [Spans -> AllAttributes \cup {None}]
    /\ \A s \in Spans : CacheOf(s)

\* The walk of an event stays in its scope.  What its scope held when it
\* was logged is still there, in the context or ahead of the walk.
WalkOf(t) ==
    /\ rest[t] \in Seq(Range(Scope[op[t].span]))
    /\ DOMAIN context[t] \subseteq ContextFields[Filter(t)]
    /\ Range(context[t]) \subseteq Values
    /\ \A n \in DOMAIN expected[t] :
          \E s \in Range(Scope[op[t].span]) : n \in DOMAIN recorded[s]
    /\ \A n \in DOMAIN expected[t] \cap ContextFields[Filter(t)] :
          \/ n \in DOMAIN context[t]
          \/ \E i \in 1 .. Len(rest[t]) : n \in DOMAIN Stored(rest[t][i])

WalkInv ==
    /\ Threads = DOMAIN rest /\ Threads = DOMAIN context
    /\ Threads = DOMAIN signature /\ Threads = DOMAIN expected
    /\ \A t \in Threads :
          IF op[t].kind = "event" THEN WalkOf(t)
          ELSE rest[t] = <<>> /\ context[t] = NoFields

\* Nothing disturbs the event of t: no call of Span::record has been under way
\* since it was logged, and none was mixed with another in its scope.
Undisturbed(t) ==
    /\ op[t].kind = "event" /\ t \notin disturbed
    /\ Range(Scope[op[t].span]) \cap mixed = {}

\* After k spans of its scope, a walk has collected the inner-most values of
\* their fields that filter f wants, and has the others ahead unless it has
\* found all.
WalkedTo(k, scope, held, f, found, ahead) ==
    /\ \A i \in 1 .. k : ContextFields[f] \cap DOMAIN held[i] \subseteq DOMAIN found
    /\ \A n \in DOMAIN found : \E i \in 1 .. k : FirstWith(i, n, held) /\ found[n] = held[i][n]
    /\ \/ Len(ahead) = Len(scope) - k /\ \A i \in 1 .. Len(ahead) : ahead[i] = scope[k + i]
       \/ ahead = <<>> /\ DOMAIN found = ContextFields[f]

ExactOf(t) ==
    LET s == op[t].span
    IN  /\ expected[t] = Innermost(Held(s))
        /\ \E k \in 0 .. Len(Scope[s]) :
              WalkedTo(k, Scope[s], Held(s), Filter(t), context[t], rest[t])

ExactInv == \A t \in Threads : Undisturbed(t) => Recording = {} /\ ExactOf(t)

SpansInv == CallsInv /\ ParentsInv /\ IsScope(Scope, parent)
=============================================================================
