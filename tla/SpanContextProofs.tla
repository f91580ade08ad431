------------------------- MODULE SpanContextProofs -------------------------
(***************************************************************************)
(* Proofs about SpanContext, for any stack of filters, any spans and any   *)
(* number of threads: SpansInv gives the scope of a span its meaning,      *)
(* CacheInv relates the cache to the attributes, WalkInv and ExactInv      *)
(* follow the walk of an event through its scope.                          *)
(***************************************************************************)
EXTENDS SpanContext, FiniteSetTheorems, NaturalsInduction, WellFoundedInduction, TLAPS

-----------------------------------------------------------------------------
(* Numbers and maps of fields. *)

LEMMA Least ==
    ASSUME NEW T, T \subseteq Nat, T # {}
    PROVE  \E x \in T : \A y \in T : x <= y
<1>1. PICK x \in T : \A y \in T : ~(<<y, x>> \in OpToRel(<, Nat))
  BY NatLessThanWellFounded, WFMin
<1>2. \A y \in T : ~(y < x)
  BY <1>1 DEF OpToRel
<1> QED BY <1>2

LEMMA NothingHasNoFields == DOMAIN NoFields = {} /\ \A V : NoFields \in [{} -> V]
  BY DEF NoFields

LEMMA EmptyMap ==
    ASSUME NEW V, NEW f \in [{} -> V]
    PROVE  f = NoFields
  BY DEF NoFields

\* What a call can pass for a span is a map of fields that the span declares.
LEMMA AttributesAre ==
    ASSUME NEW s
    PROVE  \A f : f \in Attributes(s) <=>
                DOMAIN f \subseteq Declared[s] /\ f \in [DOMAIN f -> Values]
  BY DEF Attributes

LEMMA NoFieldsPass == \A s : NoFields \in Attributes(s)
<1> TAKE s
<1> QED BY NothingHasNoFields, AttributesAre

LEMMA Fields ==
    ASSUME NEW s, NEW f \in Attributes(s)
    PROVE  /\ f = NoFields <=> DOMAIN f = {}
           /\ f = [n \in DOMAIN f |-> f[n]]
           /\ \A n \in DOMAIN f : f[n] \in Values
<1>1. DOMAIN f \subseteq Declared[s] /\ f \in [DOMAIN f -> Values]
  BY AttributesAre
<1>2. ASSUME DOMAIN f = {} PROVE f = NoFields
  BY <1>1, <1>2, EmptyMap
<1> QED BY <1>1, <1>2, NothingHasNoFields

LEMMA OverFields ==
    ASSUME NEW s, NEW f \in Attributes(s), NEW g \in Attributes(s)
    PROVE  /\ Over(f, g) \in Attributes(s)
           /\ DOMAIN Over(f, g) = DOMAIN f \cup DOMAIN g
           /\ Over(f, Over(f, g)) = Over(f, g)
           /\ Over(NoFields, g) = g
           /\ Over(f, NoFields) = f
<1>1. DOMAIN f \subseteq Declared[s] /\ DOMAIN g \subseteq Declared[s]
  BY AttributesAre
<1>2. \A n \in DOMAIN f : f[n] \in Values
  BY Fields
<1>3. \A n \in DOMAIN g : g[n] \in Values
  BY Fields
<1>4. DOMAIN Over(f, g) = DOMAIN f \cup DOMAIN g
  BY DEF Over
<1>5. Over(f, g) \in [DOMAIN f \cup DOMAIN g -> Values]
  BY <1>2, <1>3 DEF Over
<1>6. Over(f, g) \in Attributes(s)
  BY <1>1, <1>4, <1>5, AttributesAre
<1>7. Over(f, Over(f, g)) = Over(f, g)
  BY <1>4 DEF Over
<1>8. Over(NoFields, g) = g
  <2>1. Over(NoFields, g) = [n \in DOMAIN g |-> g[n]]
    BY NothingHasNoFields DEF Over
  <2> QED BY <2>1, Fields
<1>9. Over(f, NoFields) = f
  <2>1. Over(f, NoFields) = [n \in DOMAIN f |-> f[n]]
    BY NothingHasNoFields DEF Over
  <2> QED BY <2>1, Fields
<1> QED BY <1>4, <1>6, <1>7, <1>8, <1>9
-----------------------------------------------------------------------------
(* Scopes. *)

LEMMA ScopeParts ==
    ASSUME NEW g, NEW up \in [Spans -> Spans \cup {None}], IsScope(g, up), NEW s \in Spans
    PROVE  /\ g[up[s]] \in Seq(Spans)
           /\ Len(g[s]) = Len(g[up[s]]) + 1
           /\ g[s][1] = s
           /\ \A i \in 2 .. Len(g[s]) : g[s][i] = g[up[s]][i - 1]
<1>1. up[s] \in Spans \cup {None} /\ g[s] = <<s>> \o g[up[s]]
  BY DEF IsScope
<1>2. g[up[s]] \in Seq(Spans)
  BY <1>1 DEF IsScope
<1> DEFINE r == g[up[s]]
<1>3. r \in Seq(Spans) /\ g[s] = <<s>> \o r
  BY <1>1, <1>2
<1> HIDE DEF r
<1>4. Len(g[s]) = Len(r) + 1 /\ g[s][1] = s /\ \A i \in 2 .. Len(g[s]) : g[s][i] = r[i - 1]
  BY <1>3
<1> QED BY <1>3, <1>4 DEF r

\* There is one function that the definition of Scope describes.
LEMMA ScopeUnique ==
    ASSUME NEW g, NEW h, NEW up \in [Spans -> Spans \cup {None}], IsScope(g, up),
           h[None] = <<>>, None \notin Spans, \A s \in Spans : h[s] = <<s>> \o h[up[s]]
    PROVE  \A s \in Spans \cup {None} : g[s] = h[s]
<1> DEFINE bad == {n \in Nat : \E s \in Spans \cup {None} : n = Len(g[s]) /\ g[s] # h[s]}
<1>1. SUFFICES ASSUME bad # {} PROVE FALSE
  <2>1. \A s \in Spans \cup {None} : Len(g[s]) \in Nat
    BY DEF IsScope
  <2> QED BY <2>1
<1>2. PICK n \in bad : \A m \in bad : n <= m
  <2> HIDE DEF bad
  <2>1. bad \subseteq Nat
    BY DEF bad
  <2> QED BY <1>1, <2>1, Least
<1>3. PICK s \in Spans \cup {None} : n = Len(g[s]) /\ g[s] # h[s]
  BY <1>2
<1>4. s \in Spans
  BY <1>3 DEF IsScope
<1>5. g[up[s]] \in Seq(Spans) /\ Len(g[s]) = Len(g[up[s]]) + 1
  BY <1>4, ScopeParts
<1>6. up[s] \in Spans \cup {None} /\ Len(g[up[s]]) \in Nat /\ ~(Len(g[s]) <= Len(g[up[s]]))
  BY <1>4, <1>5
<1>7. g[up[s]] = h[up[s]]
  BY <1>2, <1>3, <1>6
<1>8. g[s] = <<s>> \o g[up[s]] /\ h[s] = <<s>> \o h[up[s]]
  BY <1>4 DEF IsScope
<1> QED BY <1>3, <1>7, <1>8

LEMMA ScopeIs ==
    \A g : IsScope(g, parent) /\ parent \in [Spans -> Spans \cup {None}] => Scope = g
<1> SUFFICES ASSUME NEW g, IsScope(g, parent), parent \in [Spans -> Spans \cup {None}]
             PROVE  Scope = g
  OBVIOUS
<1> DEFINE Body(f) == [s \in Spans \cup {None} |->
                          IF s = None THEN <<>> ELSE <<s>> \o f[parent[s]]]
<1>1. None \notin Spans
  BY SpanNoneAssumption
<1>2. g = Body(g)
  <2>1. g = [s \in Spans \cup {None} |-> g[s]]
    BY DEF IsScope
  <2>2. \A s \in Spans \cup {None} : g[s] = IF s = None THEN <<>> ELSE <<s>> \o g[parent[s]]
    BY <1>1 DEF IsScope
  <2> QED BY <2>1, <2>2
<1>3. Scope = CHOOSE f : f = Body(f)
  BY DEF Scope
<1>4. Scope = Body(Scope)
  <2> HIDE DEF Body
  <2> QED BY <1>2, <1>3
<1>5. Scope[None] = <<>> /\ \A s \in Spans : Scope[s] = <<s>> \o Scope[parent[s]]
  BY <1>1, <1>4
<1>6. \A s \in Spans \cup {None} : g[s] = Scope[s]
  <2> HIDE DEF Body
  <2> QED BY <1>1, <1>5, ScopeUnique
<1>7. g = [s \in Spans \cup {None} |-> g[s]] /\ Scope = [s \in Spans \cup {None} |-> Scope[s]]
  BY <1>4 DEF IsScope
<1> QED BY <1>6, <1>7

\* A scope does not leave a set of spans that has the parents of its spans.
LEMMA ScopeWithin ==
    ASSUME NEW g, NEW up \in [Spans -> Spans \cup {None}], IsScope(g, up),
           NEW S \in SUBSET Spans, \A x \in S : up[x] \in S \cup {None},
           NEW s \in S \cup {None}
    PROVE  g[s] \in Seq(S) /\ Range(g[s]) \subseteq S
<1> DEFINE bad == {i \in Nat : \E x \in S : i \in 1 .. Len(g[x]) /\ g[x][i] \notin S}
<1>1. bad = {}
  <2> SUFFICES ASSUME bad # {} PROVE FALSE
    OBVIOUS
  <2>1. PICK i \in bad : \A j \in bad : i <= j
    <3> HIDE DEF bad
    <3>1. bad \subseteq Nat
      BY DEF bad
    <3> QED BY <3>1, Least
  <2>2. PICK x \in S : i \in 1 .. Len(g[x]) /\ g[x][i] \notin S
    BY <2>1
  <2>3. /\ g[up[x]] \in Seq(Spans) /\ Len(g[x]) = Len(g[up[x]]) + 1 /\ g[x][1] = x
        /\ \A k \in 2 .. Len(g[x]) : g[x][k] = g[up[x]][k - 1]
    BY <2>2, ScopeParts
  <2>4. i # 1 /\ i \in Nat
    BY <2>2, <2>3
  <2>5. i - 1 \in 1 .. Len(g[up[x]]) /\ g[x][i] = g[up[x]][i - 1] /\ i - 1 \in Nat /\ ~(i <= i - 1)
    BY <2>2, <2>3, <2>4
  <2>6. up[x] # None
    BY <2>5 DEF IsScope
  <2>7. i - 1 \in bad
    BY <2>2, <2>5, <2>6
  <2> QED BY <2>1, <2>5, <2>7
<1>2. g[s] \in Seq(Spans)
  BY DEF IsScope
<1>3. \A i \in 1 .. Len(g[s]) : g[s][i] \in S
  <2>1. CASE s \in S
    <3> SUFFICES ASSUME NEW i \in 1 .. Len(g[s]), g[s][i] \notin S PROVE FALSE
      OBVIOUS
    <3>1. i \in Nat
      OBVIOUS
    <3>2. i \in bad
      BY <2>1, <3>1
    <3> QED BY <1>1, <3>2
  <2>2. CASE s = None
    <3>1. g[s] = <<>>
      BY <2>2 DEF IsScope
    <3> QED BY <3>1
  <2> QED BY <2>1, <2>2
<1> QED BY <1>2, <1>3 DEF Range
-----------------------------------------------------------------------------
(* Calls, parents and scopes. *)

LEMMA StackFacts ==
    /\ Len(Stack) \in Nat /\ 1 \in 1 .. Len(Stack)
    /\ \A i \in 1 .. Len(Stack) :
          Stack[i] \in DOMAIN ContextFields /\ Stack[i] \in DOMAIN Excluded /\ Stack[i] \in DOMAIN Exempt
  BY StackAssumption

LEMMA NoneIsNoSpan == \A s \in Spans : None # s
  BY SpanNoneAssumption

LEMMA CallsInit == Init => CallsInv
  BY StackFacts DEF Init, CallsInv, Calls, Idle

\* A call is one of four kinds, with a span of its own unless it is idle or
\* an event without one.
LEMMA CallIs ==
    ASSUME CallsInv, NEW t \in Threads
    PROVE  /\ op[t] \in Calls
           /\ op[t].kind \in {"idle", "new", "record", "event"}
           /\ op[t].kind = "idle" <=> op[t] = Idle
           /\ op[t].kind \in {"new", "record"} => op[t].span \in Spans
           /\ op[t].span \in Spans \cup {None}
           /\ at[t] \in 1 .. Len(Stack)
  BY DEF CallsInv, Calls, Idle

\* The next filter, or the end of the call.
LEMMA NextCall ==
    ASSUME CallsInv, NEW t \in Threads, NextFilter(t)
    PROVE  /\ op' \in [Threads -> Calls] /\ at' \in [Threads -> 1 .. Len(Stack)]
           /\ \A u \in Threads : u # t => op'[u] = op[u] /\ at'[u] = at[u]
           /\ LastFilter(t) => op'[t] = Idle /\ at'[t] = 1
           /\ ~LastFilter(t) => op'[t] = op[t] /\ at'[t] = at[t] + 1
<1>1. op \in [Threads -> Calls] /\ at \in [Threads -> 1 .. Len(Stack)]
  BY DEF CallsInv
<1>2. Idle \in Calls
  BY DEF Calls
<1>3. CASE LastFilter(t)
  BY <1>1, <1>2, <1>3, StackFacts DEF NextFilter
<1>4. CASE ~LastFilter(t)
  <2>1. op' = op /\ at' = [at EXCEPT ![t] = @ + 1]
    BY <1>4 DEF NextFilter
  <2>2. at[t] + 1 \in 1 .. Len(Stack)
    BY <1>1, <1>4, StackFacts DEF LastFilter
  <2> QED BY <1>1, <1>4, <2>1, <2>2
<1> QED BY <1>3, <1>4

LEMMA CallsStep ==
    ASSUME CallsInv, live \subseteq Spans, [Next]_vars
    PROVE  CallsInv'
<1> USE DEF CallsInv
<1>1. ASSUME NEW t \in Threads, NEW s \in Spans, NEW p \in live \cup {None},
             NEW values \in Attributes(s), NewSpan(t, s, p, values)
      PROVE  CallsInv'
  <2> DEFINE call == [kind |-> "new", span |-> s, values |-> values]
  <2>1. call \in Calls
    BY DEF Calls, AllAttributes
  <2>2. op' = [op EXCEPT ![t] = call] /\ UNCHANGED <<at, live>>
    BY <1>1 DEF NewSpan
  <2>3. s \notin live /\ \A u \in Threads : op[u].span # s
    BY <1>1 DEF NewSpan
  <2>4. call.kind = "new" /\ call.span = s /\ call.values = values
    OBVIOUS
  <2> HIDE DEF call
  <2> QED BY <2>1, <2>2, <2>3, <2>4
<1>2. ASSUME NEW t \in Threads, RecordSpanContext(t) \/ UpdateSpanContext(t) \/ Decide(t)
      PROVE  CallsInv'
  <2>1. NextFilter(t) /\ op[t].kind \in {"new", "record", "event"}
    BY <1>2 DEF RecordSpanContext, UpdateSpanContext, Decide
  <2>2. live' = IF op[t].kind = "new" /\ LastFilter(t) THEN live \cup {op[t].span} ELSE live
    BY <1>2 DEF RecordSpanContext, UpdateSpanContext, Decide, spans
  <2>3. Idle.kind = "idle" /\ Idle.span = None
    BY DEF Idle
  <2>4. \A u \in Threads : op[u].kind \in {"new", "record"} => op[u].span \in Spans
    BY CallIs
  <2>5. /\ op' \in [Threads -> Calls] /\ at' \in [Threads -> 1 .. Len(Stack)]
        /\ \A u \in Threads : u # t => op'[u] = op[u] /\ at'[u] = at[u]
        /\ LastFilter(t) => op'[t] = Idle /\ at'[t] = 1
        /\ ~LastFilter(t) => op'[t] = op[t]
    BY <2>1, NextCall
  <2>6. CASE LastFilter(t)
    <3>1. \A u \in Threads : op[u].kind = "new" => u = t \/ op[u].span \notin live'
      BY <2>2, <2>4
    <3>2. live \subseteq live'
      BY <2>2
    <3>3. op'[t].kind = "idle" /\ at'[t] = 1 /\ op'[t].span = None
      BY <2>3, <2>5, <2>6
    <3>4. ASSUME NEW u \in Threads, u # t
          PROVE  /\ op'[u].kind = "idle" => at'[u] = 1
                 /\ op'[u].kind \in {"new", "record"} => op'[u].values \in Attributes(op'[u].span)
                 /\ op'[u].kind \in {"record", "event"} => op'[u].span \in live' \cup {None}
                 /\ op'[u].kind = "new" => op'[u].span \notin live'
      BY <2>5, <3>1, <3>2, <3>4
    <3>5. ASSUME NEW u \in Threads, op'[u].kind = "new", NEW v \in Threads \ {u}
          PROVE  op'[v].span # op'[u].span
      <4>1. u # t /\ op[u].kind = "new" /\ op'[u] = op[u]
        BY <2>5, <3>3, <3>5
      <4>2. CASE v = t
        BY <2>4, <3>3, <4>1, <4>2, NoneIsNoSpan
      <4>3. CASE v # t
        BY <2>5, <4>1, <4>3
      <4> QED BY <4>2, <4>3
    <3> QED BY <2>5, <3>3, <3>4, <3>5
  <2>7. CASE ~LastFilter(t)
    BY <2>1, <2>2, <2>5, <2>7
  <2> QED BY <2>6, <2>7
<1>3. ASSUME NEW s \in Spans, Close(s)
      PROVE  CallsInv'
  BY <1>3 DEF Close
<1>4. ASSUME NEW t \in Threads, NEW s \in Spans, NEW values \in Attributes(s), Record(t, s, values)
      PROVE  CallsInv'
  <2> DEFINE call == [kind |-> "record", span |-> s, values |-> values]
  <2>1. call \in Calls
    BY DEF Calls, AllAttributes
  <2>2. op' = [op EXCEPT ![t] = call] /\ UNCHANGED <<at, live>> /\ s \in live /\ op[t] = Idle
    BY <1>4 DEF Record, spans
  <2>3. call.kind = "record" /\ call.span = s /\ call.values = values
    OBVIOUS
  <2> HIDE DEF call
  <2> QED BY <2>1, <2>2, <2>3
<1>5. ASSUME NEW t \in Threads, NEW s \in Spans \cup {None}, NEW e \in Events, LogEvent(t, s, e)
      PROVE  CallsInv'
  <2> DEFINE call == [kind |-> "event", span |-> s, values |-> e]
  <2>1. call \in Calls
    BY DEF Calls, AllAttributes
  <2>2. op' = [op EXCEPT ![t] = call] /\ UNCHANGED <<at, live>> /\ s \in live \cup {None}
    BY <1>5 DEF LogEvent, spans
  <2>3. call.kind = "event" /\ call.span = s /\ call.values = e
    OBVIOUS
  <2>4. \A u \in Threads : op[u].kind = "new" => op[u].span \in Spans
    BY CallIs
  <2> HIDE DEF call
  <2> QED BY <2>1, <2>2, <2>3, <2>4, NoneIsNoSpan
<1>6. ASSUME NEW t \in Threads, VisitSpan(t)
      PROVE  CallsInv'
  BY <1>6 DEF VisitSpan, spans
<1>7. CASE UNCHANGED vars
  BY <1>7 DEF vars, spans
<1> QED BY <1>1, <1>2, <1>3, <1>4, <1>5, <1>6, <1>7 DEF Next

LEMMA ParentsInit == Init => ParentsInv
  BY DEF Init, ParentsInv

LEMMA ParentsStep ==
    ASSUME CallsInv, ParentsInv, [Next]_vars
    PROVE  ParentsInv'
<1> USE DEF ParentsInv
<1>1. ASSUME NEW t \in Threads, NEW s \in Spans, NEW p \in live \cup {None},
             NEW values \in Attributes(s), NewSpan(t, s, p, values)
      PROVE  ParentsInv'
  <2>1. /\ op[t] = Idle /\ s \notin live /\ live' = live
        /\ parent' = [parent EXCEPT ![s] = p]
        /\ op' = [op EXCEPT ![t] = [kind |-> "new", span |-> s, values |-> values]]
    BY <1>1 DEF NewSpan
  <2>2. op'[t].kind = "new" /\ op'[t].span = s /\ \A u \in Threads : u # t => op'[u] = op[u]
    BY <2>1 DEF CallsInv
  <2>3. op[t].kind # "new"
    BY <2>1 DEF Idle
  <2> QED BY <2>1, <2>2, <2>3 DEF Creates
<1>2. ASSUME NEW t \in Threads, RecordSpanContext(t)
      PROVE  ParentsInv'
  <2>1. /\ parent' = parent
        /\ live' = IF LastFilter(t) THEN live \cup {op[t].span} ELSE live
        /\ op[t].kind = "new" /\ op[t].span \in Spans
    BY <1>2, CallIs DEF RecordSpanContext
  <2>2. /\ \A u \in Threads : u # t => op'[u] = op[u]
        /\ ~LastFilter(t) => op'[t] = op[t]
    BY <1>2, NextCall DEF RecordSpanContext
  <2> QED BY <2>1, <2>2 DEF Creates
<1>3. ASSUME NEW s \in Spans, Close(s)
      PROVE  ParentsInv'
  <2>1. /\ op' = op /\ live' = live \ {s} /\ parent' = [parent EXCEPT ![s] = None]
        /\ \A c \in live : parent[c] # s
        /\ \A t \in Threads : op[t].kind = "new" => parent[op[t].span] # s
    BY <1>3 DEF Close
  <2>2. \A c \in Spans : parent[c] # s
    BY <2>1, NoneIsNoSpan DEF Creates
  <2> QED BY <2>1, <2>2 DEF Creates
<1>4. ASSUME NEW t \in Threads, UpdateSpanContext(t) \/ Decide(t)
      PROVE  ParentsInv'
  <2>1. UNCHANGED <<live, parent>> /\ op[t].kind # "new"
    BY <1>4 DEF UpdateSpanContext, Decide, spans
  <2>2. \A u \in Threads : u # t => op'[u] = op[u]
    BY <1>4, NextCall DEF UpdateSpanContext, Decide
  <2> QED BY <2>1, <2>2 DEF Creates
<1>5. ASSUME NEW t \in Threads,
             \/ \E s \in Spans : \E values \in Attributes(s) : Record(t, s, values)
             \/ \E s \in Spans \cup {None}, e \in Events : LogEvent(t, s, e)
      PROVE  ParentsInv'
  <2>1. UNCHANGED <<live, parent>> /\ op[t] = Idle
    BY <1>5 DEF Record, LogEvent, spans
  <2>2. \A u \in Threads : u # t => op'[u] = op[u]
    BY <1>5 DEF Record, LogEvent, CallsInv
  <2>3. op[t].kind # "new"
    BY <2>1 DEF Idle
  <2> QED BY <2>1, <2>2, <2>3 DEF Creates
<1>6. ASSUME NEW t \in Threads, VisitSpan(t)
      PROVE  ParentsInv'
  BY <1>6 DEF VisitSpan, spans, Creates
<1>7. CASE UNCHANGED vars
  BY <1>7 DEF vars, spans, Creates
<1> QED BY <1>1, <1>2, <1>3, <1>4, <1>5, <1>6, <1>7 DEF Next

LEMMA ScopeInit == Init => IsScope(Scope, parent)
<1> SUFFICES ASSUME Init PROVE IsScope(Scope, parent)
  OBVIOUS
<1> DEFINE g == [s \in Spans \cup {None} |-> IF s = None THEN <<>> ELSE <<s>>]
<1>1. parent \in [Spans -> Spans \cup {None}] /\ \A s \in Spans : parent[s] = None
  BY DEF Init
<1>2. IsScope(g, parent)
  <2>1. g[None] = <<>> /\ \A s \in Spans : g[s] = <<s>>
    BY NoneIsNoSpan
  <2>2. g \in [Spans \cup {None} -> Seq(Spans)]
    OBVIOUS
  <2>3. \A s \in Spans : <<s>> = <<s>> \o <<>>
    OBVIOUS
  <2> HIDE DEF g
  <2> QED BY <1>1, <2>1, <2>2, <2>3 DEF IsScope
<1> HIDE DEF g
<1> QED BY <1>1, <1>2, ScopeIs

\* The scope of an open span stays what it is while the span is open.
LEMMA ScopeStep ==
    ASSUME SpansInv, [Next]_vars
    PROVE  /\ IsScope(Scope, parent)'
           /\ \A s \in live \cup {None} : s \in live' \cup {None} => Scope'[s] = Scope[s]
<1>1. ParentsInv /\ IsScope(Scope, parent) /\ CallsInv
  BY DEF SpansInv
<1>2. ParentsInv'
  BY <1>1, ParentsStep
<1>3. parent' \in [Spans -> Spans \cup {None}]
  BY <1>2 DEF ParentsInv
<1>a. (\A g : IsScope(g, parent) /\ parent \in [Spans -> Spans \cup {None}] => Scope = g)'
  BY ScopeIs, PTL
<1>4. ASSUME NEW g, IsScope(g, parent') PROVE Scope' = g
  <2>1. IsScope(g, parent)'
    BY <1>4 DEF IsScope
  <2> QED BY <1>a, <1>3, <1>4, <2>1 DEF IsScope
<1>5. CASE parent' = parent
  <2>1. IsScope(Scope, parent')
    BY <1>1, <1>5
  <2>2. Scope' = Scope
    BY <1>4, <2>1
  <2> QED BY <2>1, <2>2
<1>6. ASSUME NEW s \in Spans, s \notin live \/ s \notin live',
             NEW p \in live \cup {None}, p # s, parent' = [parent EXCEPT ![s] = p],
             \A c \in Spans : parent[c] # s
      PROVE  /\ IsScope(Scope, parent)'
             /\ \A c \in live \cup {None} : c \in live' \cup {None} => Scope'[c] = Scope[c]
  <2> DEFINE g == [Scope EXCEPT ![s] = <<s>> \o Scope[p]]
  <2>1. /\ Scope \in [Spans \cup {None} -> Seq(Spans)]
        /\ Scope[None] = <<>>
        /\ \A c \in Spans : Scope[c] = <<c>> \o Scope[parent[c]]
    BY <1>1 DEF IsScope
  <2>2. p \in Spans \cup {None} /\ <<s>> \o Scope[p] \in Seq(Spans)
    <3>1. p \in Spans \cup {None}
      BY <1>1 DEF ParentsInv
    <3> QED BY <2>1, <3>1
  <2>3. /\ g \in [Spans \cup {None} -> Seq(Spans)]
        /\ g[s] = <<s>> \o Scope[p]
        /\ \A c \in Spans \cup {None} : c # s => g[c] = Scope[c]
    BY <2>1, <2>2
  <2> HIDE DEF g
  <2>4. parent'[s] = p /\ \A c \in Spans : c # s => parent'[c] = parent[c]
    BY <1>1, <1>6 DEF ParentsInv
  <2>5. IsScope(g, parent')
    <3>1. g[None] = <<>>
      BY <1>6, <2>1, <2>3, NoneIsNoSpan
    <3>2. g[s] = <<s>> \o g[parent'[s]]
      BY <1>6, <2>2, <2>3, <2>4
    <3>3. ASSUME NEW c \in Spans, c # s PROVE g[c] = <<c>> \o g[parent'[c]]
      <4>1. parent[c] # s /\ parent[c] \in Spans \cup {None}
        BY <1>1, <1>6 DEF ParentsInv
      <4>2. g[c] = <<c>> \o Scope[parent[c]]
        BY <2>1, <2>3, <3>3
      <4>3. g[parent'[c]] = Scope[parent[c]]
        BY <2>3, <2>4, <3>3, <4>1
      <4> QED BY <4>2, <4>3
    <3> QED BY <2>3, <3>1, <3>2, <3>3 DEF IsScope
  <2>6. Scope' = g
    BY <1>4, <2>5
  <2>7. ASSUME NEW c \in live \cup {None}, c \in live' \cup {None} PROVE Scope'[c] = Scope[c]
    <3>1. c # s /\ c \in Spans \cup {None}
      BY <1>1, <1>6, <2>7, NoneIsNoSpan DEF ParentsInv
    <3> QED BY <2>3, <2>6, <3>1
  <2> QED BY <2>5, <2>6, <2>7
<1>7. ASSUME NEW t \in Threads, NEW s \in Spans, NEW p \in live \cup {None},
             NEW values \in Attributes(s), NewSpan(t, s, p, values)
      PROVE  /\ s \notin live /\ p # s /\ parent' = [parent EXCEPT ![s] = p]
             /\ \A c \in Spans : parent[c] # s
  <2>1. s \notin live /\ parent' = [parent EXCEPT ![s] = p]
    BY <1>7 DEF NewSpan
  <2> QED BY <1>1, <2>1, NoneIsNoSpan DEF ParentsInv
<1>8. ASSUME NEW s \in Spans, Close(s)
      PROVE  /\ s \notin live' /\ parent' = [parent EXCEPT ![s] = None]
             /\ \A c \in Spans : parent[c] # s
  <2>1. /\ live' = live \ {s} /\ parent' = [parent EXCEPT ![s] = None]
        /\ \A c \in live : parent[c] # s
        /\ \A t \in Threads : op[t].kind = "new" => parent[op[t].span] # s
    BY <1>8 DEF Close
  <2> QED BY <1>1, <2>1, NoneIsNoSpan DEF ParentsInv, Creates
<1>9. CASE \E t \in Threads, s \in Spans, p \in live \cup {None} :
              \E values \in Attributes(s) : NewSpan(t, s, p, values)
  BY <1>6, <1>7, <1>9
<1>10. CASE \E s \in Spans : Close(s)
  BY <1>6, <1>8, <1>10, NoneIsNoSpan
<1>11. ASSUME NEW t \in Threads,
              \/ RecordSpanContext(t) \/ UpdateSpanContext(t) \/ VisitSpan(t) \/ Decide(t)
              \/ \E s \in Spans : \E values \in Attributes(s) : Record(t, s, values)
              \/ \E s \in Spans \cup {None}, e \in Events : LogEvent(t, s, e)
       PROVE  parent' = parent
  BY <1>11 DEF RecordSpanContext, UpdateSpanContext, VisitSpan, Decide, Record, LogEvent, spans
<1>12. CASE UNCHANGED vars
  BY <1>5, <1>12 DEF vars, spans
<1> QED BY <1>5, <1>9, <1>10, <1>11, <1>12 DEF Next

LEMMA SpansInit == Init => SpansInv
  BY CallsInit, ParentsInit, ScopeInit DEF SpansInv

LEMMA SpansStep == SpansInv /\ [Next]_vars => SpansInv'
<1> SUFFICES ASSUME SpansInv, [Next]_vars PROVE SpansInv'
  OBVIOUS
<1>1. CallsInv /\ ParentsInv /\ live \subseteq Spans
  BY DEF SpansInv, ParentsInv
<1> QED BY <1>1, CallsStep, ParentsStep, ScopeStep DEF SpansInv

\* The scope of an open span is made of open spans.
LEMMA ScopeOpen ==
    ASSUME SpansInv, NEW s \in live \cup {None}
    PROVE  Scope[s] \in Seq(live) /\ Range(Scope[s]) \subseteq live
<1>1. /\ parent \in [Spans -> Spans \cup {None}] /\ live \in SUBSET Spans
      /\ \A c \in live : parent[c] \in live \cup {None}
      /\ IsScope(Scope, parent)
  BY NoneIsNoSpan DEF SpansInv, ParentsInv
<1> QED BY <1>1, ScopeWithin
LEMMA ScopesOpen ==
    SpansInv => \A s \in live \cup {None} : Scope[s] \in Seq(live) /\ Range(Scope[s]) \subseteq live
  BY ScopeOpen
-----------------------------------------------------------------------------
(* The cache. *)

\* Thread t is creating span s or records values on it.
Works(t, s) == op[t].kind \in {"new", "record"} /\ op[t].span = s

LEMMA CacheInit == Init => CacheInv
<1> SUFFICES ASSUME Init PROVE CacheInv
  OBVIOUS
<1>1. /\ recorded = [s \in Spans |-> NoFields] /\ cache = [s \in Spans |-> None] /\ live = {}
      /\ op = [t \in Threads |-> Idle]
  BY DEF Init
<1>2. \A t \in Threads : op[t].kind = "idle"
  BY <1>1 DEF Idle
<1>3. \A s \in Spans : CreatedCache(s) /\ OpenCache(s)
  BY <1>1, <1>2 DEF CreatedCache, OpenCache, Creates
<1>4. \A s \in Spans : NoFields \in AllAttributes
  BY NoFieldsPass DEF AllAttributes
<1>5. \A s \in Spans : recorded[s] \in Attributes(s) /\ cache[s] = None
  BY <1>1, NoFieldsPass
<1>6. recorded \in [Spans -> AllAttributes] /\ cache \in [Spans -> AllAttributes \cup {None}]
  BY <1>1, <1>4
<1> QED BY <1>3, <1>5, <1>6 DEF CacheInv, CacheOf

\* What is stored of a span is one of its maps of fields.
LEMMA StoredIs ==
    ASSUME CacheInv, NEW s \in Spans
    PROVE  Stored(s) \in Attributes(s) /\ (Stored(s) = NoFields <=> cache[s] = None)
<1>1. None # NoFields
  BY SpanNoneAssumption, NoFieldsPass
<1>2. cache[s] = None \/ cache[s] \in Attributes(s) \ {NoFields}
  BY DEF CacheInv, CacheOf
<1>3. Stored(s) = IF cache[s] = None THEN NoFields ELSE cache[s]
  BY DEF Stored
<1> QED BY <1>1, <1>2, <1>3, NoFieldsPass

\* A span that a step does not touch, nor the calls that work on it.
LEMMA CacheFrame ==
    ASSUME CacheInv, NEW s \in Spans,
           cache'[s] = cache[s], recorded'[s] = recorded[s],
           s \in live' <=> s \in live, s \in mixed' <=> s \in mixed,
           \A t \in Threads : \/ op'[t] = op[t] /\ at'[t] = at[t]
                              \/ ~Works(t, s) /\ ~Works(t, s)'
    PROVE  CacheOf(s)'
<1>1. CacheOf(s)
  BY DEF CacheInv, CacheOf
<1>2. Stored(s)' = Stored(s)
  BY DEF Stored
<1>3. \A t \in Threads : (Works(t, s) <=> Works(t, s)') /\ (Works(t, s) => op'[t] = op[t] /\ at'[t] = at[t])
  BY DEF Works
<1>4. \A t \in Threads : Creates(t, s)' <=> Creates(t, s)
  BY <1>3 DEF Works, Creates
<1>5. Recorders(s)' = Recorders(s)
  BY <1>3 DEF Works, Recorders, Recording
<1>6. \A t \in Threads : Works(t, s) => (Passed(t, s)' <=> Passed(t, s))
  BY <1>3 DEF Passed
<1>7. \A t \in Recorders(s) : Works(t, s) /\ t \in Threads
  BY DEF Recorders, Recording, Works
<1>8. CreatedCache(s)'
  BY <1>1, <1>2, <1>3, <1>4, <1>6 DEF CacheOf, CreatedCache, Creates, Works
<1>9. {u \in Recorders(s) : Passed(u, s)}' = {u \in Recorders(s) : Passed(u, s)}
  BY <1>5, <1>6, <1>7
<1>10. \A t \in Recorders(s) : op'[t] = op[t]
  BY <1>3, <1>7
<1>11. UNION {DOMAIN op[t].values : t \in {u \in Recorders(s) : Passed(u, s)}}'
          = UNION {DOMAIN op[t].values : t \in {u \in Recorders(s) : Passed(u, s)}}
  BY <1>9, <1>10
<1>12. OpenCache(s)'
  BY <1>1, <1>2, <1>5, <1>6, <1>7, <1>10, <1>11 DEF CacheOf, OpenCache
<1> QED BY <1>1, <1>4, <1>8, <1>12 DEF CacheOf

\* The steps that work on a span x leave the caches of the others alone.
LEMMA CacheOthers ==
    ASSUME CacheInv, NEW x \in Spans, NEW t \in Threads,
           \A s \in Spans : s # x => /\ cache'[s] = cache[s] /\ recorded'[s] = recorded[s]
                                     /\ s \in live' <=> s \in live
                                     /\ s \in mixed' <=> s \in mixed,
           \A u \in Threads : u # t => op'[u] = op[u] /\ at'[u] = at[u],
           \A s \in Spans : s # x => ~Works(t, s) /\ ~Works(t, s)'
    PROVE  \A s \in Spans : s # x => CacheOf(s)'
<1> SUFFICES ASSUME NEW s \in Spans, s # x PROVE CacheOf(s)'
  OBVIOUS
<1>1. \A u \in Threads : \/ op'[u] = op[u] /\ at'[u] = at[u]
                         \/ ~Works(u, s) /\ ~Works(u, s)'
  OBVIOUS
<1> QED BY <1>1, CacheFrame

LEMMA CreationCached ==
    ASSUME SpansInv, CacheInv, NEW t \in Threads, RecordSpanContext(t)
    PROVE  \A s \in Spans : CacheOf(s)'
<1>a. PICK s, values : s = op[t].span /\ values = op[t].values
  OBVIOUS
<1> DEFINE needs == DeclaresContextField(Filter(t), s)
<1>1. CallsInv
  BY DEF SpansInv
<1>2. /\ op[t].kind = "new" /\ s \in Spans /\ values \in Attributes(s)
      /\ s \notin live /\ (\A u \in Threads \ {t} : op[u].span # s)
      /\ at[t] \in 1 .. Len(Stack) /\ Len(Stack) \in Nat
  BY <1>a, <1>1, CallIs, StackFacts DEF RecordSpanContext, CallsInv
<1>3. /\ cache' = [cache EXCEPT ![s] = IF needs /\ cache[s] = None /\ values # NoFields
                                       THEN values ELSE @]
      /\ live' = IF LastFilter(t) THEN live \cup {s} ELSE live
      /\ recorded' = [recorded EXCEPT ![s] = values]
      /\ mixed' = mixed \ {s}
      /\ NextFilter(t)
  BY <1>a DEF RecordSpanContext
<1>4. /\ \A u \in Threads : u # t => op'[u] = op[u] /\ at'[u] = at[u]
      /\ LastFilter(t) => op'[t] = Idle /\ at'[t] = 1
      /\ ~LastFilter(t) => op'[t] = op[t] /\ at'[t] = at[t] + 1
  BY <1>a, <1>1, <1>3, NextCall
<1>5. Idle.kind = "idle" /\ None # NoFields
  BY SpanNoneAssumption, NoFieldsPass, <1>2 DEF Idle
<1>6. Creates(t, s) /\ CreatedCache(s) /\ (cache[s] = None \/ cache[s] \in Attributes(s) \ {NoFields})
  BY <1>a, <1>2 DEF CacheInv, CacheOf, Creates
<1>7. cache'[s] = (IF needs /\ cache[s] = None /\ values # NoFields THEN values ELSE cache[s])
      /\ recorded'[s] = values
  BY <1>a, <1>2, <1>3 DEF CacheInv, CacheOf
<1>8. Stored(s) = IF Passed(t, s) THEN values ELSE NoFields
  BY <1>a, <1>6 DEF CreatedCache
<1> HIDE DEF needs
<1>9. cache'[s] = None \/ cache'[s] \in Attributes(s) \ {NoFields}
  BY <1>a, <1>2, <1>6, <1>7
<1>10. (Stored(s))' = IF Passed(t, s) \/ needs THEN values ELSE NoFields
  <2>1. Stored(s)' = IF cache'[s] = None THEN NoFields ELSE cache'[s]
    BY DEF Stored
  <2>2. Stored(s) = IF cache[s] = None THEN NoFields ELSE cache[s]
    BY DEF Stored
  <2>3. values # None
    BY <1>a, <1>2, SpanNoneAssumption
  <2> QED BY <1>5, <1>6, <1>7, <1>8, <2>1, <2>2, <2>3
<1>11. (\E i \in 1 .. at[t] : DeclaresContextField(Stack[i], s)) <=> Passed(t, s) \/ needs
  <2>1. at[t] \in Nat /\ at[t] >= 1
    BY <1>a, <1>2
  <2>2. 1 .. at[t] = (1 .. at[t] - 1) \cup {at[t]}
    BY <1>a, <2>1
  <2> QED BY <2>2 DEF Passed, needs, Filter
<1>12. \A u \in Threads : u # t => ~Works(u, s) /\ ~Works(u, s)' /\ ~Creates(u, s)'
  BY <1>a, <1>2, <1>4 DEF Works, Creates
<1>13. CacheOf(s)'
  <2>1. CASE LastFilter(t)
    <3>1. op'[t].kind = "idle"
      BY <1>a, <1>4, <1>5, <2>1
    <3>2. \A u \in Threads : ~Creates(u, s)' /\ ~(op'[u].kind = "record" /\ op'[u].span = s)
      BY <1>a, <1>12, <3>1 DEF Creates, Works
    <3>3. Recorders(s)' = {}
      BY <3>2 DEF Recorders, Recording
    <3>4. Interesting(s) => (Stored(s))' = values
      BY <1>a, <1>10, <1>11, <2>1 DEF Interesting, LastFilter
    <3>5. (UNION {DOMAIN op[u].values : u \in {v \in Recorders(s) : Passed(v, s)}})' = {}
      BY <3>3
    <3>6. s \in live'
      BY <1>a, <1>3, <2>1
    <3>7. OpenCache(s)'
      BY <1>a, <1>7, <3>3, <3>4, <3>5 DEF OpenCache, Interesting
    <3>8. CreatedCache(s)'
      BY <3>2 DEF CreatedCache
    <3> QED BY <1>2, <1>7, <1>9, <3>6, <3>7, <3>8 DEF CacheOf
  <2>2. CASE ~LastFilter(t)
    <3>1. op'[t] = op[t] /\ at'[t] = at[t] + 1 /\ live' = live
      BY <1>a, <1>3, <1>4, <2>2
    <3>2. Creates(t, s)'
      BY <1>a, <1>6, <3>1 DEF Creates
    <3>3. Passed(t, s)' <=> Passed(t, s) \/ needs
      <4>1. at'[t] - 1 = at[t]
        BY <1>a, <1>2, <3>1
      <4>2. Passed(t, s)' <=> \E i \in 1 .. at'[t] - 1 : DeclaresContextField(Stack[i], s)
        BY DEF Passed
      <4> QED BY <1>11, <4>1, <4>2
    <3>4. CreatedCache(s)'
      BY <1>a, <1>7, <1>10, <1>12, <3>1, <3>3 DEF CreatedCache
    <3>5. OpenCache(s)'
      BY <1>a, <1>2, <3>1 DEF OpenCache
    <3> QED BY <1>2, <1>7, <1>9, <3>2, <3>4, <3>5 DEF CacheOf
  <2> QED BY <2>1, <2>2
<1>14. \A x \in Spans : x # s => CacheOf(x)'
  <2>1. \A x \in Spans : x # s => /\ cache'[x] = cache[x] /\ recorded'[x] = recorded[x]
                                  /\ x \in live' <=> x \in live
                                  /\ x \in mixed' <=> x \in mixed
    BY <1>a, <1>3 DEF CacheInv, CacheOf
  <2>2. \A x \in Spans : x # s => ~Works(t, x) /\ ~Works(t, x)'
    BY <1>a, <1>4, <1>5 DEF Works
  <2> QED BY <1>2, <1>4, <2>1, <2>2, CacheOthers
<1> QED BY <1>13, <1>14

LEMMA RecordingCached ==
    ASSUME SpansInv, CacheInv, NEW t \in Threads, UpdateSpanContext(t)
    PROVE  \A s \in Spans : CacheOf(s)'
<1>1. CallsInv
  BY DEF SpansInv
<1>2. PICK s, values : s = op[t].span /\ values = op[t].values
  OBVIOUS
<1> DEFINE needs == DeclaresContextField(Filter(t), s)
           ahead == {u \in Recorders(s) : Passed(u, s)}
           extra == UNION {DOMAIN op[u].values : u \in ahead}
<1>3. /\ op[t].kind = "record" /\ s \in Spans /\ s \in live /\ values \in Attributes(s)
      /\ at[t] \in 1 .. Len(Stack) /\ Len(Stack) \in Nat
      /\ \A u \in Threads : op[u].kind = "new" => op[u].span # s
  BY <1>1, <1>2, CallIs, StackFacts, NoneIsNoSpan DEF UpdateSpanContext, CallsInv
<1>4. /\ cache' = [cache EXCEPT ![s] = IF ~(needs /\ values # NoFields) THEN @
                                       ELSE IF @ = None THEN values ELSE Over(values, @)]
      /\ recorded' = [recorded EXCEPT ![s] = IF LastFilter(t) THEN Over(values, @) ELSE @]
      /\ live' = live /\ mixed' = mixed
      /\ NextFilter(t)
  BY <1>2 DEF UpdateSpanContext
<1>5. /\ \A u \in Threads : u # t => op'[u] = op[u] /\ at'[u] = at[u]
      /\ LastFilter(t) => op'[t] = Idle /\ at'[t] = 1
      /\ ~LastFilter(t) => op'[t] = op[t] /\ at'[t] = at[t] + 1
  BY <1>1, <1>4, NextCall
<1>6. Idle.kind = "idle" /\ None # NoFields /\ values # None
  BY SpanNoneAssumption, NoFieldsPass, <1>3 DEF Idle
<1>7. /\ CacheOf(s) /\ (cache[s] = None \/ cache[s] \in Attributes(s) \ {NoFields})
      /\ recorded[s] \in Attributes(s) /\ Stored(s) \in Attributes(s)
  BY <1>3, StoredIs DEF CacheInv, CacheOf
<1>8. /\ cache'[s] = (IF ~(needs /\ values # NoFields) THEN cache[s]
                      ELSE IF cache[s] = None THEN values ELSE Over(values, cache[s]))
      /\ recorded'[s] = IF LastFilter(t) THEN Over(values, recorded[s]) ELSE recorded[s]
  BY <1>3, <1>4 DEF CacheInv, CacheOf
<1> HIDE DEF needs
<1>a. \A f, g \in Attributes(s) :
          /\ Over(f, g) \in Attributes(s)
          /\ DOMAIN Over(f, g) = DOMAIN f \cup DOMAIN g
          /\ Over(f, Over(f, g)) = Over(f, g)
  <2> SUFFICES ASSUME NEW f \in Attributes(s), NEW g \in Attributes(s)
               PROVE  /\ Over(f, g) \in Attributes(s)
                      /\ DOMAIN Over(f, g) = DOMAIN f \cup DOMAIN g
                      /\ Over(f, Over(f, g)) = Over(f, g)
    OBVIOUS
  <2> QED BY OverFields
<1>9. recorded'[s] \in Attributes(s)
  BY <1>3, <1>7, <1>8, <1>a
<1>10. cache'[s] = None \/ cache'[s] \in Attributes(s) \ {NoFields}
  <2>1. CASE needs /\ values # NoFields /\ cache[s] # None
    <3>1. cache[s] \in Attributes(s)
      BY <1>7, <2>1
    <3>2. Over(values, cache[s]) \in Attributes(s) /\ DOMAIN values \subseteq DOMAIN Over(values, cache[s])
      BY <1>3, <3>1, <1>a
    <3>3. DOMAIN values # {}
      BY <1>3, <2>1, Fields
    <3>4. Over(values, cache[s]) # NoFields
      BY <3>2, <3>3, NothingHasNoFields
    <3> QED BY <1>8, <2>1, <3>2, <3>4
  <2> QED BY <1>3, <1>7, <1>8, <2>1
<1>11. Stored(s)' = IF needs THEN Over(values, Stored(s)) ELSE Stored(s)
  <2>1. Stored(s)' = IF cache'[s] = None THEN NoFields ELSE cache'[s]
    BY DEF Stored
  <2>2. Stored(s) = IF cache[s] = None THEN NoFields ELSE cache[s]
    BY DEF Stored
  <2>3. Over(NoFields, Stored(s)) = Stored(s) /\ Over(values, NoFields) = values
    BY <1>3, <1>7, NoFieldsPass, OverFields
  <2>4. cache[s] # None => Over(values, cache[s]) # None
    <3>1. cache[s] # None => Over(values, cache[s]) \in Attributes(s)
      BY <1>3, <1>7, <1>a
    <3> QED BY <1>3, <3>1, SpanNoneAssumption
  <2> QED BY <1>6, <1>8, <2>1, <2>2, <2>3, <2>4
<1>12. (\E i \in 1 .. at[t] : DeclaresContextField(Stack[i], s)) <=> Passed(t, s) \/ needs
  <2>1. at[t] \in Nat /\ at[t] >= 1
    BY <1>3
  <2>2. 1 .. at[t] = (1 .. at[t] - 1) \cup {at[t]}
    BY <2>1
  <2> QED BY <2>2 DEF Passed, needs, Filter
<1>13. t \in Recorders(s)
  BY <1>2, <1>3 DEF Recorders, Recording
<1>14. \A u \in Threads : u # t => (Passed(u, s)' <=> Passed(u, s)) /\ op'[u] = op[u]
  BY <1>5 DEF Passed
<1>15. \A u \in Threads : ~Creates(u, s) /\ ~Creates(u, s)'
  BY <1>3, <1>5, <1>6 DEF Creates
<1>16. CreatedCache(s)'
  BY <1>15 DEF CreatedCache
<1>17. /\ DOMAIN Over(values, Stored(s)) = DOMAIN values \cup DOMAIN Stored(s)
       /\ Over(values, Over(values, recorded[s])) = Over(values, recorded[s])
       /\ DOMAIN Over(values, recorded[s]) = DOMAIN values \cup DOMAIN recorded[s]
  BY <1>3, <1>7, <1>a
<1>18. ASSUME Interesting(s)
       PROVE  /\ DOMAIN Stored(s) = DOMAIN recorded[s] \cup extra
              /\ s \notin mixed => \A u \in Recorders(s) : u = t
              /\ s \notin mixed => Stored(s) = IF Passed(t, s) THEN Over(values, recorded[s])
                                               ELSE recorded[s]
  BY <1>2, <1>3, <1>7, <1>13, <1>18 DEF CacheOf, OpenCache
<1>19. Recorders(s) \subseteq Threads /\ (Passed(t, s) => DOMAIN values \subseteq extra)
  <2>1. Passed(t, s) => t \in ahead
    BY <1>13
  <2> QED BY <1>2, <2>1 DEF Recorders, Recording
<1>20. ASSUME LastFilter(t) PROVE CacheOf(s)'
  <2>1. op'[t].kind # "record"
    BY <1>5, <1>6, <1>20
  <2>2. Recorders(s)' = Recorders(s) \ {t}
    BY <1>14, <2>1 DEF Recorders, Recording
  <2>3. ahead' = ahead \ {t}
    BY <1>14, <1>19, <2>2
  <2>4. extra' = UNION {DOMAIN op[u].values : u \in ahead \ {t}}
    <3>1. \A u \in ahead \ {t} : op'[u] = op[u]
      BY <1>14, <1>19
    <3> HIDE DEF ahead
    <3> QED BY <2>3, <3>1
  <2>5. extra \subseteq extra' \cup DOMAIN values /\ extra' \subseteq extra
    <3> HIDE DEF ahead
    <3> QED BY <1>2, <2>4
  <2>6. Interesting(s) => Passed(t, s) \/ needs
    BY <1>12, <1>20 DEF Interesting, LastFilter
  <2> HIDE DEF extra, ahead
  <2>7. Interesting(s) => DOMAIN Stored(s)' = DOMAIN recorded[s]' \cup extra'
    BY <1>8, <1>11, <1>17, <1>18, <1>19, <1>20, <2>5, <2>6
  <2>8. Interesting(s) /\ s \notin mixed => Recorders(s)' = {} /\ Stored(s)' = recorded'[s]
    BY <1>8, <1>11, <1>17, <1>18, <1>20, <2>2, <2>6
  <2>9. OpenCache(s)'
    BY <1>4, <2>7, <2>8 DEF OpenCache, Interesting, extra, ahead
  <2> QED BY <1>3, <1>4, <1>9, <1>10, <1>16, <2>9 DEF CacheOf
<1>21. ASSUME ~LastFilter(t) PROVE CacheOf(s)'
  <2>1. op'[t] = op[t] /\ at'[t] = at[t] + 1 /\ recorded'[s] = recorded[s]
    BY <1>5, <1>8, <1>21
  <2>2. Recorders(s)' = Recorders(s)
    BY <1>14, <2>1 DEF Recorders, Recording
  <2>3. Passed(t, s)' <=> Passed(t, s) \/ needs
    <3>1. at'[t] - 1 = at[t]
      BY <1>3, <2>1
    <3>2. Passed(t, s)' <=> \E i \in 1 .. at'[t] - 1 : DeclaresContextField(Stack[i], s)
      BY DEF Passed
    <3> QED BY <1>12, <3>1, <3>2
  <2>4. ahead' = IF needs THEN ahead \cup {t} ELSE ahead
    BY <1>13, <1>14, <1>19, <2>2, <2>3
  <2>5. extra' = UNION {DOMAIN op[u].values : u \in ahead'}
    <3>1. \A u \in ahead' : op'[u] = op[u]
      BY <1>14, <1>19, <2>1, <2>2
    <3> HIDE DEF ahead
    <3> QED BY <3>1
  <2>6. extra' = IF needs THEN extra \cup DOMAIN values ELSE extra
    <3> HIDE DEF ahead
    <3>1. UNION {DOMAIN op[u].values : u \in ahead \cup {t}} = extra \cup DOMAIN op[t].values
      OBVIOUS
    <3> QED BY <1>2, <2>4, <2>5, <3>1
  <2> HIDE DEF extra, ahead
  <2>7. Interesting(s) => DOMAIN Stored(s)' = DOMAIN recorded[s]' \cup extra'
    BY <1>11, <1>17, <1>18, <2>1, <2>6
  <2>8. Interesting(s) /\ s \notin mixed =>
            Stored(s)' = IF Passed(t, s)' THEN Over(values, recorded[s]) ELSE recorded[s]
    BY <1>11, <1>17, <1>18, <2>3
  <2>9. OpenCache(s)'
    BY <1>2, <1>4, <1>13, <1>18, <2>1, <2>2, <2>7, <2>8 DEF OpenCache, Interesting, extra, ahead
  <2> QED BY <1>3, <1>4, <1>9, <1>10, <1>16, <2>9 DEF CacheOf
<1>22. \A x \in Spans : x # s => CacheOf(x)'
  <2>1. \A x \in Spans : x # s => /\ cache'[x] = cache[x] /\ recorded'[x] = recorded[x]
                                  /\ x \in live' <=> x \in live
                                  /\ x \in mixed' <=> x \in mixed
    BY <1>4 DEF CacheInv, CacheOf
  <2>2. \A x \in Spans : x # s => ~Works(t, x) /\ ~Works(t, x)'
    BY <1>2, <1>5, <1>6 DEF Works
  <2> QED BY <1>3, <1>5, <2>1, <2>2, CacheOthers
<1> QED BY <1>20, <1>21, <1>22

LEMMA CacheStep ==
    ASSUME SpansInv, CacheInv, [Next]_vars
    PROVE  CacheInv'
<1> CallsInv /\ ParentsInv /\ live \subseteq Spans
  BY DEF SpansInv, ParentsInv
<1>1. SUFFICES \A s \in Spans : CacheOf(s)'
  <2>1. DOMAIN recorded' = Spans /\ DOMAIN cache' = Spans
        /\ recorded' = [s \in Spans |-> recorded'[s]] /\ cache' = [s \in Spans |-> cache'[s]]
    <3>1. \/ recorded' = recorded
          \/ \E x, v : recorded' = [recorded EXCEPT ![x] = v]
      BY DEF Next, vars, spans, history, NewSpan, RecordSpanContext, Close, Record,
             UpdateSpanContext, LogEvent, VisitSpan, Decide
    <3>2. \/ cache' = cache
          \/ \E t \in Threads : RecordSpanContext(t) \/ UpdateSpanContext(t)
          \/ \E s \in Spans : Close(s)
      BY DEF Next, vars, spans, NewSpan, Record, LogEvent, VisitSpan, Decide
    <3>3. ASSUME NEW t \in Threads, RecordSpanContext(t) PROVE DOMAIN cache' = DOMAIN cache
                                                 /\ cache' = [s \in DOMAIN cache |-> cache'[s]]
      BY <3>3 DEF RecordSpanContext
    <3>4. ASSUME NEW t \in Threads, UpdateSpanContext(t) PROVE DOMAIN cache' = DOMAIN cache
                                                 /\ cache' = [s \in DOMAIN cache |-> cache'[s]]
      BY <3>4 DEF UpdateSpanContext
    <3>5. ASSUME NEW s \in Spans, Close(s) PROVE DOMAIN cache' = DOMAIN cache
                                                 /\ cache' = [x \in DOMAIN cache |-> cache'[x]]
      BY <3>5 DEF Close
    <3>6. DOMAIN recorded' = DOMAIN recorded /\ recorded' = [s \in DOMAIN recorded |-> recorded'[s]]
      BY <3>1 DEF CacheInv
    <3>7. DOMAIN cache' = DOMAIN cache /\ cache' = [s \in DOMAIN cache |-> cache'[s]]
      BY <3>2, <3>3, <3>4, <3>5 DEF CacheInv
    <3> QED BY <3>6, <3>7 DEF CacheInv
  <2>2. ASSUME \A s \in Spans : CacheOf(s)' PROVE CacheInv'
    <3>1. \A s \in Spans : recorded'[s] \in AllAttributes /\ cache'[s] \in AllAttributes \cup {None}
      BY <2>2 DEF CacheOf, AllAttributes
    <3>2. recorded' \in [Spans -> AllAttributes] /\ cache' \in [Spans -> AllAttributes \cup {None}]
      BY <2>1, <3>1
    <3> QED BY <2>2, <3>2 DEF CacheInv, CacheOf
  <2> QED BY <2>2
<1>2. Idle.kind = "idle" /\ Idle.span = None
  BY DEF Idle
<1>3. ASSUME NEW t \in Threads, NEW x \in Spans, NEW p \in live \cup {None},
             NEW values \in Attributes(x), NewSpan(t, x, p, values)
      PROVE  \A s \in Spans : CacheOf(s)'
  <2>1. /\ x \notin live /\ \A u \in Threads : op[u].span # x
        /\ op' = [op EXCEPT ![t] = [kind |-> "new", span |-> x, values |-> values]]
        /\ UNCHANGED <<live, cache, at, recorded, mixed>> /\ op[t] = Idle
    BY <1>3 DEF NewSpan, history
  <2>2. /\ op'[t] = [kind |-> "new", span |-> x, values |-> values] /\ at[t] = 1
        /\ \A u \in Threads : u # t => op'[u] = op[u]
    BY <1>2, <2>1 DEF CallsInv
  <2>3. \A s \in Spans : s # x => CacheOf(s)'
    <3>1. \A s \in Spans : s # x => ~Works(t, s) /\ ~Works(t, s)'
      BY <1>2, <2>1, <2>2 DEF Works
    <3>2. \A u \in Threads : u # t => op'[u] = op[u] /\ at'[u] = at[u]
      BY <2>1, <2>2
    <3>3. \A s \in Spans : s # x => /\ cache'[s] = cache[s] /\ recorded'[s] = recorded[s]
                                    /\ s \in live' <=> s \in live
                                    /\ s \in mixed' <=> s \in mixed
      BY <2>1
    <3> QED BY <3>1, <3>2, <3>3, CacheOthers
  <2>4. cache[x] = None /\ recorded[x] \in Attributes(x)
    BY <2>1 DEF CacheInv, CacheOf, Creates
  <2>5. Creates(t, x)' /\ ~Passed(t, x)' /\ ~(at'[t] > 1)
    BY <2>1, <2>2 DEF Creates, Passed
  <2>6. \A u \in Threads : u # t => ~Creates(u, x)'
    BY <2>1, <2>2 DEF Creates
  <2>7. Stored(x)' = NoFields
    BY <2>1, <2>4 DEF Stored
  <2>8. CreatedCache(x)'
    BY <2>5, <2>6, <2>7 DEF CreatedCache
  <2> QED BY <2>1, <2>3, <2>4, <2>5, <2>8 DEF CacheOf, OpenCache
<1>4. ASSUME NEW x \in Spans, Close(x)
      PROVE  \A s \in Spans : CacheOf(s)'
  <2>1. /\ live' = live \ {x} /\ cache' = [cache EXCEPT ![x] = None]
        /\ recorded' = [recorded EXCEPT ![x] = NoFields]
        /\ UNCHANGED <<op, at, mixed>>
        /\ \A t \in Threads : op[t].span # x
    BY <1>4 DEF Close
  <2>2. cache'[x] = None /\ recorded'[x] = NoFields
    BY <2>1 DEF CacheInv, CacheOf
  <2>3. \A t \in Threads : ~Creates(t, x)'
    BY <2>1 DEF Creates
  <2>4. CacheOf(x)'
    BY <2>1, <2>2, <2>3, NoFieldsPass DEF CacheOf, OpenCache, CreatedCache
  <2>5. ASSUME NEW s \in Spans, s # x PROVE CacheOf(s)'
    <3>1. /\ cache'[s] = cache[s] /\ recorded'[s] = recorded[s]
          /\ s \in live' <=> s \in live
          /\ s \in mixed' <=> s \in mixed
          /\ \A t \in Threads : op'[t] = op[t] /\ at'[t] = at[t]
      BY <2>1, <2>5 DEF CacheInv, CacheOf
    <3> QED BY <3>1, CacheFrame
  <2> QED BY <2>4, <2>5
<1>5. ASSUME NEW t \in Threads, NEW x \in Spans, NEW values \in Attributes(x), Record(t, x, values)
      PROVE  \A s \in Spans : CacheOf(s)'
  <2>1. /\ op[t] = Idle /\ x \in live
        /\ op' = [op EXCEPT ![t] = [kind |-> "record", span |-> x, values |-> values]]
        /\ mixed' = IF \E u \in Recording : op[u].span = x THEN mixed \cup {x} ELSE mixed
        /\ UNCHANGED <<live, cache, at, recorded>>
    BY <1>5 DEF Record, spans
  <2>2. /\ op'[t] = [kind |-> "record", span |-> x, values |-> values] /\ at[t] = 1
        /\ \A u \in Threads : u # t => op'[u] = op[u]
    BY <1>2, <2>1 DEF CallsInv
  <2>3. \A s \in Spans : s # x => CacheOf(s)'
    <3>1. \A s \in Spans : s # x => ~Works(t, s) /\ ~Works(t, s)'
      BY <1>2, <2>1, <2>2 DEF Works
    <3>2. \A u \in Threads : u # t => op'[u] = op[u] /\ at'[u] = at[u]
      BY <2>1, <2>2
    <3>3. \A s \in Spans : s # x => /\ cache'[s] = cache[s] /\ recorded'[s] = recorded[s]
                                    /\ s \in live' <=> s \in live
                                    /\ s \in mixed' <=> s \in mixed
      BY <2>1
    <3> QED BY <3>1, <3>2, <3>3, CacheOthers
  <2>4. CacheOf(x)
    BY DEF CacheInv, CacheOf
  <2>5. \A u \in Threads : ~Creates(u, x) /\ ~Creates(u, x)'
    BY <2>1, <2>2, <1>2 DEF CallsInv, Creates
  <2>6. Stored(x)' = Stored(x)
    BY <2>1 DEF Stored
  <2>7. Recorders(x)' = Recorders(x) \cup {t} /\ t \notin Recorders(x)
    BY <1>2, <2>1, <2>2 DEF Recorders, Recording
  <2>8. ~Passed(t, x)' /\ \A u \in Recorders(x) : /\ Passed(u, x)' <=> Passed(u, x)
                                                  /\ op'[u] = op[u]
    BY <2>1, <2>2, <2>7 DEF Passed, Recorders, Recording
  <2> DEFINE ahead == {u \in Recorders(x) : Passed(u, x)}
             extra == UNION {DOMAIN op[u].values : u \in ahead}
  <2>9. ahead' = ahead
    BY <2>7, <2>8
  <2>10. extra' = extra
    <3>1. \A u \in ahead : op'[u] = op[u]
      BY <2>8
    <3> HIDE DEF ahead
    <3> QED BY <2>9, <3>1
  <2>11. x \notin mixed' => x \notin mixed /\ Recorders(x) = {}
    BY <2>1 DEF Recorders
  <2>12. OpenCache(x)'
    <3>1. Interesting(x) => DOMAIN Stored(x)' = DOMAIN recorded[x]' \cup extra'
      BY <2>1, <2>4, <2>6, <2>10 DEF CacheOf, OpenCache
    <3>2. Interesting(x) /\ x \notin mixed' => /\ Recorders(x)' = {t}
                                               /\ Stored(x)' = recorded'[x]
      BY <2>1, <2>4, <2>6, <2>7, <2>11 DEF CacheOf, OpenCache
    <3> HIDE DEF extra
    <3>3. Interesting(x)' <=> Interesting(x)
      BY DEF Interesting
    <3> QED BY <2>8, <3>1, <3>2, <3>3 DEF OpenCache, extra, ahead
  <2>13. CacheOf(x)'
    BY <2>1, <2>4, <2>5, <2>12 DEF CacheOf, CreatedCache
  <2> QED BY <2>3, <2>13
<1>6. ASSUME NEW t \in Threads, NEW x \in Spans \cup {None}, NEW e \in Events, LogEvent(t, x, e)
      PROVE  \A s \in Spans : CacheOf(s)'
  <2>1. /\ op[t] = Idle /\ op' = [op EXCEPT ![t] = [kind |-> "event", span |-> x, values |-> e]]
        /\ UNCHANGED <<live, cache, at, recorded, mixed>>
    BY <1>6 DEF LogEvent, spans, history
  <2>2. op'[t].kind = "event" /\ \A u \in Threads : u # t => op'[u] = op[u]
    BY <2>1 DEF CallsInv
  <2>3. \A s \in Spans, u \in Threads : \/ op'[u] = op[u] /\ at'[u] = at[u]
                                        \/ ~Works(u, s) /\ ~Works(u, s)'
    BY <1>2, <2>1, <2>2 DEF Works
  <2> QED BY <2>1, <2>3, CacheFrame
<1>7. ASSUME NEW t \in Threads, Decide(t)
      PROVE  \A s \in Spans : CacheOf(s)'
  <2>1. op[t].kind = "event" /\ NextFilter(t) /\ UNCHANGED <<live, cache, recorded, mixed>>
    BY <1>7 DEF Decide, spans, history
  <2>2. /\ \A u \in Threads : u # t => op'[u] = op[u] /\ at'[u] = at[u]
        /\ op'[t] = Idle \/ op'[t] = op[t]
    BY <2>1, NextCall
  <2>3. \A s \in Spans, u \in Threads : \/ op'[u] = op[u] /\ at'[u] = at[u]
                                        \/ ~Works(u, s) /\ ~Works(u, s)'
    BY <1>2, <2>1, <2>2 DEF Works
  <2> QED BY <2>1, <2>3, CacheFrame
<1>8. CASE UNCHANGED <<live, cache, recorded, mixed, op, at>>
  BY <1>8, CacheFrame
<1>9. ASSUME NEW t \in Threads, VisitSpan(t)
      PROVE  UNCHANGED <<live, cache, recorded, mixed, op, at>>
  BY <1>9 DEF VisitSpan, spans, history
<1>10. CASE UNCHANGED vars
  BY <1>8, <1>10 DEF vars, spans, history
<1> QED BY <1>3, <1>4, <1>5, <1>6, <1>7, <1>8, <1>9, <1>10, CreationCached, RecordingCached DEF Next
-----------------------------------------------------------------------------
(* The walk of an event. *)

\* While a span stays open, what is known of it only grows.
LEMMA Grows ==
    ASSUME SpansInv, CacheInv, [Next]_vars, NEW x \in live, x \in live'
    PROVE  /\ DOMAIN recorded[x] \subseteq DOMAIN recorded'[x]
           /\ DOMAIN Stored(x) \subseteq DOMAIN Stored(x)'
<1>1. CallsInv /\ x \in Spans
  BY DEF SpansInv, ParentsInv
<1>2. CASE recorded'[x] = recorded[x] /\ cache'[x] = cache[x]
  BY <1>2 DEF Stored
<1>3. ASSUME NEW s \in Spans, Close(s)
      PROVE  recorded'[x] = recorded[x] /\ cache'[x] = cache[x]
  <2>1. x # s
    BY <1>3 DEF Close
  <2> QED BY <1>1, <1>3, <2>1 DEF Close, CacheInv, CacheOf
<1>4. ASSUME NEW t \in Threads, RecordSpanContext(t)
      PROVE  recorded'[x] = recorded[x] /\ cache'[x] = cache[x]
  <2>1. x # op[t].span
    BY <1>1, <1>4 DEF CallsInv, RecordSpanContext
  <2> QED BY <1>1, <1>4, <2>1 DEF RecordSpanContext, CacheInv, CacheOf
<1>5. ASSUME NEW t \in Threads, UpdateSpanContext(t)
      PROVE  /\ DOMAIN recorded[x] \subseteq DOMAIN recorded'[x]
             /\ DOMAIN Stored(x) \subseteq DOMAIN Stored(x)'
  <2>1. CASE x # op[t].span
    <3>1. recorded'[x] = recorded[x] /\ cache'[x] = cache[x]
      BY <1>1, <1>5, <2>1 DEF UpdateSpanContext, CacheInv, CacheOf
    <3> QED BY <3>1 DEF Stored
  <2>2. CASE x = op[t].span
    <3>1. PICK values : values = op[t].values
      OBVIOUS
    <3>2. values \in Attributes(x)
      BY <1>1, <1>5, <2>2, <3>1 DEF UpdateSpanContext, CallsInv
    <3>3. recorded'[x] = recorded[x] \/ recorded'[x] = Over(values, recorded[x])
      BY <1>1, <1>5, <2>2, <3>1 DEF UpdateSpanContext, CacheInv, CacheOf
    <3>4. cache'[x] = cache[x] \/ cache[x] = None \/ cache'[x] = Over(values, cache[x])
      BY <1>1, <1>5, <2>2, <3>1 DEF UpdateSpanContext, CacheInv, CacheOf
    <3>5. \A f : DOMAIN f \subseteq DOMAIN Over(values, f)
      BY DEF Over
    <3>6. cache[x] # None => Over(values, cache[x]) # None
      <4>1. cache[x] = None \/ cache[x] \in Attributes(x)
        BY <1>1 DEF CacheInv, CacheOf
      <4>2. CASE cache[x] # None
        <5>1. PICK f \in Attributes(x) : f = cache[x]
          BY <4>1, <4>2
        <5>2. Over(values, f) \in Attributes(x)
          BY <3>2, OverFields
        <5> QED BY <1>1, <5>1, <5>2, SpanNoneAssumption
      <4> QED BY <4>2
    <3>7. Stored(x) = (IF cache[x] = None THEN NoFields ELSE cache[x])
          /\ Stored(x)' = (IF cache'[x] = None THEN NoFields ELSE cache'[x])
      BY DEF Stored
    <3>8. DOMAIN Stored(x) \subseteq DOMAIN Stored(x)'
      BY <3>4, <3>5, <3>6, <3>7, NothingHasNoFields
    <3> QED BY <3>3, <3>5, <3>8
  <2> QED BY <2>1, <2>2
<1>6. ASSUME NEW t \in Threads,
             \/ \E s \in Spans, p \in live \cup {None} :
                   \E values \in Attributes(s) : NewSpan(t, s, p, values)
             \/ \E s \in Spans : \E values \in Attributes(s) : Record(t, s, values)
             \/ \E s \in Spans \cup {None}, e \in Events : LogEvent(t, s, e)
             \/ VisitSpan(t) \/ Decide(t)
      PROVE  recorded'[x] = recorded[x] /\ cache'[x] = cache[x]
  BY <1>6 DEF NewSpan, Record, LogEvent, VisitSpan, Decide, spans, history
<1>7. CASE UNCHANGED vars
  BY <1>2, <1>7 DEF vars, spans, history
<1> QED BY <1>2, <1>3, <1>4, <1>5, <1>6, <1>7 DEF Next

\* The scope of an event stays, and the spans in it stay open.
LEMMA EventScope ==
    ASSUME SpansInv, [Next]_vars, NEW t \in Threads, op[t].kind = "event", op'[t] = op[t]
    PROVE  /\ Scope'[op[t].span] = Scope[op[t].span]
           /\ Scope[op[t].span] \in Seq(live)
           /\ Range(Scope[op[t].span]) \subseteq live \cap live'
<1>1. SpansInv'
  BY SpansStep
<1>2. op[t].span \in live \cup {None} /\ op[t].span \in live' \cup {None}
  BY <1>1 DEF SpansInv, CallsInv
<1>3. Scope'[op[t].span] = Scope[op[t].span]
  BY <1>2, ScopeStep
<1>4. \A s \in live \cup {None} : Scope[s] \in Seq(live) /\ Range(Scope[s]) \subseteq live
  BY ScopeOpen
<1>5. (\A s \in live \cup {None} : Scope[s] \in Seq(live) /\ Range(Scope[s]) \subseteq live)'
  BY <1>1, ScopesOpen, PTL
<1> QED BY <1>2, <1>3, <1>4, <1>5

\* A walk that a step leaves alone still finds what it found.
LEMMA WalkFrame ==
    ASSUME SpansInv, CacheInv, [Next]_vars, NEW t \in Threads, op[t].kind = "event", WalkOf(t),
           op'[t] = op[t], at'[t] = at[t],
           rest'[t] = rest[t], context'[t] = context[t], expected'[t] = expected[t]
    PROVE  WalkOf(t)'
<1>1. PICK s : s = op[t].span
  OBVIOUS
<1>2. Scope'[s] = Scope[s] /\ Range(Scope[s]) \subseteq live \cap live'
  BY <1>1, EventScope
<1>3. \A x \in Range(Scope[s]) : /\ DOMAIN recorded[x] \subseteq DOMAIN recorded'[x]
                                 /\ DOMAIN Stored(x) \subseteq DOMAIN Stored(x)'
  BY <1>2, Grows
<1>4. \A i \in 1 .. Len(rest[t]) : rest[t][i] \in Range(Scope[s])
  BY <1>1 DEF WalkOf
<1>5. rest'[t] \in Seq(Range(Scope'[op'[t].span]))
  BY <1>1, <1>2 DEF WalkOf
<1>6. Filter(t)' = Filter(t)
  BY DEF Filter
<1>7. \A n \in DOMAIN expected'[t] : \E x \in Range(Scope'[op'[t].span]) : n \in DOMAIN recorded'[x]
  BY <1>1, <1>2, <1>3 DEF WalkOf
<1>8. \A n \in DOMAIN expected'[t] \cap ContextFields[Filter(t)'] :
          \/ n \in DOMAIN context'[t]
          \/ \E i \in 1 .. Len(rest'[t]) : n \in DOMAIN (Stored(rest[t][i]))'
  <2> SUFFICES ASSUME NEW n \in DOMAIN expected[t] \cap ContextFields[Filter(t)],
                      n \notin DOMAIN context[t]
               PROVE  \E i \in 1 .. Len(rest'[t]) : n \in DOMAIN (Stored(rest[t][i]))'
    BY <1>6
  <2>1. PICK i \in 1 .. Len(rest[t]) : n \in DOMAIN Stored(rest[t][i])
    BY DEF WalkOf
  <2>2. PICK x \in Range(Scope[s]) : x = rest[t][i]
    BY <1>4
  <2>3. n \in DOMAIN Stored(x)'
    BY <1>3, <2>1, <2>2
  <2>4. rest'[t][i] = x
    BY <2>2
  <2> QED BY <2>1, <2>3, <2>4 DEF Stored
<1> QED BY <1>5, <1>6, <1>7, <1>8 DEF WalkOf

\* A walk that begins has ahead what its filter wants of the scope.
LEMMA WalkBegins ==
    ASSUME SpansInv, CacheInv, NEW k \in 1 .. Len(Stack), NEW s \in live \cup {None}
    PROVE  /\ WalkFrom(Stack[k], s) \in Seq(Range(Scope[s]))
           /\ \A n \in ContextFields[Stack[k]], x \in Range(Scope[s]) : n \in DOMAIN recorded[x] =>
                 \E i \in 1 .. Len(WalkFrom(Stack[k], s)) : n \in DOMAIN Stored(WalkFrom(Stack[k], s)[i])
<1>1. Scope[s] \in Seq(live) /\ Range(Scope[s]) \subseteq live /\ live \subseteq Spans
  BY ScopeOpen DEF SpansInv, ParentsInv
<1>2. Scope[s] \in Seq(Range(Scope[s])) /\ <<>> \in Seq(Range(Scope[s]))
  BY <1>1 DEF Range
<1>3. ASSUME NEW n \in ContextFields[Stack[k]], NEW x \in Range(Scope[s]), n \in DOMAIN recorded[x]
      PROVE  \E i \in 1 .. Len(WalkFrom(Stack[k], s)) : n \in DOMAIN Stored(WalkFrom(Stack[k], s)[i])
  <2>1. WalkFrom(Stack[k], s) = Scope[s]
    BY <1>3 DEF WalkFrom
  <2>2. PICK i \in 1 .. Len(Scope[s]) : Scope[s][i] = x
    BY <1>1 DEF Range
  <2>3. n \in Declared[x] /\ x \in live
    BY <1>1, <1>3, AttributesAre DEF CacheInv, CacheOf
  <2>4. Interesting(x)
    BY <1>3, <2>3 DEF Interesting, DeclaresContextField
  <2>5. DOMAIN recorded[x] \subseteq DOMAIN Stored(x)
    BY <1>1, <2>3, <2>4 DEF CacheInv, CacheOf, OpenCache
  <2> QED BY <1>3, <2>1, <2>2, <2>5
<1> QED BY <1>2, <1>3 DEF WalkFrom

LEMMA WalkInit == Init => WalkInv
<1> SUFFICES ASSUME Init PROVE WalkInv
  OBVIOUS
<1>1. \A t \in Threads : op[t].kind = "idle"
  BY DEF Init, Idle
<1> QED BY <1>1 DEF Init, WalkInv

\* Filter f visits span x of the scope of s, the event's span, and finds what is
\* stored of it: the fields collected are those of the context and what f
\* wants of the span.
Visited(t, s, x, f, stored, collected) ==
    /\ s = op[t].span /\ x = Head(rest[t]) /\ f = Filter(t)
    /\ stored = Stored(x) /\ collected = context'[t]
    /\ x \in Range(Scope[s]) /\ x \in live /\ stored \in Attributes(x)
    /\ DOMAIN collected = DOMAIN context[t] \cup (DOMAIN stored \cap ContextFields[f])
    /\ \A n \in DOMAIN context[t] : collected[n] = context[t][n]
    /\ \A n \in DOMAIN collected \ DOMAIN context[t] : collected[n] = stored[n]
    /\ DOMAIN collected \subseteq ContextFields[f]
    /\ rest[t] # <<>> /\ rest[t] \in Seq(Range(Scope[s]))
    /\ \/ rest'[t] = Tail(rest[t])
       \/ rest'[t] = <<>> /\ DOMAIN collected = ContextFields[f]

\* One span more is collected.
LEMMA VisitCollects ==
    ASSUME SpansInv, CacheInv, NEW t \in Threads, VisitSpan(t), WalkOf(t),
           DOMAIN context = Threads, DOMAIN rest = Threads
    PROVE  \E s, x, f, stored, collected : Visited(t, s, x, f, stored, collected)
<1>a. PICK s, x, f, stored, collected :
          /\ s = op[t].span /\ x = Head(rest[t]) /\ f = Filter(t)
          /\ stored = Stored(x) /\ collected = context'[t]
  OBVIOUS
<1>1. /\ rest[t] \in Seq(Range(Scope[s])) /\ rest[t] # <<>>
      /\ DOMAIN context[t] \subseteq ContextFields[f]
  BY <1>a DEF WalkOf, VisitSpan
<1>2. x \in Range(Scope[s])
  BY <1>a, <1>1
<1>3. Range(Scope[s]) \subseteq live /\ live \subseteq Spans
  <2>1. s \in live \cup {None}
    BY <1>a DEF SpansInv, CallsInv, VisitSpan
  <2> QED BY <2>1, ScopeOpen DEF SpansInv, ParentsInv
<1>4. stored \in Attributes(x)
  BY <1>a, <1>2, <1>3, StoredIs
<1>5. collected = Over(context[t], Restrict(stored, DOMAIN stored \cap ContextFields[f]))
  BY <1>a DEF VisitSpan
<1>6. /\ DOMAIN collected = DOMAIN context[t] \cup (DOMAIN stored \cap ContextFields[f])
      /\ \A n \in DOMAIN context[t] : collected[n] = context[t][n]
      /\ \A n \in DOMAIN collected \ DOMAIN context[t] : collected[n] = stored[n]
  BY <1>5 DEF Over, Restrict
<1>7. DOMAIN collected \subseteq ContextFields[f]
  BY <1>1, <1>6
<1>8. rest'[t] = IF Cardinality(DOMAIN collected) = Cardinality(ContextFields[f])
                 THEN <<>> ELSE Tail(rest[t])
  BY <1>a DEF VisitSpan
<1>9. IsFiniteSet(ContextFields[f])
  BY <1>a, StackFacts, FieldsAssumption DEF Filter, SpansInv, CallsInv
<1>10. ASSUME Cardinality(DOMAIN collected) = Cardinality(ContextFields[f])
       PROVE  DOMAIN collected = ContextFields[f]
  BY <1>7, <1>9, <1>10, FS_Subset
<1>11. Visited(t, s, x, f, stored, collected)
  BY <1>a, <1>1, <1>2, <1>3, <1>4, <1>6, <1>7, <1>8, <1>10 DEF Visited
<1> QED BY <1>11

LEMMA VisitStep ==
    ASSUME SpansInv, CacheInv, WalkInv, [Next]_vars, NEW t \in Threads, VisitSpan(t)
    PROVE  WalkOf(t)'
<1>1. WalkOf(t) /\ op[t].kind = "event" /\ DOMAIN context = Threads /\ DOMAIN rest = Threads
  BY DEF WalkInv, VisitSpan
<1>2. PICK s, x, f, stored, collected : Visited(t, s, x, f, stored, collected)
  BY <1>1, VisitCollects
<1>3. /\ x \in Range(Scope[s]) /\ stored \in Attributes(x)
      /\ DOMAIN collected = DOMAIN context[t] \cup (DOMAIN stored \cap ContextFields[f])
      /\ \A n \in DOMAIN context[t] : collected[n] = context[t][n]
      /\ \A n \in DOMAIN collected \ DOMAIN context[t] : collected[n] = stored[n]
      /\ rest[t] # <<>> /\ rest[t] \in Seq(Range(Scope[s]))
      /\ \/ rest'[t] = Tail(rest[t])
         \/ rest'[t] = <<>> /\ DOMAIN collected = ContextFields[f]
  BY <1>2 DEF Visited
<1>4. UNCHANGED <<live, parent, cache, op, at, expected, recorded>>
  BY DEF VisitSpan, spans, history
<1>5. Scope' = Scope
  BY <1>4 DEF Scope
<1>6. rest'[t] \in Seq(Range(Scope'[op'[t].span]))
  <2>1. \A S, r : r \in Seq(S) /\ r # <<>> => Tail(r) \in Seq(S) /\ <<>> \in Seq(S)
    OBVIOUS
  <2>2. rest'[t] \in Seq(Range(Scope[s]))
    BY <1>3, <2>1
  <2> QED BY <1>2, <1>4, <1>5, <2>2 DEF Visited
<1>7. Filter(t)' = f
  BY <1>2, <1>4 DEF Filter, Visited
<1>8. Range(collected) \subseteq Values
  <2>1. \A n \in DOMAIN context[t] : context[t][n] \in Values
    BY <1>1 DEF WalkOf, Range
  <2>2. \A n \in DOMAIN stored : stored[n] \in Values
    BY <1>3, Fields
  <2> QED BY <1>3, <2>1, <2>2 DEF Range
<1>9. \A n \in DOMAIN expected'[t] : \E y \in Range(Scope'[op'[t].span]) : n \in DOMAIN recorded'[y]
  BY <1>1, <1>4, <1>5 DEF WalkOf
<1>10. ASSUME NEW n \in DOMAIN expected'[t] \cap ContextFields[f], n \notin DOMAIN collected
       PROVE  \E i \in 1 .. Len(rest'[t]) : n \in DOMAIN Stored(rest[t][i])'
  <2>1. n \notin DOMAIN context[t] /\ n \notin DOMAIN stored /\ rest'[t] = Tail(rest[t])
    BY <1>3, <1>10
  <2>2. PICK i \in 1 .. Len(rest[t]) : n \in DOMAIN Stored(rest[t][i])
    BY <1>1, <1>2, <1>4, <1>10, <2>1 DEF WalkOf, Visited
  <2>3. i # 1
    BY <1>2, <1>3, <2>1, <2>2 DEF Visited
  <2>4. PICK r \in Seq(Range(Scope[s])) : r = rest[t]
    BY <1>3
  <2>5. i - 1 \in 1 .. Len(Tail(r)) /\ Tail(r)[i - 1] = r[i]
    BY <1>3, <2>2, <2>3, <2>4
  <2> QED BY <1>4, <2>1, <2>2, <2>4, <2>5 DEF Stored
<1> QED BY <1>2, <1>3, <1>6, <1>7, <1>8, <1>9, <1>10 DEF WalkOf, Visited

\* The walk of the first filter of a new event.
LEMMA LogStep ==
    ASSUME SpansInv, CacheInv, WalkInv, NEW t \in Threads, NEW s \in Spans \cup {None},
           NEW e \in Events, LogEvent(t, s, e)
    PROVE  WalkOf(t)' /\ op'[t].kind = "event"
<1>1. /\ op' = [op EXCEPT ![t] = [kind |-> "event", span |-> s, values |-> e]]
      /\ op[t] = Idle /\ s \in live \cup {None}
      /\ rest' = [rest EXCEPT ![t] = WalkFrom(Stack[1], s)]
      /\ context' = [context EXCEPT ![t] = NoFields]
      /\ expected' = [expected EXCEPT ![t] = Innermost(Held(s))]
      /\ UNCHANGED <<live, parent, cache, at, recorded>>
  BY DEF LogEvent, spans, history
<1>2. /\ op'[t] = [kind |-> "event", span |-> s, values |-> e] /\ at[t] = 1
      /\ rest'[t] = WalkFrom(Stack[1], s) /\ context'[t] = NoFields
      /\ expected'[t] = Innermost(Held(s))
  <2>1. DOMAIN op = Threads /\ (op[t].kind = "idle" => at[t] = 1)
    BY DEF SpansInv, CallsInv
  <2>2. Idle.kind = "idle"
    BY DEF Idle
  <2>3. at[t] = 1
    BY <1>1, <2>1, <2>2
  <2>4. op'[t] = [kind |-> "event", span |-> s, values |-> e]
    BY <1>1, <2>1
  <2>5. rest'[t] = WalkFrom(Stack[1], s) /\ context'[t] = NoFields
        /\ expected'[t] = Innermost(Held(s))
    BY <1>1 DEF WalkInv
  <2> QED BY <2>3, <2>4, <2>5
<1>3. Scope' = Scope
  BY <1>1 DEF Scope
<1>4. Filter(t)' = Stack[1] /\ 1 \in 1 .. Len(Stack)
  BY <1>1, <1>2, StackFacts DEF Filter
<1> DEFINE walk == WalkFrom(Stack[1], s)
<1>5. /\ walk \in Seq(Range(Scope[s]))
      /\ \A n \in ContextFields[Stack[1]], x \in Range(Scope[s]) : n \in DOMAIN recorded[x] =>
            \E i \in 1 .. Len(walk) : n \in DOMAIN Stored(walk[i])
  BY <1>1, <1>4, WalkBegins
<1> HIDE DEF walk
<1>6. \A n \in DOMAIN expected'[t] : \E x \in Range(Scope[s]) : n \in DOMAIN recorded[x]
  <2>1. DOMAIN expected'[t] = UNION {DOMAIN Held(s)[i] : i \in DOMAIN Held(s)}
    BY <1>2 DEF Innermost
  <2>2. DOMAIN Held(s) = DOMAIN Scope[s] /\ \A i \in DOMAIN Scope[s] : Held(s)[i] = recorded[Scope[s][i]]
    BY DEF Held
  <2> QED BY <2>1, <2>2 DEF Range
<1>7. \A n \in DOMAIN expected'[t] \cap ContextFields[Stack[1]] :
          \E i \in 1 .. Len(rest'[t]) : n \in DOMAIN Stored(rest'[t][i])
  BY <1>2, <1>5, <1>6 DEF walk
<1>8. \A y : Stored(y)' = Stored(y)
  BY <1>1 DEF Stored
<1>9. rest'[t] \in Seq(Range(Scope'[op'[t].span]))
  BY <1>2, <1>3, <1>5 DEF walk
<1>10. \A n \in DOMAIN expected'[t] : \E x \in Range(Scope'[op'[t].span]) : n \in DOMAIN recorded'[x]
  BY <1>1, <1>2, <1>3, <1>6
<1>11. DOMAIN context'[t] = {} /\ Range(context'[t]) \subseteq Values
  BY <1>2, NothingHasNoFields DEF Range
<1>12. \A n \in DOMAIN expected'[t] \cap ContextFields[Stack[1]] :
          \E i \in 1 .. Len(rest'[t]) : n \in DOMAIN Stored(rest[t][i])'
  BY <1>1, <1>7 DEF Stored
<1> QED BY <1>2, <1>4, <1>9, <1>10, <1>11, <1>12 DEF WalkOf

\* The walk of the next filter.
LEMMA DecideStep ==
    ASSUME SpansInv, CacheInv, WalkInv, NEW t \in Threads, Decide(t), ~LastFilter(t)
    PROVE  WalkOf(t)' /\ op' = op
<1>1. PICK s : s = op[t].span
  OBVIOUS
<1>2. /\ op[t].kind = "event" /\ NextFilter(t) /\ s \in live \cup {None}
      /\ rest' = [rest EXCEPT ![t] = WalkFrom(Stack[at[t] + 1], s)]
      /\ context' = [context EXCEPT ![t] = NoFields]
      /\ UNCHANGED <<live, parent, cache, recorded>>
  BY <1>1 DEF Decide, spans, history, SpansInv, CallsInv
<1>3. /\ op' = op /\ at'[t] = at[t] + 1 /\ at[t] \in 1 .. Len(Stack) /\ at[t] # Len(Stack)
      /\ Len(Stack) \in Nat
  BY <1>2, StackFacts DEF NextFilter, SpansInv, CallsInv, LastFilter
<1>4. PICK k \in 1 .. Len(Stack) : k = at[t] + 1
  BY <1>3
<1>5. rest'[t] = WalkFrom(Stack[k], s) /\ context'[t] = NoFields /\ expected'[t] = expected[t]
  BY <1>2, <1>4 DEF WalkInv, Decide
<1>6. Scope' = Scope
  BY <1>2 DEF Scope
<1>7. Filter(t)' = Stack[k]
  BY <1>3, <1>4 DEF Filter
<1> DEFINE walk == WalkFrom(Stack[k], s)
<1>8. /\ walk \in Seq(Range(Scope[s]))
      /\ \A n \in ContextFields[Stack[k]], x \in Range(Scope[s]) : n \in DOMAIN recorded[x] =>
            \E i \in 1 .. Len(walk) : n \in DOMAIN Stored(walk[i])
  BY <1>2, WalkBegins
<1> HIDE DEF walk
<1>9. \A n \in DOMAIN expected'[t] : \E x \in Range(Scope[s]) : n \in DOMAIN recorded[x]
  BY <1>1, <1>2, <1>5 DEF WalkInv, WalkOf
<1>10. rest'[t] \in Seq(Range(Scope'[op'[t].span]))
  BY <1>1, <1>3, <1>5, <1>6, <1>8 DEF walk
<1>11. \A n \in DOMAIN expected'[t] : \E x \in Range(Scope'[op'[t].span]) : n \in DOMAIN recorded'[x]
  BY <1>1, <1>2, <1>3, <1>6, <1>9
<1>12. DOMAIN context'[t] = {} /\ Range(context'[t]) \subseteq Values
  BY <1>5, NothingHasNoFields DEF Range
<1>13. \A n \in DOMAIN expected'[t] \cap ContextFields[Stack[k]] :
          \E i \in 1 .. Len(rest'[t]) : n \in DOMAIN Stored(rest'[t][i])
  BY <1>5, <1>8, <1>9 DEF walk
<1>14. \A n \in DOMAIN expected'[t] \cap ContextFields[Stack[k]] :
          \E i \in 1 .. Len(rest'[t]) : n \in DOMAIN Stored(rest[t][i])'
  BY <1>2, <1>13 DEF Stored
<1> QED BY <1>3, <1>7, <1>10, <1>11, <1>12, <1>14 DEF WalkOf

LEMMA WalkStep ==
    ASSUME SpansInv, CacheInv, WalkInv, [Next]_vars
    PROVE  WalkInv'
<1> DEFINE Walk(u) == IF op[u].kind = "event" THEN WalkOf(u)
                      ELSE rest[u] = <<>> /\ context[u] = NoFields
           Same(u) == /\ op'[u] = op[u] /\ at'[u] = at[u] /\ rest'[u] = rest[u]
                      /\ context'[u] = context[u] /\ expected'[u] = expected[u]
<1>1. SUFFICES \A u \in Threads : Walk(u)'
  <2>1. /\ Threads = DOMAIN rest' /\ Threads = DOMAIN context'
        /\ Threads = DOMAIN signature' /\ Threads = DOMAIN expected'
    <3>1. \/ UNCHANGED event
          \/ \E t \in Threads :
                \/ VisitSpan(t) \/ Decide(t)
                \/ \E s \in Spans \cup {None}, e \in Events : LogEvent(t, s, e)
      BY DEF Next, vars, NewSpan, RecordSpanContext, Close, Record, UpdateSpanContext
    <3>2. CASE UNCHANGED event
      BY <3>2 DEF event, WalkInv
    <3>3. ASSUME NEW t \in Threads, VisitSpan(t) \/ Decide(t)
          PROVE  /\ Threads = DOMAIN rest' /\ Threads = DOMAIN context'
                 /\ Threads = DOMAIN signature' /\ Threads = DOMAIN expected'
      BY <3>3 DEF VisitSpan, Decide, WalkInv
    <3>4. ASSUME NEW t \in Threads, NEW s \in Spans \cup {None}, NEW e \in Events, LogEvent(t, s, e)
          PROVE  /\ Threads = DOMAIN rest' /\ Threads = DOMAIN context'
                 /\ Threads = DOMAIN signature' /\ Threads = DOMAIN expected'
      BY <3>4 DEF LogEvent, WalkInv
    <3> QED BY <3>1, <3>2, <3>3, <3>4
  <2> QED BY <2>1 DEF WalkInv
<1>2. \A u \in Threads : Walk(u)
  BY DEF WalkInv
<1>3. ASSUME NEW u \in Threads, Same(u) PROVE Walk(u)'
  <2>1. CASE op[u].kind = "event"
    <3>1. WalkOf(u)
      BY <1>2, <2>1
    <3>2. WalkOf(u)'
      BY <1>3, <2>1, <3>1, WalkFrame
    <3> QED BY <1>3, <2>1, <3>2
  <2>2. CASE op[u].kind # "event"
    BY <1>2, <1>3, <2>2
  <2> QED BY <2>1, <2>2
<1> CallsInv
  BY DEF SpansInv
<1>4. Idle.kind = "idle"
  BY DEF Idle
<1>5. ASSUME NEW t \in Threads, UNCHANGED event, op[t].kind # "event", op'[t].kind # "event",
             \A u \in Threads : u # t => op'[u] = op[u] /\ at'[u] = at[u]
      PROVE  \A u \in Threads : Walk(u)'
  <2>1. \A u \in Threads : u # t => Same(u)
    BY <1>5 DEF event
  <2>2. Walk(t)'
    BY <1>2, <1>5 DEF event
  <2> HIDE DEF Walk, Same
  <2> QED BY <1>3, <2>1, <2>2
<1>6. ASSUME NEW t \in Threads,
             \/ \E s \in Spans, p \in live \cup {None} :
                   \E values \in Attributes(s) : NewSpan(t, s, p, values)
             \/ \E s \in Spans : \E values \in Attributes(s) : Record(t, s, values)
      PROVE  \A u \in Threads : Walk(u)'
  <2>1. /\ op[t] = Idle /\ at' = at /\ UNCHANGED event
        /\ op'[t].kind # "event" /\ \A u \in Threads : u # t => op'[u] = op[u]
    BY <1>6 DEF NewSpan, Record, CallsInv
  <2> HIDE DEF Walk
  <2> QED BY <1>4, <1>5, <2>1
<1>7. ASSUME NEW t \in Threads, RecordSpanContext(t) \/ UpdateSpanContext(t)
      PROVE  \A u \in Threads : Walk(u)'
  <2>1. op[t].kind # "event" /\ NextFilter(t) /\ UNCHANGED event
    BY <1>7 DEF RecordSpanContext, UpdateSpanContext
  <2>2. /\ \A u \in Threads : u # t => op'[u] = op[u] /\ at'[u] = at[u]
        /\ op'[t] = Idle \/ op'[t] = op[t]
    BY <2>1, NextCall
  <2> HIDE DEF Walk
  <2> QED BY <1>4, <1>5, <2>1, <2>2
<1>8. ASSUME NEW t \in Threads, NEW s \in Spans \cup {None}, NEW e \in Events, LogEvent(t, s, e)
      PROVE  \A u \in Threads : Walk(u)'
  <2>1. \A u \in Threads : u # t => Same(u)
    BY <1>8 DEF LogEvent, CallsInv, WalkInv
  <2>2. Walk(t)'
    BY <1>8, LogStep
  <2> HIDE DEF Walk, Same
  <2> QED BY <1>3, <2>1, <2>2
<1>9. ASSUME NEW t \in Threads, VisitSpan(t)
      PROVE  \A u \in Threads : Walk(u)'
  <2>1. \A u \in Threads : u # t => Same(u)
    BY <1>9 DEF VisitSpan, WalkInv
  <2>2. WalkOf(t)'
    BY <1>9, VisitStep
  <2>3. op' = op /\ op[t].kind = "event"
    BY <1>9 DEF VisitSpan
  <2>4. Walk(t)'
    BY <2>2, <2>3
  <2> HIDE DEF Walk, Same
  <2> QED BY <1>3, <2>1, <2>4
<1>10. ASSUME NEW t \in Threads, Decide(t)
       PROVE  \A u \in Threads : Walk(u)'
  <2>1. NextFilter(t) /\ op[t].kind = "event"
    BY <1>10 DEF Decide
  <2>2. \A u \in Threads : u # t => op'[u] = op[u] /\ at'[u] = at[u]
    BY <2>1, NextCall
  <2>3. \A u \in Threads : u # t => /\ rest'[u] = rest[u] /\ context'[u] = context[u]
                                    /\ expected'[u] = expected[u]
    BY <1>10 DEF Decide, WalkInv
  <2>4. \A u \in Threads : u # t => Same(u)
    BY <2>2, <2>3
  <2>5. Walk(t)'
    <3>1. CASE LastFilter(t)
      <4>1. op'[t] = Idle
        BY <2>1, <3>1, NextCall
      <4>2. rest'[t] = <<>> /\ context'[t] = NoFields
        BY <1>10, <3>1 DEF Decide, WalkInv
      <4> QED BY <1>4, <4>1, <4>2
    <3>2. CASE ~LastFilter(t)
      BY <1>10, <2>1, <3>2, DecideStep
    <3> QED BY <3>1, <3>2
  <2> HIDE DEF Walk, Same
  <2> QED BY <1>3, <2>4, <2>5
<1>11. CASE UNCHANGED <<op, at, event>>
  <2>1. \A u \in Threads : Same(u)
    BY <1>11 DEF event
  <2> HIDE DEF Walk, Same
  <2> QED BY <1>3, <2>1
<1>12. ASSUME NEW s \in Spans, Close(s) PROVE UNCHANGED <<op, at, event>>
  BY <1>12 DEF Close
<1>13. CASE UNCHANGED vars
  BY <1>11, <1>13 DEF vars
<1> HIDE DEF Walk, Same
<1> QED BY <1>6, <1>7, <1>8, <1>9, <1>10, <1>11, <1>12, <1>13 DEF Next
-----------------------------------------------------------------------------
(* The signature. *)

LEMMA ExactInit == Init => ExactInv
<1> SUFFICES ASSUME Init PROVE ExactInv
  OBVIOUS
<1>1. \A t \in Threads : op[t].kind = "idle"
  BY DEF Init, Idle
<1> QED BY <1>1 DEF ExactInv, Undisturbed

\* Without calls of Span::record, a filter finds of a span what it holds.
LEMMA StoredExact ==
    ASSUME CacheInv, Recording = {}, NEW x \in live, x \in Spans, x \notin mixed,
           NEW k \in 1 .. Len(Stack), NEW n \in ContextFields[Stack[k]]
    PROVE  /\ n \in DOMAIN Stored(x) <=> n \in DOMAIN recorded[x]
           /\ n \in DOMAIN recorded[x] => Stored(x)[n] = recorded[x][n]
<1>1. Recorders(x) = {}
  BY DEF Recorders
<1>2. CASE Interesting(x)
  <2>1. Stored(x) = recorded[x]
    BY <1>1, <1>2 DEF CacheInv, CacheOf, OpenCache
  <2> QED BY <2>1
<1>3. CASE ~Interesting(x)
  <2>1. n \notin Declared[x]
    BY <1>3 DEF Interesting, DeclaresContextField
  <2>2. Stored(x) \in Attributes(x) /\ recorded[x] \in Attributes(x)
    BY StoredIs DEF CacheInv, CacheOf
  <2>3. DOMAIN Stored(x) \subseteq Declared[x] /\ DOMAIN recorded[x] \subseteq Declared[x]
    BY <2>2, AttributesAre
  <2> QED BY <2>1, <2>3
<1> QED BY <1>2, <1>3

LEMMA HeldFrame ==
    ASSUME NEW s, Scope'[s] = Scope[s],
           \A x \in Range(Scope[s]) : recorded'[x] = recorded[x]
    PROVE  Held(s)' = Held(s)
<1>1. \A i \in DOMAIN Scope[s] : Scope[s][i] \in Range(Scope[s])
  BY DEF Range
<1> QED BY <1>1 DEF Held

\* A walk that begins has collected nothing and has all of the scope ahead.
LEMMA ExactBegins ==
    ASSUME SpansInv, NEW f, NEW s \in live \cup {None}
    PROVE  WalkedTo(0, Scope[s], Held(s), f, NoFields, WalkFrom(f, s)) /\ 0 \in 0 .. Len(Scope[s])
<1>1. PICK scope \in Seq(live) : scope = Scope[s]
  BY ScopeOpen
<1>2. CASE ContextFields[f] = {}
  <2>1. WalkFrom(f, s) = <<>>
    BY <1>2 DEF WalkFrom
  <2> QED BY <1>1, <1>2, <2>1, NothingHasNoFields DEF WalkedTo
<1>3. CASE ContextFields[f] # {}
  <2>1. WalkFrom(f, s) = scope
    BY <1>1, <1>3 DEF WalkFrom
  <2>2. Len(scope) = Len(scope) - 0 /\ \A i \in 1 .. Len(scope) : scope[i] = scope[0 + i]
    OBVIOUS
  <2> QED BY <1>1, <2>1, <2>2, NothingHasNoFields DEF WalkedTo
<1> QED BY <1>2, <1>3

\* A step that leaves an undisturbed event alone leaves it undisturbed.
LEMMA ExactFrame ==
    ASSUME SpansInv, ExactInv, [Next]_vars, NEW t \in Threads, op[t].kind = "event",
           op'[t] = op[t], at'[t] = at[t],
           rest'[t] = rest[t], context'[t] = context[t], expected'[t] = expected[t],
           Undisturbed(t)'
    PROVE  Recording' = {} /\ ExactOf(t)'
<1> CallsInv /\ live \subseteq Spans
  BY DEF SpansInv, ParentsInv
<1> DEFINE Steady == /\ t \notin disturbed' => t \notin disturbed
                     /\ live \cap mixed \subseteq mixed'
                     /\ Recording' \subseteq Recording
                     /\ Recording = {} => \A x \in live \cap live' : recorded'[x] = recorded[x]
<1>1. t \notin disturbed'
  BY DEF Undisturbed
<1>2. Idle.kind = "idle"
  BY DEF Idle
<1>3. ASSUME NEW u \in Threads, NEW s \in Spans, NEW p \in live \cup {None},
             NEW values \in Attributes(s), NewSpan(u, s, p, values)
      PROVE  Steady
  <2>1. /\ op' = [op EXCEPT ![u] = [kind |-> "new", span |-> s, values |-> values]]
        /\ UNCHANGED <<disturbed, mixed, recorded>>
    BY <1>3 DEF NewSpan, history
  <2>2. op'[u].kind = "new" /\ \A v \in Threads : v # u => op'[v] = op[v]
    BY <2>1 DEF CallsInv
  <2> QED BY <2>1, <2>2 DEF Recording
<1>4. ASSUME NEW u \in Threads, RecordSpanContext(u)
      PROVE  Steady
  <2>1. op[u].kind = "new" /\ NextFilter(u) /\ op[u].span \notin live /\ disturbed' = disturbed
        /\ mixed' = mixed \ {op[u].span}
        /\ recorded' = [recorded EXCEPT ![op[u].span] = op[u].values]
    BY <1>4 DEF RecordSpanContext, CallsInv
  <2>2. Recording' \subseteq Recording
    BY <1>2, <2>1, NextCall DEF Recording
  <2> QED BY <2>1, <2>2
<1>5. ASSUME NEW s \in Spans, Close(s)
      PROVE  Steady
  BY <1>5 DEF Close, Recording
<1>6. ASSUME NEW u \in Threads, NEW s \in Spans, NEW values \in Attributes(s), Record(u, s, values)
      PROVE  FALSE
  BY <1>1, <1>6 DEF Record
<1>7. ASSUME NEW u \in Threads, UpdateSpanContext(u)
      PROVE  Steady
  <2>1. op[u].kind = "record" /\ NextFilter(u) /\ UNCHANGED <<disturbed, mixed>>
    BY <1>7 DEF UpdateSpanContext
  <2>2. Recording' \subseteq Recording /\ Recording # {}
    BY <1>2, <2>1, NextCall DEF Recording
  <2> QED BY <2>1, <2>2
<1>8. ASSUME NEW u \in Threads, NEW s \in Spans \cup {None}, NEW e \in Events, LogEvent(u, s, e)
      PROVE  Steady
  <2>1. /\ op[u] = Idle /\ op' = [op EXCEPT ![u] = [kind |-> "event", span |-> s, values |-> e]]
        /\ UNCHANGED <<mixed, recorded>>
        /\ disturbed' = IF Recording = {} THEN disturbed \ {u} ELSE disturbed \cup {u}
    BY <1>8 DEF LogEvent, history
  <2>2. op'[u].kind = "event" /\ \A v \in Threads : v # u => op'[v] = op[v]
    BY <2>1 DEF CallsInv
  <2>3. u # t
    BY <1>2, <2>1
  <2> QED BY <2>1, <2>2, <2>3 DEF Recording
<1>9. ASSUME NEW u \in Threads, VisitSpan(u)
      PROVE  Steady
  BY <1>9 DEF VisitSpan, history, Recording
<1>10. ASSUME NEW u \in Threads, Decide(u)
       PROVE  Steady
  <2>1. op[u].kind = "event" /\ NextFilter(u) /\ UNCHANGED <<disturbed, mixed, recorded>>
    BY <1>10 DEF Decide, history
  <2>2. Recording' \subseteq Recording
    BY <1>2, <2>1, NextCall DEF Recording
  <2> QED BY <2>1, <2>2
<1>11. ASSUME UNCHANGED vars PROVE Steady
  BY <1>11 DEF vars, history, Recording
<1>12. Steady
  <2> HIDE DEF Steady
  <2> QED BY <1>3, <1>4, <1>5, <1>6, <1>7, <1>8, <1>9, <1>10, <1>11 DEF Next
<1>13. PICK s : s = op[t].span
  OBVIOUS
<1>14. Scope'[s] = Scope[s] /\ Range(Scope[s]) \subseteq live \cap live'
  BY <1>13, EventScope
<1>15. Undisturbed(t)
  <2>1. Range(Scope'[s]) \cap mixed' = {}
    BY <1>13 DEF Undisturbed
  <2>2. Range(Scope[s]) \cap mixed = {}
    BY <1>12, <1>14, <2>1
  <2> QED BY <1>1, <1>12, <1>13, <2>2 DEF Undisturbed
<1>16. Recording = {} /\ ExactOf(t)
  BY <1>15 DEF ExactInv
<1>17. Held(s)' = Held(s)
  BY <1>12, <1>14, <1>16, HeldFrame
<1>18. Filter(t)' = Filter(t)
  BY DEF Filter
<1>19. ExactOf(t)'
  BY <1>13, <1>14, <1>16, <1>17, <1>18 DEF ExactOf
<1> QED BY <1>12, <1>16, <1>19

\* A new event that no call of Span::record meets.
LEMMA LogExact ==
    ASSUME SpansInv, WalkInv, NEW t \in Threads, NEW s \in Spans \cup {None},
           NEW e \in Events, LogEvent(t, s, e), Undisturbed(t)'
    PROVE  Recording' = {} /\ ExactOf(t)'
<1>1. /\ op' = [op EXCEPT ![t] = [kind |-> "event", span |-> s, values |-> e]]
      /\ op[t] = Idle /\ s \in live \cup {None}
      /\ rest' = [rest EXCEPT ![t] = WalkFrom(Stack[1], s)]
      /\ context' = [context EXCEPT ![t] = NoFields]
      /\ expected' = [expected EXCEPT ![t] = Innermost(Held(s))]
      /\ disturbed' = IF Recording = {} THEN disturbed \ {t} ELSE disturbed \cup {t}
      /\ UNCHANGED <<live, parent, cache, at, recorded>>
  BY DEF LogEvent, spans, history
<1>2. DOMAIN op = Threads /\ (op[t].kind = "idle" => at[t] = 1)
  BY DEF SpansInv, CallsInv
<1>3. op[t].kind = "idle"
  BY <1>1 DEF Idle
<1>4. /\ op'[t] = [kind |-> "event", span |-> s, values |-> e] /\ at'[t] = 1
      /\ \A u \in Threads : u # t => op'[u] = op[u]
  BY <1>1, <1>2, <1>3
<1>5. rest'[t] = WalkFrom(Stack[1], s) /\ context'[t] = NoFields /\ expected'[t] = Innermost(Held(s))
  BY <1>1 DEF WalkInv
<1>6. Recording = {}
  BY <1>1 DEF Undisturbed
<1>7. Recording' = {}
  BY <1>4, <1>6 DEF Recording
<1>8. Scope' = Scope /\ Held(s)' = Held(s)
  <2>1. Scope' = Scope /\ recorded' = recorded
    BY <1>1 DEF Scope
  <2> QED BY <2>1 DEF Held
<1>9. Filter(t)' = Stack[1]
  BY <1>4 DEF Filter
<1>10. WalkedTo(0, Scope[s], Held(s), Stack[1], NoFields, WalkFrom(Stack[1], s)) /\ 0 \in 0 .. Len(Scope[s])
  BY <1>1, ExactBegins
<1>11. op'[t].span = s
  BY <1>4
<1>12. ExactOf(t)'
  BY <1>5, <1>8, <1>9, <1>10, <1>11 DEF ExactOf
<1> QED BY <1>7, <1>12

\* The next filter begins a walk of its own.
LEMMA DecideExact ==
    ASSUME SpansInv, WalkInv, ExactInv, NEW t \in Threads, Decide(t), ~LastFilter(t), Undisturbed(t)'
    PROVE  Recording' = {} /\ ExactOf(t)'
<1>1. PICK s : s = op[t].span
  OBVIOUS
<1>2. /\ op[t].kind = "event" /\ NextFilter(t) /\ s \in live \cup {None}
      /\ rest' = [rest EXCEPT ![t] = WalkFrom(Stack[at[t] + 1], s)]
      /\ context' = [context EXCEPT ![t] = NoFields]
      /\ UNCHANGED <<live, parent, cache, recorded, mixed, disturbed>>
  BY <1>1 DEF Decide, spans, history, SpansInv, CallsInv
<1>3. op' = op /\ at'[t] = at[t] + 1
  BY <1>2 DEF NextFilter, SpansInv, CallsInv
<1>4. PICK f : f = Stack[at[t] + 1]
  OBVIOUS
<1>5. rest'[t] = WalkFrom(f, s) /\ context'[t] = NoFields /\ expected'[t] = expected[t]
  BY <1>2, <1>4 DEF WalkInv, Decide
<1>6. Scope' = Scope
  BY <1>2 DEF Scope
<1>7. Held(s)' = Held(s)
  BY <1>2, <1>6 DEF Held
<1>8. Filter(t)' = f
  BY <1>3, <1>4 DEF Filter
<1>9. Undisturbed(t)
  BY <1>2, <1>3, <1>6 DEF Undisturbed
<1>10. Recording = {} /\ expected[t] = Innermost(Held(s))
  BY <1>1, <1>9 DEF ExactInv, ExactOf
<1>11. WalkedTo(0, Scope[s], Held(s), f, NoFields, WalkFrom(f, s)) /\ 0 \in 0 .. Len(Scope[s])
  BY <1>2, ExactBegins
<1>12. ExactOf(t)'
  BY <1>1, <1>3, <1>5, <1>6, <1>7, <1>8, <1>10, <1>11 DEF ExactOf
<1> QED BY <1>3, <1>10, <1>12 DEF Recording

\* One span more of the scope.
LEMMA VisitExact ==
    ASSUME SpansInv, CacheInv, WalkInv, ExactInv, [Next]_vars,
           NEW t \in Threads, VisitSpan(t), Undisturbed(t)'
    PROVE  Recording' = {} /\ ExactOf(t)'
<1>1. WalkOf(t) /\ op[t].kind = "event" /\ DOMAIN context = Threads /\ DOMAIN rest = Threads
  BY DEF WalkInv, VisitSpan
<1>2. PICK s, x, f, stored, collected : Visited(t, s, x, f, stored, collected)
  BY <1>1, VisitCollects
<1>3. UNCHANGED <<live, parent, cache, op, at, recorded, mixed, disturbed>> /\ expected' = expected
  BY DEF VisitSpan, spans, history
<1>4. Scope' = Scope
  BY <1>3 DEF Scope
<1>5. Undisturbed(t) /\ Held(s)' = Held(s) /\ Filter(t)' = Filter(t)
  BY <1>3, <1>4 DEF Undisturbed, Held, Filter
<1>6. Recording = {} /\ ExactOf(t)
  BY <1>5 DEF ExactInv
<1>7. PICK scope, held : scope = Scope[s] /\ held = Held(s)
  OBVIOUS
<1>8. s = op[t].span /\ f = Filter(t) /\ x = Head(rest[t]) /\ collected = context'[t] /\ rest[t] # <<>>
  BY <1>2 DEF Visited
<1>9. PICK k \in 0 .. Len(scope) : WalkedTo(k, scope, held, f, context[t], rest[t])
  BY <1>6, <1>7, <1>8 DEF ExactOf
<1>10. scope \in Seq(live) /\ live \subseteq Spans
  <2>1. s \in live \cup {None}
    BY <1>1, <1>8 DEF SpansInv, CallsInv
  <2> QED BY <1>7, <2>1, ScopeOpen DEF SpansInv, ParentsInv
<1>11. PICK ahead \in Seq(Range(scope)) : ahead = rest[t] /\ ahead # <<>>
  BY <1>2, <1>7 DEF Visited
<1>12. PICK found : found = context[t]
  OBVIOUS
<1>13. /\ \A i \in 1 .. k : ContextFields[f] \cap DOMAIN held[i] \subseteq DOMAIN found
       /\ \A n \in DOMAIN found : \E i \in 1 .. k : FirstWith(i, n, held) /\ found[n] = held[i][n]
       /\ Len(ahead) = Len(scope) - k /\ \A i \in 1 .. Len(ahead) : ahead[i] = scope[k + i]
  BY <1>9, <1>11, <1>12 DEF WalkedTo
<1>14. /\ k \in Nat /\ Len(scope) \in Nat /\ Len(ahead) \in Nat /\ Len(ahead) > 0
       /\ k + 1 \in 1 .. Len(scope) /\ x = scope[k + 1] /\ held[k + 1] = recorded[x]
  <2>1. Len(ahead) \in Nat /\ Len(ahead) > 0 /\ Len(scope) \in Nat /\ k \in Nat
    BY <1>10, <1>11
  <2>2. x = ahead[1] /\ k + 1 \in 1 .. Len(scope)
    BY <1>8, <1>11, <1>13, <2>1
  <2>3. x = scope[k + 1]
    BY <1>13, <2>1, <2>2
  <2> QED BY <1>7, <1>10, <2>1, <2>2, <2>3 DEF Held
<1>15. /\ x \in live /\ x \in Spans /\ x \notin mixed /\ stored = Stored(x)
  BY <1>2, <1>5, <1>8, <1>10 DEF Visited, Undisturbed
<1>16. at[t] \in 1 .. Len(Stack) /\ f = Stack[at[t]]
  BY <1>8 DEF Filter, SpansInv, CallsInv
<1>17. \A n \in ContextFields[f] : /\ n \in DOMAIN stored <=> n \in DOMAIN held[k + 1]
                                   /\ n \in DOMAIN stored => stored[n] = held[k + 1][n]
  BY <1>6, <1>14, <1>15, <1>16, StoredExact
<1>18. /\ DOMAIN collected = DOMAIN found \cup (DOMAIN stored \cap ContextFields[f])
       /\ \A n \in DOMAIN found : collected[n] = found[n]
       /\ \A n \in DOMAIN collected \ DOMAIN found : collected[n] = stored[n]
  BY <1>2, <1>12 DEF Visited
<1>19. \A i \in 1 .. k + 1 : ContextFields[f] \cap DOMAIN held[i] \subseteq DOMAIN collected
  <2>1. \A i \in 1 .. k + 1 : i \in 1 .. k \/ i = k + 1
    BY <1>14
  <2> QED BY <1>13, <1>17, <1>18, <2>1
<1>20. \A n \in DOMAIN collected : \E i \in 1 .. k + 1 :
          FirstWith(i, n, held) /\ collected[n] = held[i][n]
  <2> SUFFICES ASSUME NEW n \in DOMAIN collected
               PROVE  \E i \in 1 .. k + 1 : FirstWith(i, n, held) /\ collected[n] = held[i][n]
    OBVIOUS
  <2>1. CASE n \in DOMAIN found
    <3>1. PICK i \in 1 .. k : FirstWith(i, n, held) /\ found[n] = held[i][n]
      BY <1>13, <2>1
    <3>2. i \in 1 .. k + 1
      BY <1>14
    <3> QED BY <1>18, <2>1, <3>1, <3>2
  <2>2. CASE n \notin DOMAIN found
    <3>1. n \in DOMAIN stored /\ n \in ContextFields[f] /\ collected[n] = stored[n]
      BY <1>18, <2>2
    <3>2. \A j \in 1 .. k : n \notin DOMAIN held[j]
      BY <1>13, <2>2, <3>1
    <3>3. k + 1 - 1 = k /\ k + 1 \in 1 .. k + 1
      BY <1>14
    <3>4. FirstWith(k + 1, n, held)
      BY <1>17, <3>1, <3>2, <3>3 DEF FirstWith
    <3> QED BY <1>17, <3>1, <3>3, <3>4
  <2> QED BY <2>1, <2>2
<1>21. \/ Len(rest'[t]) = Len(scope) - (k + 1) /\ \A i \in 1 .. Len(rest'[t]) : rest'[t][i] = scope[(k + 1) + i]
       \/ rest'[t] = <<>> /\ DOMAIN collected = ContextFields[f]
  <2>1. CASE rest'[t] = Tail(ahead)
    <3>1. Len(Tail(ahead)) = Len(ahead) - 1 /\ \A i \in 1 .. Len(Tail(ahead)) : Tail(ahead)[i] = ahead[i + 1]
      BY <1>11
    <3>2. \A i \in 1 .. Len(Tail(ahead)) : i + 1 \in 1 .. Len(ahead) /\ k + (i + 1) = (k + 1) + i
      BY <1>14, <3>1
    <3>3. Len(Tail(ahead)) = Len(scope) - (k + 1)
      BY <1>13, <1>14, <3>1
    <3>4. \A i \in 1 .. Len(Tail(ahead)) : Tail(ahead)[i] = scope[(k + 1) + i]
      BY <1>13, <3>1, <3>2
    <3> QED BY <2>1, <3>3, <3>4
  <2> QED BY <1>2, <1>11, <2>1 DEF Visited
<1>22. WalkedTo(k + 1, scope, held, f, collected, rest'[t]) /\ k + 1 \in 0 .. Len(scope)
  BY <1>14, <1>19, <1>20, <1>21 DEF WalkedTo
<1>23. ExactOf(t)'
  BY <1>3, <1>4, <1>5, <1>6, <1>7, <1>8, <1>22 DEF ExactOf
<1> QED BY <1>3, <1>6, <1>23 DEF Recording

LEMMA ExactStep ==
    ASSUME SpansInv, CacheInv, WalkInv, ExactInv, [Next]_vars
    PROVE  ExactInv'
<1> SUFFICES ASSUME NEW t \in Threads, Undisturbed(t)'
             PROVE  Recording' = {} /\ ExactOf(t)'
  BY DEF ExactInv
<1> DEFINE Same == /\ op'[t] = op[t] /\ at'[t] = at[t] /\ rest'[t] = rest[t]
                   /\ context'[t] = context[t] /\ expected'[t] = expected[t]
<1> CallsInv
  BY DEF SpansInv
<1>1. op'[t].kind = "event"
  BY DEF Undisturbed
<1>2. Idle.kind = "idle"
  BY DEF Idle
<1>3. ASSUME Same PROVE Recording' = {} /\ ExactOf(t)'
  BY <1>1, <1>3, ExactFrame
<1>4. ASSUME NEW u \in Threads, NEW s \in Spans, NEW p \in live \cup {None},
             NEW values \in Attributes(s), NewSpan(u, s, p, values)
      PROVE  Same
  <2>1. /\ op' = [op EXCEPT ![u] = [kind |-> "new", span |-> s, values |-> values]]
        /\ UNCHANGED <<at, event>>
    BY <1>4 DEF NewSpan
  <2>2. op'[u].kind = "new" /\ \A v \in Threads : v # u => op'[v] = op[v]
    BY <2>1 DEF CallsInv
  <2> QED BY <1>1, <2>1, <2>2 DEF event
<1>5. ASSUME NEW u \in Threads, NEW s \in Spans, NEW values \in Attributes(s), Record(u, s, values)
      PROVE  Same
  <2>1. /\ op' = [op EXCEPT ![u] = [kind |-> "record", span |-> s, values |-> values]]
        /\ UNCHANGED <<at, event>>
    BY <1>5 DEF Record
  <2>2. op'[u].kind = "record" /\ \A v \in Threads : v # u => op'[v] = op[v]
    BY <2>1 DEF CallsInv
  <2> QED BY <1>1, <2>1, <2>2 DEF event
<1>6. ASSUME NEW u \in Threads, RecordSpanContext(u) \/ UpdateSpanContext(u)
      PROVE  Same
  <2>1. NextFilter(u) /\ op[u].kind # "event" /\ UNCHANGED event
    BY <1>6 DEF RecordSpanContext, UpdateSpanContext
  <2>2. /\ \A v \in Threads : v # u => op'[v] = op[v] /\ at'[v] = at[v]
        /\ op'[u] = Idle \/ op'[u] = op[u]
    BY <2>1, NextCall
  <2>3. t # u
    BY <1>1, <1>2, <2>1, <2>2
  <2> QED BY <2>1, <2>2, <2>3 DEF event
<1>7. ASSUME NEW u \in Threads, NEW s \in Spans \cup {None}, NEW e \in Events, LogEvent(u, s, e)
      PROVE  Recording' = {} /\ ExactOf(t)'
  <2>1. CASE u = t
    BY <1>7, <2>1, LogExact
  <2>2. CASE u # t
    <3>1. Same
      BY <1>7, <2>2 DEF LogEvent, CallsInv, WalkInv
    <3> QED BY <1>3, <3>1
  <2> QED BY <2>1, <2>2
<1>8. ASSUME NEW u \in Threads, VisitSpan(u)
      PROVE  Recording' = {} /\ ExactOf(t)'
  <2>1. CASE u = t
    BY <1>8, <2>1, VisitExact
  <2>2. CASE u # t
    <3>1. Same
      BY <1>8, <2>2 DEF VisitSpan, WalkInv
    <3> QED BY <1>3, <3>1
  <2> QED BY <2>1, <2>2
<1>9. ASSUME NEW u \in Threads, Decide(u)
      PROVE  Recording' = {} /\ ExactOf(t)'
  <2>1. NextFilter(u)
    BY <1>9 DEF Decide
  <2>2. CASE u = t
    <3>1. ~LastFilter(t)
      BY <1>1, <1>2, <2>1, <2>2, NextCall
    <3> QED BY <1>9, <2>2, <3>1, DecideExact
  <2>3. CASE u # t
    <3>1. op'[t] = op[t] /\ at'[t] = at[t]
      BY <2>1, <2>3, NextCall
    <3>2. rest'[t] = rest[t] /\ context'[t] = context[t] /\ expected'[t] = expected[t]
      BY <1>9, <2>3 DEF Decide, WalkInv
    <3> QED BY <1>3, <3>1, <3>2
  <2> QED BY <2>2, <2>3
<1>10. ASSUME NEW s \in Spans, Close(s)
       PROVE  Same
  BY <1>10 DEF Close, event
<1>11. ASSUME UNCHANGED vars
       PROVE  Same
  BY <1>11 DEF vars, event
<1> HIDE DEF Same
<1> QED BY <1>3, <1>4, <1>5, <1>6, <1>7, <1>8, <1>9, <1>10, <1>11 DEF Next

\* The first of the maps to have a value is one map.
LEMMA FirstIsOne ==
    ASSUME NEW maps, NEW n, NEW i \in Nat, NEW j \in Nat, i >= 1, j >= 1,
           FirstWith(i, n, maps), FirstWith(j, n, maps)
    PROVE  i = j
<1>1. CASE i < j
  <2>1. i \in 1 .. j - 1
    BY <1>1
  <2> QED BY <2>1 DEF FirstWith
<1>2. CASE j < i
  <2>1. j \in 1 .. i - 1
    BY <1>2
  <2> QED BY <2>1 DEF FirstWith
<1> QED BY <1>1, <1>2

\* What filter f wants of the inner-most values.
Collects(f, held, found) ==
    /\ DOMAIN found = ContextFields[f] \cap DOMAIN Innermost(held)
    /\ \A n \in DOMAIN found : found[n] = Innermost(held)[n]

\* It is what a walk has collected at its end.
LEMMA WalkEnds ==
    ASSUME NEW scope, NEW held, NEW f, NEW found, NEW k \in 0 .. Len(scope), Len(scope) \in Nat,
           DOMAIN held = 1 .. Len(scope), DOMAIN found \subseteq ContextFields[f],
           WalkedTo(k, scope, held, f, found, <<>>)
    PROVE  Collects(f, held, found)
<1>1. /\ \A i \in 1 .. k : ContextFields[f] \cap DOMAIN held[i] \subseteq DOMAIN found
      /\ \A n \in DOMAIN found : \E i \in 1 .. k : FirstWith(i, n, held) /\ found[n] = held[i][n]
      /\ k = Len(scope) \/ DOMAIN found = ContextFields[f]
  BY DEF WalkedTo
<1>2. DOMAIN Innermost(held) = UNION {DOMAIN held[i] : i \in DOMAIN held}
  BY DEF Innermost
<1>3. ASSUME NEW n \in DOMAIN found
      PROVE  n \in DOMAIN Innermost(held) /\ found[n] = Innermost(held)[n]
  <2>1. PICK i \in 1 .. k : FirstWith(i, n, held) /\ found[n] = held[i][n]
    BY <1>1
  <2>2. i \in DOMAIN held /\ i \in Nat /\ i >= 1
    OBVIOUS
  <2>3. n \in DOMAIN Innermost(held)
    BY <1>2, <2>1, <2>2 DEF FirstWith
  <2>4. PICK j : j = CHOOSE h \in DOMAIN held : FirstWith(h, n, held)
    OBVIOUS
  <2>5. j \in DOMAIN held /\ FirstWith(j, n, held)
    BY <2>1, <2>2, <2>4
  <2>6. j \in Nat /\ j >= 1
    BY <2>5
  <2>7. i = j
    BY <2>1, <2>2, <2>5, <2>6, FirstIsOne
  <2>8. Innermost(held)[n] = held[j][n]
    BY <1>2, <2>3, <2>4 DEF Innermost
  <2> QED BY <2>1, <2>3, <2>7, <2>8
<1>4. ASSUME NEW n \in ContextFields[f] \cap DOMAIN Innermost(held)
      PROVE  n \in DOMAIN found
  <2>1. PICK i \in DOMAIN held : n \in DOMAIN held[i]
    BY <1>2
  <2>2. CASE k = Len(scope)
    BY <1>1, <2>1, <2>2
  <2> QED BY <1>1, <2>2
<1> QED BY <1>3, <1>4 DEF Collects

LEMMA SignatureStep ==
    ASSUME SpansInv, WalkInv, ExactInv, [Next]_vars, NEW t \in Threads,
           Walked(t), <<op[t], at[t]>>' # <<op[t], at[t]>>,
           t \notin disturbed, Range(Scope[op[t].span]) \cap mixed = {}
    PROVE  signature'[t] = Reference(Filter(t), op[t].values, expected[t])
<1> CallsInv
  BY DEF SpansInv
<1>1. op[t].kind = "event" /\ rest[t] = <<>> /\ ~Bypasses(Filter(t), op[t].values)
  BY DEF Walked
<1>2. Idle.kind = "idle"
  BY DEF Idle
<1>3. Decide(t)
  <2>1. ASSUME NEW u \in Threads, u # t,
               \/ \E s \in Spans, p \in live \cup {None} :
                     \E values \in Attributes(s) : NewSpan(u, s, p, values)
               \/ \E s \in Spans : \E values \in Attributes(s) : Record(u, s, values)
               \/ \E s \in Spans \cup {None}, e \in Events : LogEvent(u, s, e)
               \/ VisitSpan(u)
        PROVE  op'[t] = op[t] /\ at'[t] = at[t]
    BY <2>1 DEF NewSpan, Record, LogEvent, VisitSpan, CallsInv
  <2>2. ASSUME NEW u \in Threads, u # t, RecordSpanContext(u) \/ UpdateSpanContext(u) \/ Decide(u)
        PROVE  op'[t] = op[t] /\ at'[t] = at[t]
    BY <2>2, NextCall DEF RecordSpanContext, UpdateSpanContext, Decide
  <2>3. ASSUME NEW s \in Spans, Close(s) PROVE op'[t] = op[t] /\ at'[t] = at[t]
    BY <2>3 DEF Close
  <2>4. ASSUME \/ \E s \in Spans, p \in live \cup {None} :
                     \E values \in Attributes(s) : NewSpan(t, s, p, values)
               \/ RecordSpanContext(t) \/ UpdateSpanContext(t) \/ VisitSpan(t)
               \/ \E s \in Spans : \E values \in Attributes(s) : Record(t, s, values)
               \/ \E s \in Spans \cup {None}, e \in Events : LogEvent(t, s, e)
        PROVE  FALSE
    BY <1>1, <1>2, <2>4 DEF NewSpan, RecordSpanContext, UpdateSpanContext, VisitSpan, Record, LogEvent
  <2>5. CASE UNCHANGED vars
    BY <2>5 DEF vars
  <2> QED BY <2>1, <2>2, <2>3, <2>4, <2>5 DEF Next
<1>4. PICK s, f, e, found, held : /\ s = op[t].span /\ f = Filter(t) /\ e = op[t].values
                                  /\ found = context[t] /\ held = Held(s)
  OBVIOUS
<1>5. signature'[t] = <<e.target, Over(EventFields(f, e), found)>>
  BY <1>1, <1>3, <1>4 DEF Decide, SignatureOf, WalkInv
<1>6. Undisturbed(t)
  BY <1>1 DEF Undisturbed
<1>7. /\ expected[t] = Innermost(held)
      /\ \E k \in 0 .. Len(Scope[s]) : WalkedTo(k, Scope[s], held, f, found, <<>>)
  BY <1>1, <1>4, <1>6 DEF ExactInv, ExactOf
<1>8. Len(Scope[s]) \in Nat /\ DOMAIN held = 1 .. Len(Scope[s])
  <2>1. s \in live \cup {None}
    BY <1>1, <1>4 DEF CallsInv
  <2>2. PICK scope \in Seq(live) : scope = Scope[s]
    BY <2>1, ScopeOpen
  <2> QED BY <1>4, <2>2 DEF Held
<1>9. DOMAIN found \subseteq ContextFields[f]
  BY <1>1, <1>4 DEF WalkInv, WalkOf
<1>10. /\ DOMAIN found = ContextFields[f] \cap DOMAIN expected[t]
       /\ \A n \in DOMAIN found : found[n] = expected[t][n]
  <2>1. PICK scope : scope = Scope[s]
    OBVIOUS
  <2>2. PICK k \in 0 .. Len(scope) : WalkedTo(k, scope, held, f, found, <<>>)
    BY <1>7, <2>1
  <2>4. Len(scope) \in Nat
    BY <1>8, <2>1
  <2>5. DOMAIN held = 1 .. Len(scope)
    BY <1>8, <2>1
  <2>3. Collects(f, held, found)
    BY <1>9, <2>2, <2>4, <2>5, WalkEnds
  <2> QED BY <1>7, <2>3 DEF Collects
<1> DEFINE own == DOMAIN e.fields \ Excluded[f]
<1>11. /\ DOMAIN EventFields(f, e) = own
       /\ \A n \in own : EventFields(f, e)[n] = e.fields[n]
  BY DEF EventFields, Restrict
<1>12. Over(EventFields(f, e), found) = [n \in own \cup (ContextFields[f] \cap DOMAIN expected[t]) |->
                                            IF n \in own THEN e.fields[n] ELSE expected[t][n]]
  <2> HIDE DEF own
  <2> QED BY <1>10, <1>11 DEF Over
<1> QED BY <1>4, <1>5, <1>12 DEF Reference
-----------------------------------------------------------------------------
(* The theorems. *)

\* The inductive invariant of the span context.
ContextInv == SpansInv /\ CacheInv /\ WalkInv /\ ExactInv

LEMMA ContextInductive == Spec => []ContextInv
<1>1. Init => ContextInv
  BY SpansInit, CacheInit, WalkInit, ExactInit DEF ContextInv
<1>2. ContextInv /\ [Next]_vars => ContextInv'
  BY SpansStep, CacheStep, WalkStep, ExactStep DEF ContextInv
<1> QED BY <1>1, <1>2, PTL DEF Spec

\* Type correctness of the span context: a cache holds attributes of its span,
\* and only an open span or one that a call is about has a cache.
THEOREM TypeCorrect == Spec => []TypeOK
<1>1. ContextInv => TypeOK
  <2> SUFFICES ASSUME ContextInv PROVE TypeOK
    OBVIOUS
  <2>1. live \subseteq Spans /\ parent \in [Spans -> Spans \cup {None}]
    BY DEF ContextInv, SpansInv, ParentsInv
  <2>2. \A s \in Spans : /\ cache[s] = None \/ cache[s] \in Attributes(s) \ {NoFields}
                         /\ cache[s] # None => s \in live \/ \E t \in Threads : op[t].span = s
    BY DEF ContextInv, CacheInv, CacheOf, Creates
  <2>3. ASSUME NEW t \in Threads
        PROVE  /\ op[t].kind \in {"idle", "new", "record", "event"}
               /\ at[t] \in 1 .. Len(Stack)
               /\ \A i \in 1 .. Len(rest[t]) : rest[t][i] \in Spans
               /\ Range(context[t]) \subseteq Values
    <3>1. op[t].kind \in {"idle", "new", "record", "event"} /\ at[t] \in 1 .. Len(Stack)
      BY CallIs DEF ContextInv, SpansInv
    <3>2. CASE op[t].kind = "event"
      <4>1. PICK s \in live \cup {None} : s = op[t].span
        BY <3>2 DEF ContextInv, SpansInv, CallsInv
      <4>2. rest[t] \in Seq(Range(Scope[s])) /\ Range(context[t]) \subseteq Values
        BY <3>2, <4>1 DEF ContextInv, WalkInv, WalkOf
      <4>3. Range(Scope[s]) \subseteq Spans
        BY <2>1, <4>1, ScopeOpen DEF ContextInv
      <4> QED BY <3>1, <4>2, <4>3
    <3>3. CASE op[t].kind # "event"
      <4>1. rest[t] = <<>> /\ context[t] = NoFields
        BY <3>3 DEF ContextInv, WalkInv
      <4> QED BY <3>1, <4>1, NothingHasNoFields DEF Range
    <3> QED BY <3>2, <3>3
  <2> QED BY <2>1, <2>2, <2>3 DEF TypeOK
<1> QED BY <1>1, ContextInductive, PTL

\* The cache of an open span holds all its attributes once no call is under
\* way for it, whichever filters of the stack have made and updated it.
THEOREM CacheComplete == Spec => []CacheHoldsAttributes
<1>1. ContextInv => CacheHoldsAttributes
  <2> SUFFICES ASSUME ContextInv, NEW s \in live, Interesting(s),
                      \A t \in Recording : op[t].span # s
               PROVE  /\ DOMAIN Stored(s) = DOMAIN recorded[s]
                      /\ s \notin mixed => Stored(s) = recorded[s]
    BY DEF CacheHoldsAttributes
  <2>1. s \in Spans
    BY DEF ContextInv, SpansInv, ParentsInv
  <2>2. Recorders(s) = {}
    BY DEF Recorders
  <2>3. OpenCache(s)
    BY <2>1 DEF ContextInv, CacheInv, CacheOf
  <2> QED BY <2>2, <2>3 DEF OpenCache
<1> QED BY <1>1, ContextInductive, PTL

\* A context field that was set in the scope of an event before the event is
\* in its context at the end of every filter's walk, however other threads
\* create spans, close spans and record values meanwhile.
THEOREM ContextIsComplete == Spec => []ContextComplete
<1>1. ContextInv => ContextComplete
  BY DEF ContextInv, WalkInv, WalkOf, Walked, ContextComplete
<1> QED BY <1>1, ContextInductive, PTL

\* Every filter of the stack hands the signature of the inner-most values to
\* its limiter when no value is recorded meanwhile (action property).
THEOREM SignaturesExact == Spec => SignatureExact
<1>1. ContextInv /\ [Next]_vars =>
        [\A t \in Threads :
          /\ Walked(t) /\ <<op[t], at[t]>>' # <<op[t], at[t]>>
          /\ t \notin disturbed /\ Range(Scope[op[t].span]) \cap mixed = {}
          => signature'[t] = Reference(Filter(t), op[t].values, expected[t])]_vars
  BY SignatureStep DEF ContextInv
<1> QED BY <1>1, ContextInductive, PTL DEF Spec, SignatureExact
=============================================================================
