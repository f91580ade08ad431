----------------------- MODULE StatePersistenceProofs -----------------------
(* Proofs about StatePersistence, for any processes, stored values and bounds. *)
EXTENDS StatePersistence, TLAPS

\* A stamp that is read and written again by a process whose BASE is fixed at
\* base comes back unchanged, or as the distance of its two base instants.
LEMMA Renewal ==
    ASSUME NEW b \in Nat, NEW base \in Nat, b <= base, NEW f \in Nat
    PROVE  /\ SaturatingSub(b + f, base) \in Nat
           /\ base + SaturatingSub(b + f, base) >= b
           /\ base + SaturatingSub(b + f, base) - b \in Nat
           /\ base + SaturatingSub(b + f, base) - b \in {f, base - b}
           /\ base + SaturatingSub(b + f, base) - b >= f
           /\ SaturatingSub(base + SaturatingSub(b + f, base), b) =
                 base + SaturatingSub(b + f, base) - b
  BY DEF SaturatingSub

\* The base instants of a process that is up.
LEMMA BaseFacts ==
    ASSUME TypeOK, BasesInv, NEW p \in Processes, base_instant[p] # None
    PROVE  /\ clock \in Nat /\ base_instant[p] \in Nat /\ Base(p) \in Nat
           /\ base_instant[p] <= Base(p) /\ Base(p) <= clock
           /\ earliest \in Nat /\ latest \in Nat
           /\ earliest <= base_instant[p] /\ base_instant[p] <= latest /\ latest <= clock
<1>1. base_instant[p] \in Nat /\ clock \in Nat /\ counter_base[p] \in Nat \cup {None}
  BY DEF TypeOK
<1>2. earliest # None /\ earliest <= base_instant[p] /\ base_instant[p] <= latest
  BY DEF BasesInv
<1>3. earliest \in Nat /\ latest \in Nat /\ latest <= clock
  BY <1>2 DEF BasesInv, TypeOK
<1>4. CASE counter_base[p] = None
  BY <1>1, <1>2, <1>3, <1>4 DEF Base
<1>5. CASE counter_base[p] # None
  BY <1>1, <1>2, <1>3, <1>5 DEF Base, BasesInv
<1> QED BY <1>4, <1>5

\* What a snapshot becomes.
LEMMA SnapshotFacts ==
    ASSUME TypeOK, BasesInv, NEW p \in Processes, base_instant[p] # None,
           NEW v, NEW r \in Nat, NEW l \in Nat, NEW u \in Nat, NEW c,
           v.suppressed_count \in Nat, v.first_suppressed \in Nat, v.last_suppressed \in Nat,
           r <= v.suppressed_count, c = FromSnapshot(p, v, r, l, u)
    PROVE  /\ c \in Counter(Nat)
           /\ c.suppressed_count = v.suppressed_count
           /\ c.reported_count = r
           /\ c.last_suppressed = SaturatingSub(base_instant[p] + v.last_suppressed, Base(p))
           /\ c.first_unreported = SaturatingSub(base_instant[p] + u, Base(p))
<1>1. base_instant[p] \in Nat /\ Base(p) \in Nat
  BY BaseFacts
<1>2. \A f \in Nat : InstantToNanos(p, base_instant[p] + f) = SaturatingSub(base_instant[p] + f, Base(p))
  BY DEF InstantToNanos
<1>3. \A f \in Nat : SaturatingSub(base_instant[p] + f, Base(p)) \in Nat
  BY <1>1 DEF SaturatingSub
<1>4. (IF r < v.suppressed_count THEN r ELSE v.suppressed_count) = r
  OBVIOUS
<1> QED BY <1>2, <1>3, <1>4 DEF FromSnapshot, Counter

\* What the fields of a value are, by its format.
LEMMA ValueFacts ==
    ASSUME TypeOK, SoundInv, value # None
    PROVE  /\ value.format \in {"current", "reported", "legacy"}
           /\ value.suppressed_count \in Nat /\ ReportedOf(value) \in Nat
           /\ ReportedOf(value) <= value.suppressed_count
           /\ value.first_suppressed \in Nat /\ value.last_suppressed \in Nat
           /\ value.format # "legacy" =>
                 /\ value.reported_count \in Nat /\ value.last_reported \in Nat
                 /\ ReportedOf(value) = value.reported_count
           /\ value.format = "current" => value.first_unreported \in Nat
           /\ UnreportedStored = value.suppressed_count - ReportedOf(value)
<1>1. value \in Formats /\ ReportedOf(value) <= value.suppressed_count
  BY DEF TypeOK, SoundInv
<1>2. CASE value \in SerializableEventState
  BY <1>1, <1>2 DEF SerializableEventState, ReportedOf, UnreportedStored
<1>3. CASE value \in ReportedSerializableEventState
  BY <1>1, <1>3 DEF ReportedSerializableEventState, ReportedOf, UnreportedStored
<1>4. CASE value \in LegacySerializableEventState
  BY <1>1, <1>4 DEF LegacySerializableEventState, ReportedOf, UnreportedStored
<1> QED BY <1>1, <1>2, <1>3, <1>4 DEF Formats

\* A new counter.
LEMMA NewFacts ==
    ASSUME NEW S, NEW ts \in S
    PROVE  /\ NewCounter(ts) \in Counter(S)
           /\ NewCounter(ts).suppressed_count = 0 /\ NewCounter(ts).reported_count = 0
           /\ NewCounter(ts).last_suppressed = ts /\ NewCounter(ts).first_unreported = ts
  BY DEF NewCounter, Counter

\* get_with_conn gives a counter with the counts of what is stored, whatever
\* its format; its stamps are those of a value in the current format.
LEMMA ReadFacts ==
    ASSUME TypeOK, BasesInv, SoundInv, NEW p \in Processes, base_instant[p] # None,
           NEW now \in Nat
    PROVE  /\ Read(p, now) \in Counter(Nat)
           /\ OriginRead(now) \in Counter(Nat \cup {None})
           /\ Sound(Read(p, now), OriginRead(now))
           /\ Read(p, now).suppressed_count - Read(p, now).reported_count = UnreportedStored
           /\ value # None =>
                 /\ Read(p, now).suppressed_count = value.suppressed_count
                 /\ Read(p, now).reported_count = ReportedOf(value)
           /\ value = None =>
                 /\ Read(p, now) = NewCounter(InstantToNanos(p, now))
                 /\ OriginRead(now) = NewCounter(now)
           /\ value # None /\ value.format = "current" =>
                 /\ Read(p, now).last_suppressed =
                       SaturatingSub(base_instant[p] + value.last_suppressed, Base(p))
                 /\ Read(p, now).first_unreported =
                       SaturatingSub(base_instant[p] + value.first_unreported, Base(p))
<1>1. base_instant[p] \in Nat /\ Base(p) \in Nat
  BY BaseFacts
<1>2. CASE value = None
  <2>1. Read(p, now) = NewCounter(InstantToNanos(p, now)) /\ OriginRead(now) = NewCounter(now)
    BY <1>2 DEF Read, OriginRead
  <2>2. InstantToNanos(p, now) \in Nat /\ now \in Nat \cup {None}
    BY <1>1 DEF InstantToNanos, SaturatingSub
  <2>3. UnreportedStored = 0
    BY <1>2 DEF UnreportedStored
  <2>4. NewCounter(InstantToNanos(p, now)) \in Counter(Nat)
    BY <2>2, NewFacts
  <2>5. NewCounter(now) \in Counter(Nat \cup {None})
    BY <2>2, NewFacts
  <2>6. Sound(NewCounter(InstantToNanos(p, now)), NewCounter(now))
    BY DEF Sound, NewCounter
  <2> QED BY <1>2, <2>1, <2>3, <2>4, <2>5, <2>6 DEF NewCounter
<1>3. ASSUME value # None, NEW r \in Nat, NEW l \in Nat, NEW u \in Nat, r = ReportedOf(value),
             Read(p, now) = FromSnapshot(p, value, r, l, u)
      PROVE  /\ Read(p, now) \in Counter(Nat)
             /\ OriginRead(now) \in Counter(Nat \cup {None})
             /\ Sound(Read(p, now), OriginRead(now))
             /\ Read(p, now).suppressed_count - Read(p, now).reported_count = UnreportedStored
             /\ Read(p, now).suppressed_count = value.suppressed_count
             /\ Read(p, now).reported_count = ReportedOf(value)
             /\ Read(p, now).last_suppressed =
                   SaturatingSub(base_instant[p] + value.last_suppressed, Base(p))
             /\ Read(p, now).first_unreported = SaturatingSub(base_instant[p] + u, Base(p))
  <2>1. /\ value.suppressed_count \in Nat
        /\ value.first_suppressed \in Nat /\ value.last_suppressed \in Nat
        /\ r <= value.suppressed_count
        /\ UnreportedStored = value.suppressed_count - r
    BY <1>3, ValueFacts
  <2>2. /\ Read(p, now) \in Counter(Nat)
        /\ Read(p, now).suppressed_count = value.suppressed_count
        /\ Read(p, now).reported_count = r
        /\ Read(p, now).last_suppressed =
              SaturatingSub(base_instant[p] + value.last_suppressed, Base(p))
        /\ Read(p, now).first_unreported = SaturatingSub(base_instant[p] + u, Base(p))
    <3> DEFINE c == Read(p, now)
    <3>1. c = FromSnapshot(p, value, r, l, u)
      BY <1>3
    <3> HIDE DEF c
    <3>2. /\ c \in Counter(Nat)
          /\ c.suppressed_count = value.suppressed_count
          /\ c.reported_count = r
          /\ c.last_suppressed = SaturatingSub(base_instant[p] + value.last_suppressed, Base(p))
          /\ c.first_unreported = SaturatingSub(base_instant[p] + u, Base(p))
      BY <2>1, <3>1, SnapshotFacts
    <3> QED BY <3>2 DEF c
  <2>3. OriginRead(now) = origin /\ origin \in Counter(Nat \cup {None})
    BY <1>3 DEF OriginRead, TypeOK
  <2>4. Sound(Read(p, now), origin)
    BY <1>3, <2>1, <2>2 DEF Sound, SoundInv
  <2> QED BY <1>3, <2>1, <2>2, <2>3, <2>4
<1>4. CASE value # None /\ value.format = "current"
  <2>1. /\ value.reported_count \in Nat /\ value.last_reported \in Nat
        /\ value.first_unreported \in Nat /\ value.reported_count = ReportedOf(value)
    BY <1>4, ValueFacts
  <2>2. Read(p, now) =
          FromSnapshot(p, value, value.reported_count, value.last_reported, value.first_unreported)
    BY <1>4 DEF Read, CurrentToEventState
  <2> DEFINE r == value.reported_count
             l == value.last_reported
             u == value.first_unreported
  <2>3. r \in Nat /\ l \in Nat /\ u \in Nat /\ r = ReportedOf(value)
        /\ Read(p, now) = FromSnapshot(p, value, r, l, u)
    BY <2>1, <2>2
  <2>4. u = value.first_unreported
    OBVIOUS
  <2> HIDE DEF r, l, u
  <2> QED BY <1>3, <1>4, <2>3, <2>4
<1>5. CASE value # None /\ value.format = "reported"
  <2> DEFINE r == value.reported_count
             l == value.last_reported
             u == IF r = 0 THEN value.first_suppressed ELSE l
  <2>1. r \in Nat /\ l \in Nat /\ u \in Nat /\ r = ReportedOf(value)
    BY <1>5, ValueFacts
  <2>2. Read(p, now) = FromSnapshot(p, value, r, l, u)
    BY <1>5 DEF Read, ReportedToEventState
  <2> HIDE DEF r, l, u
  <2> QED BY <1>3, <1>5, <2>1, <2>2
<1>6. CASE value # None /\ value.format = "legacy"
  <2> DEFINE l == value.first_suppressed
             r == ReportedOf(value)
  <2>1. l \in Nat /\ r \in Nat /\ r = 0
    BY <1>6, ValueFacts DEF ReportedOf
  <2>2. Read(p, now) = FromSnapshot(p, value, r, l, l)
    BY <1>6, <2>1 DEF Read, LegacyToEventState, ReportedToEventState
  <2>3. r = ReportedOf(value)
    OBVIOUS
  <2> HIDE DEF r, l
  <2> QED BY <1>3, <1>6, <2>1, <2>2, <2>3
<1>7. value = None \/ value.format \in {"current", "reported", "legacy"}
  BY ValueFacts
<1> QED BY <1>2, <1>4, <1>5, <1>6, <1>7

\* The fields of a counter.
LEMMA CounterTypes ==
    ASSUME NEW S, NEW c \in Counter(S)
    PROVE  /\ c.suppressed_count \in Nat /\ c.reported_count \in Nat
           /\ c.first_suppressed \in S /\ c.last_suppressed \in S
           /\ c.last_reported \in S /\ c.first_unreported \in S
  BY DEF Counter

\* The fields of a claim.
LEMMA ClaimTypes ==
    ASSUME NEW S, NEW k \in ClaimedSuppressions(S)
    PROVE  /\ k.previous_reported_count \in Nat /\ k.count \in Nat /\ k.total_count \in Nat
           /\ k.previous_last_reported \in S
           /\ k.first_suppressed \in S /\ k.last_suppressed \in S
  BY DEF ClaimedSuppressions

\* The counts and the stamps that a suppression leaves.
LEMMA SuppressionFacts ==
    ASSUME NEW S, NEW c \in Counter(S), NEW ts \in S
    PROVE  /\ AfterSuppression(c, ts) \in Counter(S)
           /\ AfterSuppression(c, ts).suppressed_count = c.suppressed_count + 1
           /\ AfterSuppression(c, ts).reported_count = c.reported_count
           /\ AfterSuppression(c, ts).last_suppressed = ts
           /\ AfterSuppression(c, ts).first_unreported =
                 IF c.suppressed_count = c.reported_count THEN ts ELSE c.first_unreported
<1>1. /\ AfterSuppression(c, ts).suppressed_count = c.suppressed_count + 1
      /\ AfterSuppression(c, ts).reported_count = c.reported_count
      /\ AfterSuppression(c, ts).last_suppressed = ts
      /\ AfterSuppression(c, ts).first_unreported =
            IF c.suppressed_count = c.reported_count THEN ts ELSE c.first_unreported
  BY DEF Counter, AfterSuppression
<1> DEFINE total == c.suppressed_count + 1
           first == IF c.suppressed_count = 0 THEN ts ELSE c.first_suppressed
           unreported == IF c.suppressed_count = c.reported_count
                            THEN ts ELSE c.first_unreported
           after == [c EXCEPT !.suppressed_count = total, !.first_suppressed = first,
                              !.first_unreported = unreported, !.last_suppressed = ts]
<1>2. total \in Nat /\ first \in S /\ unreported \in S
  BY CounterTypes
<1>3. AfterSuppression(c, ts) = after
  BY DEF AfterSuppression
<1> HIDE DEF total, first, unreported
<1>4. after \in Counter(S)
  BY <1>2 DEF Counter
<1> QED BY <1>1, <1>3, <1>4

\* What a claim takes, and what it leaves.
LEMMA ClaimFacts ==
    ASSUME NEW S, NEW c \in Counter(S), c.reported_count < c.suppressed_count
    PROVE  /\ ClaimOf(c) \in ClaimedSuppressions(S)
           /\ ClaimOf(c).previous_reported_count = c.reported_count
           /\ ClaimOf(c).total_count = c.suppressed_count
           /\ ClaimOf(c).count = c.suppressed_count - c.reported_count
           /\ ClaimOf(c).first_suppressed = c.first_unreported
           /\ ClaimOf(c).last_suppressed = c.last_suppressed
           /\ AfterClaim(c) \in Counter(S)
           /\ AfterClaim(c).suppressed_count = c.suppressed_count
           /\ AfterClaim(c).reported_count = c.suppressed_count
           /\ AfterClaim(c).last_suppressed = c.last_suppressed
           /\ AfterClaim(c).first_unreported = c.last_suppressed
<1>1. c.suppressed_count \in Nat /\ c.reported_count \in Nat
  BY CounterTypes
<1>2. UnreportedCount(c) = c.suppressed_count - c.reported_count /\ UnreportedCount(c) \in Nat
  BY <1>1 DEF UnreportedCount, SaturatingSub
<1>3. /\ AfterClaim(c) \in Counter(S)
      /\ AfterClaim(c).suppressed_count = c.suppressed_count
      /\ AfterClaim(c).reported_count = c.suppressed_count
      /\ AfterClaim(c).last_suppressed = c.last_suppressed
      /\ AfterClaim(c).first_unreported = c.last_suppressed
  BY DEF Counter, AfterClaim
<1>4. ClaimOf(c) \in ClaimedSuppressions(S)
  BY <1>2 DEF ClaimOf, ClaimedSuppressions, Counter
<1> QED BY <1>2, <1>3, <1>4 DEF ClaimOf

\* A claim is granted of what is unreported.
LEMMA GrantFacts ==
    ASSUME NEW c \in Counter(Nat), CanClaim(c, 1)
    PROVE  c.reported_count < c.suppressed_count
<1>1. c.suppressed_count \in Nat /\ c.reported_count \in Nat
  BY CounterTypes
<1>2. UnreportedCount(c) >= 1
  BY DEF CanClaim
<1> QED BY <1>1, <1>2 DEF UnreportedCount, SaturatingSub

\* What rolling a claim back does when the cursor has not fallen below it.
LEMMA RollbackFacts ==
    ASSUME NEW S, NEW c \in Counter(S), NEW k \in ClaimedSuppressions(S),
           c.reported_count >= k.total_count
    PROVE  /\ AfterRollback(c, k) \in Counter(S)
           /\ AfterRollback(c, k).suppressed_count = c.suppressed_count
           /\ AfterRollback(c, k).reported_count = k.previous_reported_count
           /\ AfterRollback(c, k).last_suppressed = c.last_suppressed
           /\ AfterRollback(c, k).first_unreported = k.first_suppressed
<1>1. c.reported_count \in Nat /\ k.total_count \in Nat
  BY CounterTypes, ClaimTypes
<1>2. AfterRollback(c, k) = [c EXCEPT !.reported_count   = k.previous_reported_count,
                                      !.last_reported    = k.previous_last_reported,
                                      !.first_unreported = k.first_suppressed]
  BY <1>1 DEF AfterRollback
<1> QED BY <1>2 DEF Counter, ClaimedSuppressions

\* A copy of the entry, and its parts.
LEMMA CopyFacts ==
    ASSUME NEW c \in Copies
    PROVE  /\ c # None
           /\ c.state \in Counter(Nat) /\ c.origin \in Counter(Nat \cup {None})
           /\ c.claim \in Claims \cup {None}
           /\ c.missed \in Nat /\ c.unclaimed \in Nat
           /\ c.state.suppressed_count \in Nat /\ c.state.reported_count \in Nat
  BY NoneAssumption, CounterTypes DEF Copies

\* Copy makes a copy of the entry.
LEMMA CopyMade ==
    ASSUME NEW state \in Counter(Nat), NEW true \in Counter(Nat \cup {None}),
           NEW with \in Claims \cup {None}, NEW m \in Nat, NEW n \in Nat
    PROVE  /\ Copy(state, true, with, m, n) \in Copies
           /\ Copy(state, true, with, m, n) # None
           /\ Copy(state, true, with, m, n).state = state
           /\ Copy(state, true, with, m, n).origin = true
           /\ Copy(state, true, with, m, n).claim = with
           /\ Copy(state, true, with, m, n).missed = m
           /\ Copy(state, true, with, m, n).unclaimed = n
<1>1. Copy(state, true, with, m, n) \in Copies
  BY DEF Copy, Copies
<1> QED BY <1>1, NoneAssumption DEF Copy

\* A copy that falls behind keeps its state and its claim.
LEMMA BehindFacts ==
    ASSUME NEW c \in Copies \cup {None}, NEW m \in Nat, NEW n \in Nat
    PROVE  /\ Behind(c, m, n) \in Copies \cup {None}
           /\ Behind(c, m, n) = None <=> c = None
           /\ c # None => /\ Behind(c, m, n).state = c.state
                          /\ Behind(c, m, n).origin = c.origin
                          /\ Behind(c, m, n).claim = c.claim
                          /\ Behind(c, m, n).missed = c.missed + m
                          /\ Behind(c, m, n).unclaimed = c.unclaimed + n
<1>1. CASE c = None
  BY <1>1 DEF Behind
<1>2. CASE c # None
  <2>1. c \in Copies /\ c.missed \in Nat /\ c.unclaimed \in Nat
    BY <1>2, CopyFacts
  <2>2. Behind(c, m, n) = [c EXCEPT !.missed = c.missed + m, !.unclaimed = c.unclaimed + n]
    BY <1>2 DEF Behind
  <2> DEFINE mm == c.missed + m
             nn == c.unclaimed + n
             b == [c EXCEPT !.missed = mm, !.unclaimed = nn]
  <2>3. mm \in Nat /\ nn \in Nat
    BY <2>1
  <2>4. Behind(c, m, n) = b
    BY <2>2
  <2> HIDE DEF mm, nn
  <2>5. /\ b \in Copies
        /\ b.state = c.state /\ b.origin = c.origin /\ b.claim = c.claim
        /\ b.missed = mm /\ b.unclaimed = nn
    BY <2>1, <2>3 DEF Copies
  <2>6. b # None
    BY <2>5, NoneAssumption
  <2> QED BY <1>2, <2>4, <2>5, <2>6 DEF mm, nn
<1> QED BY <1>1, <1>2

\* What set_with_conn stores of a copy.
LEMMA WriteFacts ==
    ASSUME TypeOK, BasesInv, NEW p \in Processes, counter_base[p] # None,
           NEW c \in Copies, c.state.reported_count <= c.state.suppressed_count, Write(p, c)
    PROVE  /\ value' \in Formats /\ value' # None
           /\ value'.format = "current"
           /\ value'.suppressed_count = c.state.suppressed_count
           /\ ReportedOf(value') = c.state.reported_count
           /\ value'.reported_count = c.state.reported_count
           /\ value'.last_suppressed = Offset(p, c.state.last_suppressed)
           /\ value'.first_unreported = Offset(p, c.state.first_unreported)
           /\ UnreportedStored' = c.state.suppressed_count - c.state.reported_count
           /\ origin' = c.origin /\ origin' \in Counter(Nat \cup {None})
           /\ overtaken' = overtaken + c.missed /\ repeated' = repeated + c.unclaimed
           /\ overtaken' \in Nat /\ repeated' \in Nat
<1>1. base_instant[p] # None
  BY DEF BasesInv
<1>2. /\ base_instant[p] \in Nat /\ counter_base[p] \in Nat
      /\ base_instant[p] <= counter_base[p] /\ Base(p) = counter_base[p]
  BY <1>1, BaseFacts DEF Base, TypeOK
<1>3. \A n \in Nat : /\ SaturatingSub(NanosToInstant(p, n), base_instant[p]) = Offset(p, n)
                     /\ Offset(p, n) \in Nat
  BY <1>2 DEF NanosToInstant, Offset, SaturatingSub
<1>4. c.state \in Counter(Nat) /\ c.origin \in Counter(Nat \cup {None})
      /\ c.missed \in Nat /\ c.unclaimed \in Nat
  BY CopyFacts
<1>5. /\ c.state.suppressed_count \in Nat /\ c.state.reported_count \in Nat
      /\ c.state.first_suppressed \in Nat /\ c.state.last_suppressed \in Nat
      /\ c.state.last_reported \in Nat /\ c.state.first_unreported \in Nat
  BY <1>4, CounterTypes
<1>6. value' = [format           |-> "current",
                suppressed_count |-> c.state.suppressed_count,
                reported_count   |-> c.state.reported_count,
                first_suppressed |-> Offset(p, c.state.first_suppressed),
                last_suppressed  |-> Offset(p, c.state.last_suppressed),
                last_reported    |-> Offset(p, c.state.last_reported),
                first_unreported |-> Offset(p, c.state.first_unreported)]
  BY <1>3, <1>5 DEF Write, FromEventState
<1>7. value' \in SerializableEventState
  BY <1>3, <1>5, <1>6 DEF SerializableEventState
<1>8. value' \in Formats /\ value' # None
  BY <1>7, NoneAssumption DEF Formats
<1>9. /\ value'.format = "current"
      /\ value'.suppressed_count = c.state.suppressed_count
      /\ value'.reported_count = c.state.reported_count
      /\ value'.last_suppressed = Offset(p, c.state.last_suppressed)
      /\ value'.first_unreported = Offset(p, c.state.first_unreported)
  BY <1>6
<1>10. ReportedOf(value') = c.state.reported_count
  BY <1>9 DEF ReportedOf
<1>11. UnreportedStored' = c.state.suppressed_count - c.state.reported_count
  BY <1>8, <1>9, <1>10 DEF UnreportedStored
<1>12. /\ origin' = c.origin
       /\ overtaken' = overtaken + c.missed /\ repeated' = repeated + c.unclaimed
  BY DEF Write
<1> QED BY <1>4, <1>8, <1>9, <1>10, <1>11, <1>12 DEF TypeOK

\* The conversions of a process that is up fix its BASE.
LEMMA FixFacts ==
    ASSUME TypeOK, BasesInv, NEW p \in Processes, base_instant[p] # None, FixBase(p)
    PROVE  /\ counter_base'[p] = Base(p) /\ Base(p) \in Nat /\ counter_base'[p] # None
           /\ \A q \in Processes : counter_base[q] # None => counter_base'[q] = counter_base[q]
           /\ \A q \in Processes \ {p} : counter_base'[q] = counter_base[q]
           /\ counter_base' \in [Processes -> Nat \cup {None}]
           /\ lateness' \in Nat /\ lateness' >= lateness
           /\ lateness' >= Base(p) - base_instant[p]
<1>1. base_instant[p] \in Nat /\ Base(p) \in Nat /\ lateness \in Nat /\ base_instant[p] <= Base(p)
  BY BaseFacts DEF TypeOK
<1>2. /\ counter_base'[p] = Base(p) /\ counter_base'[p] # None
      /\ \A q \in Processes : counter_base[q] # None => counter_base'[q] = counter_base[q]
      /\ \A q \in Processes \ {p} : counter_base'[q] = counter_base[q]
      /\ counter_base' \in [Processes -> Nat \cup {None}]
  BY <1>1, NoneAssumption DEF FixBase, TypeOK, Base
<1>3. lateness' \in Nat /\ lateness' >= lateness /\ lateness' >= Base(p) - base_instant[p]
  <2> DEFINE d == Base(p) - base_instant[p]
  <2>1. d \in Nat
    BY <1>1
  <2>2. lateness' = Max({lateness, d})
    BY DEF FixBase
  <2> HIDE DEF d
  <2>3. \E x \in {lateness, d} : \A y \in {lateness, d} : x >= y
    BY <1>1, <2>1
  <2>4. Max({lateness, d}) \in {lateness, d} /\ \A y \in {lateness, d} : Max({lateness, d}) >= y
    BY <2>3 DEF Max
  <2>5. lateness' \in Nat /\ lateness' >= lateness /\ lateness' >= d
    BY <1>1, <2>1, <2>2, <2>4
  <2> QED BY <2>5 DEF d
<1> QED BY <1>1, <1>2, <1>3

\* A process that has something in its hands is up, and its BASE is fixed.
LEMMA HandFacts ==
    ASSUME BasesInv, NEW p \in Processes, counter_base[p] # None
    PROVE  base_instant[p] # None /\ Base(p) = counter_base[p]
  BY DEF BasesInv, Base

\* The instants that an event may have read.
LEMMA NowFacts ==
    ASSUME TypeOK, BasesInv, NEW p \in Processes, base_instant[p] # None,
           NEW now \in base_instant[p] .. clock
    PROVE  now \in Nat /\ now >= base_instant[p] /\ InstantToNanos(p, now) \in Nat
<1>1. base_instant[p] \in Nat /\ Base(p) \in Nat /\ clock \in Nat
  BY BaseFacts
<1> QED BY <1>1 DEF InstantToNanos, SaturatingSub

\* What an event takes into its hands, after a GET that succeeds or fails.
LEMMA RecordFacts ==
    ASSUME TypeOK, BasesInv, SoundInv, NEW p \in Processes, RecordSuppression(p)
    PROVE  \E now \in base_instant[p] .. clock, c \in Counter(Nat), o \in Counter(Nat \cup {None}),
              missed \in Nat :
              /\ held' = [held EXCEPT ![p] = Copy(AfterSuppression(c, InstantToNanos(p, now)),
                                                  AfterSuppression(o, now), None, missed, 0)]
              /\ Sound(c, o)
              /\ \/ missed = 0 /\ c = Read(p, now) /\ o = OriginRead(now)
                 \/ /\ missed = UnreportedStored
                    /\ c = NewCounter(InstantToNanos(p, now)) /\ o = NewCounter(now)
<1>0. base_instant[p] # None
  BY DEF RecordSuppression
<1>1. UnreportedStored \in Nat
  <2>1. value = None => UnreportedStored = 0
    BY DEF UnreportedStored
  <2>2. value # None => UnreportedStored \in Nat
    BY ValueFacts
  <2> QED BY <2>1, <2>2
<1>2. PICK now \in base_instant[p] .. clock :
        \/ held' = [held EXCEPT ![p] = Copy(AfterSuppression(Read(p, now), InstantToNanos(p, now)),
                                            AfterSuppression(OriginRead(now), now), None, 0, 0)]
        \/ held' = [held EXCEPT ![p] =
             Copy(AfterSuppression(NewCounter(InstantToNanos(p, now)), InstantToNanos(p, now)),
                  AfterSuppression(NewCounter(now), now), None, UnreportedStored, 0)]
  BY DEF RecordSuppression
<1>3. now \in Nat /\ InstantToNanos(p, now) \in Nat
  BY <1>0, NowFacts
<1>4. /\ Read(p, now) \in Counter(Nat) /\ OriginRead(now) \in Counter(Nat \cup {None})
      /\ Sound(Read(p, now), OriginRead(now))
  BY <1>0, <1>3, ReadFacts
<1>5. NewCounter(InstantToNanos(p, now)) \in Counter(Nat)
  BY <1>3, NewFacts
<1>6. NewCounter(now) \in Counter(Nat \cup {None})
  <2>1. now \in Nat \cup {None}
    BY <1>3
  <2> QED BY <2>1, NewFacts
<1>7. Sound(NewCounter(InstantToNanos(p, now)), NewCounter(now))
  BY DEF Sound, NewCounter
<1>8. CASE held' = [held EXCEPT ![p] =
             Copy(AfterSuppression(Read(p, now), InstantToNanos(p, now)),
                  AfterSuppression(OriginRead(now), now), None, 0, 0)]
  BY <1>4, <1>8
<1>9. CASE held' = [held EXCEPT ![p] =
             Copy(AfterSuppression(NewCounter(InstantToNanos(p, now)), InstantToNanos(p, now)),
                  AfterSuppression(NewCounter(now), now), None, UnreportedStored, 0)]
  BY <1>1, <1>5, <1>6, <1>7, <1>9
<1> QED BY <1>2, <1>8, <1>9

\* The copy that an event takes into its hands.
LEMMA RecordCopy ==
    ASSUME NEW c \in Counter(Nat), NEW o \in Counter(Nat \cup {None}), Sound(c, o),
           NEW ts \in Nat, NEW now \in Nat, NEW missed \in Nat,
           NEW k, k = Copy(AfterSuppression(c, ts), AfterSuppression(o, now), None, missed, 0)
    PROVE  /\ k \in Copies /\ k # None
           /\ k.missed = missed /\ k.unclaimed = 0
           /\ Sound(k.state, k.origin)
           /\ k.state.suppressed_count - k.state.reported_count =
                 c.suppressed_count - c.reported_count + 1
<1> DEFINE S == Nat \cup {None}
           state == AfterSuppression(c, ts)
           true == AfterSuppression(o, now)
<1>1. /\ state \in Counter(Nat)
      /\ state.suppressed_count = c.suppressed_count + 1
      /\ state.reported_count = c.reported_count
      /\ state.last_suppressed = ts
      /\ state.first_unreported =
            IF c.suppressed_count = c.reported_count THEN ts ELSE c.first_unreported
  BY SuppressionFacts
<1>2. /\ true \in Counter(S)
      /\ true.suppressed_count = o.suppressed_count + 1
      /\ true.reported_count = o.reported_count
      /\ true.last_suppressed = now
      /\ true.first_unreported =
            IF o.suppressed_count = o.reported_count THEN now ELSE o.first_unreported
  <2>1. now \in S /\ o \in Counter(S)
    OBVIOUS
  <2> HIDE DEF S
  <2> QED BY <2>1, SuppressionFacts
<1>3. /\ c.suppressed_count \in Nat /\ c.reported_count \in Nat
      /\ c.reported_count <= c.suppressed_count
      /\ o.suppressed_count = c.suppressed_count /\ o.reported_count = c.reported_count
  BY CounterTypes DEF Sound
<1> HIDE DEF state, true
<1>4. /\ k \in Copies /\ k # None
      /\ k.state = state /\ k.origin = true /\ k.missed = missed /\ k.unclaimed = 0
  <2>1. None \in Claims \cup {None} /\ true \in Counter(Nat \cup {None}) /\ 0 \in Nat
    BY <1>2
  <2>2. k = Copy(state, true, None, missed, 0)
    BY DEF state, true
  <2>3. state \in Counter(Nat) /\ missed \in Nat
    BY <1>1
  <2>4. /\ Copy(state, true, None, missed, 0) \in Copies
        /\ Copy(state, true, None, missed, 0) # None
        /\ Copy(state, true, None, missed, 0).state = state
        /\ Copy(state, true, None, missed, 0).origin = true
        /\ Copy(state, true, None, missed, 0).missed = missed
        /\ Copy(state, true, None, missed, 0).unclaimed = 0
    BY <2>1, <2>3, CopyMade
  <2> QED BY <2>2, <2>4
<1>5. Sound(state, true)
  BY <1>1, <1>2, <1>3 DEF Sound
<1>6. state.suppressed_count - state.reported_count = c.suppressed_count - c.reported_count + 1
  BY <1>1, <1>3
<1>7. /\ Sound(k.state, k.origin)
      /\ k.state.suppressed_count - k.state.reported_count =
            c.suppressed_count - c.reported_count + 1
  BY <1>4, <1>5, <1>6
<1> QED BY <1>4, <1>7

\* Its stamps.
LEMMA RecordStamps ==
    ASSUME NEW c \in Counter(Nat), NEW o \in Counter(Nat \cup {None}), Sound(c, o),
           NEW ts \in Nat, NEW now \in Nat, NEW missed \in Nat,
           NEW k, k = Copy(AfterSuppression(c, ts), AfterSuppression(o, now), None, missed, 0)
    PROVE  /\ k.state.last_suppressed = ts /\ k.origin.last_suppressed = now
           /\ \/ k.state.first_unreported = ts /\ k.origin.first_unreported = now
              \/ /\ k.state.first_unreported = c.first_unreported
                 /\ k.origin.first_unreported = o.first_unreported
<1>1. /\ k.state = AfterSuppression(c, ts)
      /\ k.origin = AfterSuppression(o, now)
  BY DEF Copy
<1>2. /\ AfterSuppression(c, ts).last_suppressed = ts
      /\ AfterSuppression(c, ts).first_unreported =
            IF c.suppressed_count = c.reported_count THEN ts ELSE c.first_unreported
  BY SuppressionFacts
<1>3. /\ AfterSuppression(o, now).last_suppressed = now
      /\ AfterSuppression(o, now).first_unreported =
            IF o.suppressed_count = o.reported_count THEN now ELSE o.first_unreported
  <2> DEFINE S == Nat \cup {None}
  <2>1. now \in S /\ o \in Counter(S)
    OBVIOUS
  <2> HIDE DEF S
  <2> QED BY <2>1, SuppressionFacts
<1>4. o.suppressed_count = c.suppressed_count /\ o.reported_count = c.reported_count
  BY DEF Sound
<1> QED BY <1>1, <1>2, <1>3, <1>4

\* What a walk that claims takes into its hands.
LEMMA CollectFacts ==
    ASSUME TypeOK, BasesInv, SoundInv, CollectGet
    PROVE  /\ base_instant[Emitter] # None /\ value # None
           /\ LET c == Read(Emitter, clock)
              IN  /\ c \in Counter(Nat) /\ origin \in Counter(Nat \cup {None}) /\ Sound(c, origin)
                  /\ c.reported_count < c.suppressed_count
                  /\ c.suppressed_count - c.reported_count = UnreportedStored
                  /\ walk' = Copy(AfterClaim(c), AfterClaim(origin),
                                  [taken |-> ClaimOf(c), origin |-> ClaimOf(origin)], 0, 0)
<1>1. base_instant[Emitter] # None /\ value # None /\ CanClaim(Read(Emitter, clock), 1)
  BY DEF CollectGet
<1>2. clock \in Nat /\ OriginRead(clock) = origin
  BY <1>1 DEF TypeOK, OriginRead
<1>3. /\ Read(Emitter, clock) \in Counter(Nat)
      /\ origin \in Counter(Nat \cup {None})
      /\ Sound(Read(Emitter, clock), origin)
      /\ Read(Emitter, clock).suppressed_count - Read(Emitter, clock).reported_count
            = UnreportedStored
  BY <1>1, <1>2, EmitterAssumption, ReadFacts
<1>4. Read(Emitter, clock).reported_count < Read(Emitter, clock).suppressed_count
  BY <1>1, <1>3, GrantFacts
<1> QED BY <1>1, <1>3, <1>4 DEF CollectGet

\* The claim that a walk takes from the counter c.
LEMMA CollectClaim ==
    ASSUME NEW c \in Counter(Nat), NEW o \in Counter(Nat \cup {None}), Sound(c, o),
           c.reported_count < c.suppressed_count,
           NEW w, w = [taken |-> ClaimOf(c), origin |-> ClaimOf(o)]
    PROVE  /\ w \in Claims /\ w # None /\ SoundClaim(w)
           /\ w.taken.count = c.suppressed_count - c.reported_count
           /\ w.taken.first_suppressed = c.first_unreported
           /\ w.taken.last_suppressed = c.last_suppressed
           /\ w.origin.first_suppressed = o.first_unreported
           /\ w.origin.last_suppressed = o.last_suppressed
<1> DEFINE S == Nat \cup {None}
           taken == ClaimOf(c)
           known == ClaimOf(o)
<1>1. /\ c.suppressed_count \in Nat /\ c.reported_count \in Nat
      /\ o.suppressed_count = c.suppressed_count /\ o.reported_count = c.reported_count
  BY CounterTypes DEF Sound
<1>2. /\ taken \in ClaimedSuppressions(Nat)
      /\ taken.previous_reported_count = c.reported_count
      /\ taken.total_count = c.suppressed_count
      /\ taken.count = c.suppressed_count - c.reported_count
      /\ taken.first_suppressed = c.first_unreported
      /\ taken.last_suppressed = c.last_suppressed
  BY ClaimFacts
<1>3. /\ known \in ClaimedSuppressions(S)
      /\ known.previous_reported_count = o.reported_count
      /\ known.total_count = o.suppressed_count
      /\ known.count = o.suppressed_count - o.reported_count
      /\ known.first_suppressed = o.first_unreported
      /\ known.last_suppressed = o.last_suppressed
  <2>1. o \in Counter(S) /\ o.reported_count < o.suppressed_count
    BY <1>1
  <2> HIDE DEF S
  <2> QED BY <2>1, ClaimFacts
<1> HIDE DEF taken, known
<1>4. w.taken = taken /\ w.origin = known
  BY DEF taken, known
<1>5. w \in Claims
  BY <1>2, <1>3 DEF Claims, taken, known
<1>6. SoundClaim(w)
  BY <1>1, <1>2, <1>3, <1>4 DEF SoundClaim
<1>7. w # None
  BY <1>5, NoneAssumption
<1> QED BY <1>2, <1>3, <1>4, <1>5, <1>6, <1>7

\* The copy of a walk that takes a claim.
LEMMA CollectCopy ==
    ASSUME NEW c \in Counter(Nat), NEW o \in Counter(Nat \cup {None}), Sound(c, o),
           c.reported_count < c.suppressed_count, NEW w \in Claims
    PROVE  \A k : k = Copy(AfterClaim(c), AfterClaim(o), w, 0, 0) =>
           /\ k \in Copies /\ k # None
           /\ k.missed = 0 /\ k.unclaimed = 0
           /\ Sound(k.state, k.origin)
           /\ k.state.suppressed_count - k.state.reported_count = 0
           /\ k.claim = w
           /\ k.state.last_suppressed = c.last_suppressed
           /\ k.state.first_unreported = c.last_suppressed
           /\ k.origin.last_suppressed = o.last_suppressed
           /\ k.origin.first_unreported = o.last_suppressed
<1> DEFINE S == Nat \cup {None}
           state == AfterClaim(c)
           true == AfterClaim(o)
<1>1. /\ c.suppressed_count \in Nat /\ c.reported_count \in Nat
      /\ o.suppressed_count = c.suppressed_count /\ o.reported_count = c.reported_count
  BY CounterTypes DEF Sound
<1>2. /\ state \in Counter(Nat)
      /\ state.suppressed_count = c.suppressed_count
      /\ state.reported_count = c.suppressed_count
      /\ state.last_suppressed = c.last_suppressed
      /\ state.first_unreported = c.last_suppressed
  BY ClaimFacts
<1>3. /\ true \in Counter(S)
      /\ true.suppressed_count = o.suppressed_count
      /\ true.reported_count = o.suppressed_count
      /\ true.last_suppressed = o.last_suppressed
      /\ true.first_unreported = o.last_suppressed
  <2>1. o \in Counter(S) /\ o.reported_count < o.suppressed_count
    BY <1>1
  <2> HIDE DEF S
  <2> QED BY <2>1, ClaimFacts
<1> HIDE DEF state, true
<1>4. /\ Copy(state, true, w, 0, 0) \in Copies
      /\ Copy(state, true, w, 0, 0) # None
      /\ Copy(state, true, w, 0, 0).state = state
      /\ Copy(state, true, w, 0, 0).origin = true
      /\ Copy(state, true, w, 0, 0).claim = w
      /\ Copy(state, true, w, 0, 0).missed = 0
      /\ Copy(state, true, w, 0, 0).unclaimed = 0
  <2>1. w \in Claims \cup {None} /\ true \in Counter(Nat \cup {None}) /\ 0 \in Nat
    BY <1>3
  <2>2. state \in Counter(Nat)
    BY <1>2
  <2>3. Copy(state, true, w, 0, 0) \in Copies
    BY <2>1, <2>2, CopyMade
  <2>4. Copy(state, true, w, 0, 0) # None
    BY <2>1, <2>2, CopyMade
  <2> QED BY <2>3, <2>4 DEF Copy
<1>5. Sound(state, true)
  BY <1>1, <1>2, <1>3 DEF Sound
<1>6. state.suppressed_count - state.reported_count = 0
  BY <1>1, <1>2
<1>7. \A k : k = Copy(state, true, w, 0, 0) =>
        /\ k \in Copies /\ k # None
        /\ k.state = state /\ k.origin = true /\ k.claim = w
        /\ k.missed = 0 /\ k.unclaimed = 0
  BY <1>4
<1>8. \A k : k = Copy(AfterClaim(c), AfterClaim(o), w, 0, 0) => k = Copy(state, true, w, 0, 0)
  BY DEF state, true
<1> QED BY <1>2, <1>3, <1>5, <1>6, <1>7, <1>8

\* What a walk that rolls the claim back takes into its hands.
LEMMA RollbackGetFacts ==
    ASSUME TypeOK, BasesInv, HandsInv, SoundInv, RollbackGet
    PROVE  /\ claim # None /\ claim \in Claims /\ SoundClaim(claim)
           /\ LET c == Read(Emitter, clock)
              IN  /\ c \in Counter(Nat) /\ origin \in Counter(Nat \cup {None}) /\ Sound(c, origin)
                  /\ c.suppressed_count - c.reported_count = UnreportedStored
                  /\ c.reported_count >= claim.taken.total_count
                  /\ walk' = Copy(AfterRollback(c, claim.taken), AfterRollback(origin, claim.origin),
                                  claim, 0, c.reported_count - claim.taken.total_count)
<1>1. claim # None /\ claim \in Claims /\ SoundClaim(claim)
  BY DEF RollbackGet, TypeOK, SoundInv
<1>2. claim # None /\ value # None /\ base_instant[Emitter] # None
  BY EmitterAssumption DEF RollbackGet, HandsInv, BasesInv
<1>3. clock \in Nat /\ OriginRead(clock) = origin
  BY <1>2 DEF TypeOK, OriginRead
<1>4. /\ Read(Emitter, clock) \in Counter(Nat)
      /\ origin \in Counter(Nat \cup {None})
      /\ Sound(Read(Emitter, clock), origin)
      /\ Read(Emitter, clock).suppressed_count - Read(Emitter, clock).reported_count
            = UnreportedStored
  BY <1>2, <1>3, EmitterAssumption, ReadFacts
<1> QED BY <1>1, <1>4 DEF RollbackGet

\* The copy of a walk that gives a claim back.
LEMMA RollbackCopy ==
    ASSUME NEW c \in Counter(Nat), NEW o \in Counter(Nat \cup {None}), Sound(c, o),
           NEW w \in Claims, SoundClaim(w), c.reported_count >= w.taken.total_count,
           NEW k, k = Copy(AfterRollback(c, w.taken), AfterRollback(o, w.origin),
                           w, 0, c.reported_count - w.taken.total_count)
    PROVE  /\ k \in Copies /\ k # None
           /\ k.missed = 0 /\ k.unclaimed = c.reported_count - w.taken.total_count
           /\ Sound(k.state, k.origin)
           /\ k.state.suppressed_count - k.state.reported_count =
                 (c.suppressed_count - c.reported_count) + k.unclaimed + w.taken.count
           /\ w.taken.count \in Nat
           /\ k.claim = w
           /\ k.state.last_suppressed = c.last_suppressed
           /\ k.state.first_unreported = w.taken.first_suppressed
           /\ k.origin.last_suppressed = o.last_suppressed
           /\ k.origin.first_unreported = w.origin.first_suppressed
<1> DEFINE S == Nat \cup {None}
           state == AfterRollback(c, w.taken)
           true == AfterRollback(o, w.origin)
           n == c.reported_count - w.taken.total_count
<1>1. /\ c.suppressed_count \in Nat /\ c.reported_count \in Nat
      /\ c.reported_count <= c.suppressed_count
      /\ o.suppressed_count = c.suppressed_count /\ o.reported_count = c.reported_count
  BY CounterTypes DEF Sound
<1>2. w.taken \in ClaimedSuppressions(Nat) /\ w.origin \in ClaimedSuppressions(S) /\ w # None
  BY NoneAssumption DEF Claims
<1>3. /\ w.taken.previous_reported_count \in Nat /\ w.taken.total_count \in Nat
      /\ w.taken.count \in Nat
  BY <1>2, ClaimTypes
<1>4. /\ w.origin.previous_reported_count = w.taken.previous_reported_count
      /\ w.origin.total_count = w.taken.total_count
      /\ w.taken.previous_reported_count < w.taken.total_count
      /\ w.taken.count = w.taken.total_count - w.taken.previous_reported_count
  BY DEF SoundClaim
<1>5. /\ state \in Counter(Nat)
      /\ state.suppressed_count = c.suppressed_count
      /\ state.reported_count = w.taken.previous_reported_count
      /\ state.last_suppressed = c.last_suppressed
      /\ state.first_unreported = w.taken.first_suppressed
  BY <1>2, RollbackFacts
<1>6. /\ true \in Counter(S)
      /\ true.suppressed_count = o.suppressed_count
      /\ true.reported_count = w.origin.previous_reported_count
      /\ true.last_suppressed = o.last_suppressed
      /\ true.first_unreported = w.origin.first_suppressed
  <2>1. o \in Counter(S) /\ o.reported_count >= w.origin.total_count
    BY <1>1, <1>4
  <2> HIDE DEF S
  <2> QED BY <1>2, <2>1, RollbackFacts
<1>7. n \in Nat
  BY <1>1, <1>3
<1> HIDE DEF state, true
<1>8. /\ k \in Copies /\ k # None
      /\ k.state = state /\ k.origin = true /\ k.claim = w
      /\ k.missed = 0 /\ k.unclaimed = n
  <2>1. w \in Claims \cup {None} /\ true \in Counter(Nat \cup {None}) /\ 0 \in Nat
    BY <1>6
  <2>2. k = Copy(state, true, w, 0, n)
    BY DEF state, true
  <2> HIDE DEF n
  <2> QED BY <1>5, <1>7, <2>1, <2>2, CopyMade
<1>9. Sound(state, true)
  BY <1>1, <1>3, <1>4, <1>5, <1>6 DEF Sound
<1>10. state.suppressed_count - state.reported_count =
          (c.suppressed_count - c.reported_count) + n + w.taken.count
  BY <1>1, <1>3, <1>4, <1>5
<1> QED BY <1>3, <1>5, <1>6, <1>8, <1>9, <1>10

\* How much is unreported in what is stored.
LEMMA UnreportedFacts ==
    ASSUME TypeOK, SoundInv
    PROVE  UnreportedStored \in Nat
<1>1. value = None => UnreportedStored = 0
  BY DEF UnreportedStored
<1>2. value # None => UnreportedStored \in Nat
  BY ValueFacts
<1> QED BY <1>1, <1>2

\* The copies that fall behind are copies.
LEMMA AllBehindFacts ==
    ASSUME TypeOK, NEW m \in Nat, NEW n \in Nat, AllBehind(m, n)
    PROVE  /\ held' \in [Processes -> Copies \cup {None}]
           /\ \A p \in Processes :
                 /\ held'[p] = None <=> held[p] = None
                 /\ held[p] # None => /\ held'[p].state = held[p].state
                                      /\ held'[p].origin = held[p].origin
                                      /\ held'[p].missed = held[p].missed + m
                                      /\ held'[p].unclaimed = held[p].unclaimed + n
<1>1. \A p \in Processes : held[p] \in Copies \cup {None} /\ held'[p] = Behind(held[p], m, n)
  BY DEF TypeOK, AllBehind
<1>2. \A p \in Processes : Behind(held[p], m, n) \in Copies \cup {None}
  BY <1>1, BehindFacts
<1>3. held' \in [Processes -> Copies \cup {None}]
  BY <1>2 DEF AllBehind
<1>4. ASSUME NEW p \in Processes
      PROVE  /\ held'[p] = None <=> held[p] = None
             /\ held[p] # None => /\ held'[p].state = held[p].state
                                  /\ held'[p].origin = held[p].origin
                                  /\ held'[p].missed = held[p].missed + m
                                  /\ held'[p].unclaimed = held[p].unclaimed + n
  <2> DEFINE c == held[p]
  <2>1. c \in Copies \cup {None} /\ held'[p] = Behind(c, m, n)
    BY <1>1
  <2> HIDE DEF c
  <2>2. Behind(c, m, n) = None <=> c = None
    BY <2>1, BehindFacts
  <2>3. c # None => /\ Behind(c, m, n).state = c.state
                    /\ Behind(c, m, n).origin = c.origin
                    /\ Behind(c, m, n).missed = c.missed + m
                    /\ Behind(c, m, n).unclaimed = c.unclaimed + n
    BY <2>1, BehindFacts
  <2> QED BY <2>1, <2>2, <2>3 DEF c
<1> QED BY <1>3, <1>4

\* A walk falls behind.
LEMMA WalkBehind ==
    ASSUME TypeOK, NEW m \in Nat, NEW n \in Nat, walk' = Behind(walk, m, n)
    PROVE  /\ walk' = None <=> walk = None
           /\ walk # None => /\ walk'.state = walk.state /\ walk'.origin = walk.origin
                             /\ walk'.claim = walk.claim
                             /\ walk'.missed = walk.missed + m
                             /\ walk'.unclaimed = walk.unclaimed + n
<1> DEFINE c == walk
<1>1. c \in Copies \cup {None} /\ walk' = Behind(c, m, n)
  BY DEF TypeOK
<1> HIDE DEF c
<1>2. Behind(c, m, n) = None <=> c = None
  BY <1>1, BehindFacts
<1>3. c # None => /\ Behind(c, m, n).state = c.state
                  /\ Behind(c, m, n).origin = c.origin
                  /\ Behind(c, m, n).claim = c.claim
                  /\ Behind(c, m, n).missed = c.missed + m
                  /\ Behind(c, m, n).unclaimed = c.unclaimed + n
  BY <1>1, BehindFacts
<1> QED BY <1>1, <1>2, <1>3 DEF c

\* A claim takes at least one suppression.
LEMMA SoundClaimFacts ==
    ASSUME NEW k \in Claims, SoundClaim(k)
    PROVE  /\ k.taken \in ClaimedSuppressions(Nat) /\ k.taken.count \in Nat
           /\ k.origin \in ClaimedSuppressions(Nat \cup {None})
           /\ k.taken.first_suppressed \in Nat /\ k.taken.last_suppressed \in Nat
           /\ k.origin.first_suppressed \in Nat \cup {None}
           /\ k.origin.last_suppressed \in Nat \cup {None}
<1>1. k.taken \in ClaimedSuppressions(Nat) /\ k.origin \in ClaimedSuppressions(Nat \cup {None})
  BY DEF Claims
<1> QED BY <1>1, ClaimTypes

\* The copy that a process stores, or fails to store.
LEMMA StoreFacts ==
    ASSUME TypeOK, BasesInv, HandsInv, SoundInv, NEW p \in Processes, StoreSuppression(p)
    PROVE  /\ held[p] \in Copies /\ held[p] # None
           /\ counter_base[p] # None
           /\ Sound(held[p].state, held[p].origin)
           /\ held[p].state.suppressed_count \in Nat /\ held[p].state.reported_count \in Nat
           /\ held[p].state.reported_count <= held[p].state.suppressed_count
           /\ held' \in [Processes -> Copies \cup {None}]
           /\ held'[p] = None
           /\ \/ /\ Write(p, held[p]) /\ unsaved' = unsaved - 1
                 /\ walk' = Behind(walk, 1, 0)
                 /\ \A q \in Processes \ {p} :
                       /\ held'[q] = None <=> held[q] = None
                       /\ held[q] # None => /\ held'[q].state = held[q].state
                                            /\ held'[q].origin = held[q].origin
                                            /\ held'[q].missed = held[q].missed + 1
                                            /\ held'[q].unclaimed = held[q].unclaimed
              \/ /\ UNCHANGED <<value, origin, overtaken, repeated, unsaved, walk>>
                 /\ \A q \in Processes \ {p} : held'[q] = held[q]
<1>1. /\ held[p] \in Copies /\ held[p] # None /\ counter_base[p] # None
      /\ Sound(held[p].state, held[p].origin)
  BY DEF StoreSuppression, TypeOK, HandsInv, SoundInv
<1>2. /\ held[p].state.suppressed_count \in Nat /\ held[p].state.reported_count \in Nat
      /\ held[p].state.reported_count <= held[p].state.suppressed_count
  BY <1>1, CopyFacts DEF Sound
<1>3. \A q \in Processes : held[q] \in Copies \cup {None}
  BY DEF TypeOK
<1>4. CASE /\ Write(p, held[p])
           /\ unsaved' = unsaved - 1
           /\ held' = [q \in Processes |-> IF q = p THEN None ELSE Behind(held[q], 1, 0)]
           /\ walk' = Behind(walk, 1, 0)
  <2>1. ASSUME NEW q \in Processes
        PROVE  /\ Behind(held[q], 1, 0) \in Copies \cup {None}
               /\ Behind(held[q], 1, 0) = None <=> held[q] = None
               /\ held[q] # None =>
                     /\ Behind(held[q], 1, 0).state = held[q].state
                     /\ Behind(held[q], 1, 0).origin = held[q].origin
                     /\ Behind(held[q], 1, 0).missed = held[q].missed + 1
                     /\ Behind(held[q], 1, 0).unclaimed = held[q].unclaimed + 0
    <3> DEFINE c == held[q]
    <3>1. c \in Copies \cup {None}
      BY <1>3
    <3> HIDE DEF c
    <3>2. /\ Behind(c, 1, 0) \in Copies \cup {None}
          /\ Behind(c, 1, 0) = None <=> c = None
      BY <3>1, BehindFacts
    <3>3. c # None => /\ Behind(c, 1, 0).state = c.state
                      /\ Behind(c, 1, 0).origin = c.origin
                      /\ Behind(c, 1, 0).missed = c.missed + 1
                      /\ Behind(c, 1, 0).unclaimed = c.unclaimed + 0
      BY <3>1, BehindFacts
    <3> QED BY <3>2, <3>3 DEF c
  <2>2. held' \in [Processes -> Copies \cup {None}] /\ held'[p] = None
    BY <1>4, <2>1
  <2>3. \A q \in Processes : held[q] # None => held[q].unclaimed + 0 = held[q].unclaimed
    BY <1>3, CopyFacts
  <2>4. \A q \in Processes \ {p} : held'[q] = Behind(held[q], 1, 0)
    BY <1>4
  <2> QED BY <1>1, <1>2, <1>4, <2>1, <2>2, <2>3, <2>4
<1>5. CASE /\ held' = [held EXCEPT ![p] = None]
           /\ UNCHANGED <<stored, slips, unsaved, walk>>
  <2>1. held' \in [Processes -> Copies \cup {None}] /\ held'[p] = None
    BY <1>5 DEF TypeOK
  <2>2. \A q \in Processes \ {p} : held'[q] = held[q]
    BY <1>5 DEF TypeOK
  <2>3. UNCHANGED <<value, origin, overtaken, repeated, unsaved, walk>>
    BY <1>5 DEF stored, slips
  <2> QED BY <1>1, <1>2, <2>1, <2>2, <2>3
<1> QED BY <1>4, <1>5 DEF StoreSuppression

\* The copy that a walk stores, or fails to store.
LEMMA WalkFacts ==
    ASSUME TypeOK, BasesInv, HandsInv, SoundInv, walk # None
    PROVE  /\ walk \in Copies
           /\ counter_base[Emitter] # None
           /\ walk.state.reported_count <= walk.state.suppressed_count
           /\ walk.claim \in Claims /\ walk.claim # None /\ SoundClaim(walk.claim)
           /\ walk.claim.taken.count \in Nat
           /\ walk.missed \in Nat /\ walk.unclaimed \in Nat
<1>1. walk \in Copies /\ counter_base[Emitter] # None
  BY DEF TypeOK, HandsInv
<1>2. walk.claim \in Claims \cup {None} /\ walk.missed \in Nat /\ walk.unclaimed \in Nat
  BY <1>1, CopyFacts
<1>3. /\ walk.claim # None /\ SoundClaim(walk.claim)
      /\ walk.state.reported_count <= walk.state.suppressed_count
  BY DEF SoundInv, Sound
<1>4. walk.claim.taken.count \in Nat
  BY <1>2, <1>3, SoundClaimFacts
<1> QED BY <1>1, <1>2, <1>3, <1>4

\* TypeOK is preserved.
LEMMA TypeStep ==
    ASSUME TypeOK, BasesInv, HandsInv, SoundInv, [Next]_vars
    PROVE  TypeOK'
<1>0. UnreportedStored \in Nat /\ Emitter \in Processes
  BY UnreportedFacts, EmitterAssumption
<1>1. CASE Tick
  BY <1>1 DEF Tick, TypeOK, process, stored, reports, slips, connects
<1>2. ASSUME NEW p \in Processes, Connect(p) PROVE TypeOK'
  <2>1. counter_base' \in [Processes -> Nat \cup {None}]
    BY <1>2 DEF Connect, TypeOK
  <2>2. base_instant' \in [Processes -> Nat \cup {None}]
    BY <1>2 DEF Connect, TypeOK
  <2> QED BY <1>2, <2>1, <2>2 DEF Connect, TypeOK, stored, reports, slips
<1>3. ASSUME NEW p \in Processes, Crash(p) PROVE TypeOK'
  <2>1. /\ counter_base' \in [Processes -> Nat \cup {None}]
        /\ base_instant' \in [Processes -> Nat \cup {None}]
        /\ held' \in [Processes -> Copies \cup {None}]
    BY <1>3 DEF Crash, TypeOK
  <2>2. claim # None => claim.taken.count \in Nat
    BY SoundClaimFacts DEF SoundInv, TypeOK
  <2>3. lost' \in Nat /\ claim' \in Claims \cup {None} /\ walk' \in Copies \cup {None}
    BY <1>3, <2>2 DEF Crash, TypeOK
  <2> QED BY <1>3, <2>1, <2>3 DEF Crash, TypeOK, stored, slips, connects
<1>4. ASSUME NEW p \in Processes, RecordSuppression(p) PROVE TypeOK'
  <2>1. base_instant[p] # None /\ FixBase(p)
    BY <1>4 DEF RecordSuppression
  <2>2. counter_base' \in [Processes -> Nat \cup {None}] /\ lateness' \in Nat
    BY <2>1, FixFacts
  <2>3. PICK now \in base_instant[p] .. clock, c \in Counter(Nat), o \in Counter(Nat \cup {None}),
             missed \in Nat :
          /\ held' = [held EXCEPT ![p] = Copy(AfterSuppression(c, InstantToNanos(p, now)),
                                              AfterSuppression(o, now), None, missed, 0)]
          /\ Sound(c, o)
    BY <1>4, RecordFacts
  <2>4. now \in Nat /\ InstantToNanos(p, now) \in Nat
    BY <2>1, NowFacts
  <2> DEFINE ts == InstantToNanos(p, now)
             k == Copy(AfterSuppression(c, ts), AfterSuppression(o, now), None, missed, 0)
  <2>5. k \in Copies
    <3>1. ts \in Nat /\ k = Copy(AfterSuppression(c, ts), AfterSuppression(o, now), None, missed, 0)
      BY <2>4
    <3>2. /\ c \in Counter(Nat) /\ o \in Counter(Nat \cup {None}) /\ Sound(c, o)
          /\ now \in Nat /\ missed \in Nat
      BY <2>3, <2>4
    <3> HIDE DEF ts, k
    <3> QED BY <3>1, <3>2, RecordCopy
  <2>6. held' = [held EXCEPT ![p] = k]
    BY <2>3
  <2> HIDE DEF k
  <2>7. held' \in [Processes -> Copies \cup {None}]
    BY <2>5, <2>6 DEF TypeOK
  <2> QED BY <1>4, <2>2, <2>7 DEF RecordSuppression, TypeOK, stored, reports, slips, connects
<1>5. ASSUME NEW p \in Processes, StoreSuppression(p) PROVE TypeOK'
  <2>1. /\ held[p] \in Copies /\ counter_base[p] # None
        /\ held[p].state.reported_count <= held[p].state.suppressed_count
        /\ held' \in [Processes -> Copies \cup {None}]
        /\ \/ Write(p, held[p]) /\ unsaved' = unsaved - 1 /\ walk' = Behind(walk, 1, 0)
           \/ UNCHANGED <<value, origin, overtaken, repeated, unsaved, walk>>
    BY <1>5, StoreFacts
  <2>2. UNCHANGED <<clock, base_instant, counter_base, claim, recorded, delivered, lost,
                    earliest, latest, lateness>>
    BY <1>5 DEF StoreSuppression, process, reports, connects
  <2>3. CASE Write(p, held[p]) /\ unsaved' = unsaved - 1 /\ walk' = Behind(walk, 1, 0)
    <3>1. /\ value' \in Formats /\ origin' \in Counter(Nat \cup {None})
          /\ overtaken' \in Nat /\ repeated' \in Nat
      BY <2>1, <2>3, WriteFacts
    <3>2. walk' \in Copies \cup {None}
      BY <2>3, BehindFacts DEF TypeOK
    <3> QED BY <2>1, <2>2, <2>3, <3>1, <3>2 DEF TypeOK
  <2>4. CASE UNCHANGED <<value, origin, overtaken, repeated, unsaved, walk>>
    BY <2>1, <2>2, <2>4 DEF TypeOK
  <2> QED BY <2>1, <2>3, <2>4
<1>6. CASE Expire
  BY <1>0, <1>6 DEF Expire, TypeOK, process, reports, connects
<1>7. CASE CollectGet
  <2>1. /\ base_instant[Emitter] # None
        /\ LET c == Read(Emitter, clock)
           IN  /\ c \in Counter(Nat) /\ origin \in Counter(Nat \cup {None}) /\ Sound(c, origin)
               /\ c.reported_count < c.suppressed_count
               /\ walk' = Copy(AfterClaim(c), AfterClaim(origin),
                               [taken |-> ClaimOf(c), origin |-> ClaimOf(origin)], 0, 0)
    BY <1>7, CollectFacts
  <2> DEFINE c == Read(Emitter, clock)
             w == [taken |-> ClaimOf(c), origin |-> ClaimOf(origin)]
  <2>2. /\ c \in Counter(Nat) /\ origin \in Counter(Nat \cup {None}) /\ Sound(c, origin)
        /\ c.reported_count < c.suppressed_count
        /\ walk' = Copy(AfterClaim(c), AfterClaim(origin), w, 0, 0)
    BY <2>1
  <2> HIDE DEF c
  <2>3. w \in Claims
    BY <2>2, CollectClaim
  <2> HIDE DEF w
  <2>4. walk' \in Copies
    BY <2>2, <2>3, CollectCopy
  <2>5. counter_base' \in [Processes -> Nat \cup {None}] /\ lateness' \in Nat
    BY <1>0, <1>7, <2>1, FixFacts DEF CollectGet
  <2> QED BY <1>7, <2>4, <2>5 DEF CollectGet, TypeOK, stored, reports, slips, connects
<1>8. CASE CollectSet
  <2>1. walk # None /\ claim' = walk.claim /\ walk' = None
    BY <1>8 DEF CollectSet
  <2>2. /\ walk \in Copies /\ counter_base[Emitter] # None
        /\ walk.state.reported_count <= walk.state.suppressed_count
        /\ walk.claim \in Claims /\ walk.claim.taken.count \in Nat
    BY <2>1, WalkFacts
  <2>3. CASE Write(Emitter, walk) /\ AllBehind(0, walk.claim.taken.count)
    <3>1. /\ value' \in Formats /\ origin' \in Counter(Nat \cup {None})
          /\ overtaken' \in Nat /\ repeated' \in Nat
      BY <1>0, <2>2, <2>3, WriteFacts
    <3>2. held' \in [Processes -> Copies \cup {None}]
      BY <2>2, <2>3, AllBehindFacts
    <3> QED BY <1>8, <2>1, <2>2, <3>1, <3>2 DEF CollectSet, TypeOK, process, reports, connects
  <2>4. CASE /\ repeated' = repeated + walk.claim.taken.count
             /\ UNCHANGED <<stored, held, overtaken>>
    BY <1>8, <2>1, <2>2, <2>4 DEF CollectSet, TypeOK, process, stored, reports, connects
  <2> QED BY <1>8, <2>3, <2>4 DEF CollectSet
<1>9. CASE Emit
  <2>1. claim # None => claim.taken.count \in Nat
    BY SoundClaimFacts DEF SoundInv, TypeOK
  <2> QED BY <1>9, <2>1 DEF Emit, TypeOK, process, stored, slips, connects
<1>10. CASE RollbackGet
  <2> DEFINE c == Read(Emitter, clock)
  <2>1. /\ claim # None /\ claim \in Claims /\ SoundClaim(claim)
        /\ c \in Counter(Nat) /\ origin \in Counter(Nat \cup {None}) /\ Sound(c, origin)
        /\ c.reported_count >= claim.taken.total_count
        /\ walk' = Copy(AfterRollback(c, claim.taken), AfterRollback(origin, claim.origin),
                        claim, 0, c.reported_count - claim.taken.total_count)
    BY <1>10, RollbackGetFacts
  <2> HIDE DEF c
  <2>2. walk' \in Copies
    BY <2>1, RollbackCopy
  <2>3. counter_base' \in [Processes -> Nat \cup {None}] /\ lateness' \in Nat
    BY <1>0, <1>10, <2>1, FixFacts DEF RollbackGet, HandsInv, BasesInv
  <2> QED BY <1>10, <2>2, <2>3 DEF RollbackGet, TypeOK, stored, reports, slips, connects
<1>11. CASE RollbackSet
  <2>1. walk # None /\ claim # None /\ claim' = None /\ walk' = None
    BY <1>11 DEF RollbackSet
  <2>2. /\ walk \in Copies /\ counter_base[Emitter] # None
        /\ walk.state.reported_count <= walk.state.suppressed_count
    BY <2>1, WalkFacts
  <2>3. claim.taken.count \in Nat
    BY <2>1, SoundClaimFacts DEF SoundInv, TypeOK
  <2>4. CASE Write(Emitter, walk) /\ AllBehind(claim.taken.count, 0)
    <3>1. /\ value' \in Formats /\ origin' \in Counter(Nat \cup {None})
          /\ overtaken' \in Nat /\ repeated' \in Nat
      BY <1>0, <2>2, <2>4, WriteFacts
    <3>2. held' \in [Processes -> Copies \cup {None}]
      BY <2>3, <2>4, AllBehindFacts
    <3> QED BY <1>11, <2>1, <3>1, <3>2 DEF RollbackSet, TypeOK, process, reports, connects
  <2>5. CASE /\ overtaken' = overtaken + claim.taken.count
             /\ UNCHANGED <<stored, held, repeated>>
    BY <1>11, <2>1, <2>3, <2>5 DEF RollbackSet, TypeOK, process, stored, reports, connects
  <2> QED BY <1>11, <2>4, <2>5 DEF RollbackSet
<1>12. CASE RollbackMisses
  <2>1. claim # None => claim.taken.count \in Nat
    BY SoundClaimFacts DEF SoundInv, TypeOK
  <2> QED BY <1>12, <2>1 DEF RollbackMisses, TypeOK, process, stored, reports, connects
<1>13. CASE UNCHANGED vars
  BY <1>13 DEF vars, TypeOK, process, stored, reports, slips, connects
<1> QED BY <1>1, <1>2, <1>3, <1>4, <1>5, <1>6, <1>7, <1>8, <1>9, <1>10, <1>11, <1>12, <1>13
        DEF Next, EmitterStep

\* Fixing a BASE keeps the base instants in order.
LEMMA FixBases ==
    ASSUME TypeOK, BasesInv, NEW p \in Processes, base_instant[p] # None, FixBase(p),
           UNCHANGED <<clock, base_instant, earliest, latest>>
    PROVE  BasesInv'
<1>1. /\ base_instant[p] <= Base(p) /\ Base(p) <= clock
      /\ base_instant[p] \in Nat /\ Base(p) \in Nat
  BY BaseFacts
<1>2. /\ counter_base'[p] = Base(p)
      /\ \A q \in Processes \ {p} : counter_base'[q] = counter_base[q]
      /\ lateness' \in Nat /\ lateness' >= lateness
      /\ lateness' >= Base(p) - base_instant[p]
  BY FixFacts
<1>3. /\ lateness \in Nat
      /\ \A q \in Processes : /\ base_instant[q] \in Nat \cup {None}
                              /\ counter_base[q] \in Nat \cup {None}
  BY DEF TypeOK
<1>4. ASSUME NEW q \in Processes, counter_base'[q] # None
      PROVE  /\ base_instant[q] # None
             /\ base_instant[q] <= counter_base'[q]
             /\ counter_base'[q] <= clock
             /\ counter_base'[q] - base_instant[q] <= lateness'
  <2>1. CASE q = p
    BY <1>1, <1>2, <2>1
  <2>2. CASE q # p
    <3>1. /\ counter_base'[q] = counter_base[q]
          /\ base_instant[q] # None
          /\ base_instant[q] <= counter_base[q]
          /\ counter_base[q] <= clock
          /\ counter_base[q] - base_instant[q] <= lateness
      BY <1>2, <1>4, <2>2 DEF BasesInv
    <3> QED BY <1>2, <1>3, <1>4, <3>1
  <2> QED BY <2>1, <2>2
<1> QED BY <1>4 DEF BasesInv

\* What happens to the base instants and BASEs: they stay, or a BASE is fixed,
\* or a process starts or crashes.
LEMMA BasesStep ==
    ASSUME TypeOK, BasesInv, HandsInv, [Next]_vars
    PROVE  BasesInv'
<1>1. CASE UNCHANGED <<clock, process, connects, lateness>>
  BY <1>1 DEF BasesInv, process, connects
<1>2. CASE Tick
  <2>1. /\ UNCHANGED <<base_instant, counter_base, earliest, latest, lateness>>
        /\ clock' = clock + 1 /\ clock \in Nat
    BY <1>2 DEF Tick, process, connects, TypeOK
  <2>2. /\ earliest # None => latest \in Nat
        /\ \A p \in Processes : counter_base[p] # None => counter_base[p] \in Nat
    BY DEF TypeOK, BasesInv
  <2> QED BY <2>1, <2>2 DEF BasesInv
<1>3. ASSUME NEW p \in Processes, Connect(p) PROVE BasesInv'
  <2>1. /\ UNCHANGED <<clock, lateness>>
        /\ base_instant[p] = None
        /\ base_instant' = [base_instant EXCEPT ![p] = clock]
        /\ counter_base' = counter_base \/ counter_base' = [counter_base EXCEPT ![p] = clock]
        /\ earliest' = IF earliest = None THEN clock ELSE earliest
        /\ latest' = clock
    BY <1>3 DEF Connect
  <2>2. /\ base_instant'[p] = clock
        /\ counter_base'[p] = None \/ counter_base'[p] = clock
        /\ \A q \in Processes \ {p} : /\ base_instant'[q] = base_instant[q]
                                      /\ counter_base'[q] = counter_base[q]
    BY <2>1 DEF TypeOK, BasesInv
  <2>3. clock \in Nat /\ clock # None /\ lateness \in Nat
    BY NoneAssumption DEF TypeOK
  <2>4. earliest' \in Nat /\ earliest' <= clock /\ (earliest # None => earliest' = earliest)
    BY <2>1, <2>3 DEF BasesInv, TypeOK
  <2>5. ASSUME NEW q \in Processes, base_instant'[q] # None
        PROVE  earliest' <= base_instant'[q] /\ base_instant'[q] <= latest'
    <3>1. CASE q = p
      BY <2>1, <2>2, <2>3, <2>4, <3>1
    <3>2. CASE q # p
      <4>1. base_instant'[q] = base_instant[q] /\ base_instant[q] # None
        BY <2>2, <2>5, <3>2
      <4>2. /\ base_instant[q] \in Nat /\ earliest \in Nat /\ latest \in Nat
            /\ earliest <= base_instant[q] /\ base_instant[q] <= latest /\ latest <= clock
        BY <4>1, BaseFacts
      <4>3. earliest # None
        BY <4>2, NoneAssumption
      <4> QED BY <2>1, <2>3, <2>4, <4>1, <4>2, <4>3
    <3> QED BY <3>1, <3>2
  <2>6. ASSUME NEW q \in Processes, counter_base'[q] # None
        PROVE  /\ base_instant'[q] # None /\ base_instant'[q] <= counter_base'[q]
               /\ counter_base'[q] <= clock /\ counter_base'[q] - base_instant'[q] <= lateness
    <3>1. CASE q = p
      BY <2>2, <2>3, <2>6, <3>1
    <3>2. CASE q # p
      BY <2>2, <2>6, <3>2 DEF BasesInv
    <3> QED BY <3>1, <3>2
  <2>7. latest' # None /\ earliest' # None
    BY <2>1, <2>3, <2>4, NoneAssumption
  <2> QED BY <2>1, <2>3, <2>4, <2>5, <2>6, <2>7 DEF BasesInv
<1>4. ASSUME NEW p \in Processes, Crash(p) PROVE BasesInv'
  <2>1. /\ UNCHANGED <<clock, lateness, earliest, latest>>
        /\ base_instant'[p] = None /\ counter_base'[p] = None
        /\ \A q \in Processes \ {p} : /\ base_instant'[q] = base_instant[q]
                                      /\ counter_base'[q] = counter_base[q]
    BY <1>4 DEF Crash, connects, TypeOK
  <2> QED BY <2>1 DEF BasesInv
<1>5. ASSUME NEW p \in Processes, base_instant[p] # None, FixBase(p),
             UNCHANGED <<clock, base_instant, connects>>
      PROVE  BasesInv'
  BY <1>5, FixBases DEF connects
<1>6. ASSUME NEW p \in Processes, RecordSuppression(p) PROVE BasesInv'
  BY <1>5, <1>6 DEF RecordSuppression
<1>7. CASE CollectGet
  BY <1>5, <1>7, EmitterAssumption DEF CollectGet
<1>8. CASE RollbackGet
  BY <1>5, <1>8, EmitterAssumption DEF RollbackGet, HandsInv, BasesInv
<1> QED BY <1>1, <1>2, <1>3, <1>4, <1>6, <1>7, <1>8
        DEF Next, EmitterStep, StoreSuppression, Expire, CollectSet, Emit, RollbackSet,
            RollbackMisses, vars

\* A process has fixed its BASE before it has anything in its hands.
LEMMA HandsStep ==
    ASSUME TypeOK, BasesInv, HandsInv, SoundInv, [Next]_vars
    PROVE  HandsInv'
<1>1. CASE UNCHANGED <<process, held, walk, claim>>
  BY <1>1 DEF HandsInv, process
<1>2. CASE Tick \/ Expire
  BY <1>1, <1>2 DEF Tick, Expire
<1>3. ASSUME NEW p \in Processes, Connect(p) PROVE HandsInv'
  <2>1. UNCHANGED <<held, walk, claim>> /\ base_instant[p] = None
    BY <1>3 DEF Connect
  <2>2. \A q \in Processes : counter_base[q] # None => counter_base'[q] # None
    BY <1>3, NoneAssumption DEF Connect, TypeOK
  <2> QED BY <2>1, <2>2, EmitterAssumption DEF HandsInv
<1>4. ASSUME NEW p \in Processes, Crash(p) PROVE HandsInv'
  <2>1. /\ held'[p] = None
        /\ \A q \in Processes \ {p} : held'[q] = held[q] /\ counter_base'[q] = counter_base[q]
    BY <1>4 DEF Crash, TypeOK
  <2>2. /\ p = Emitter => walk' = None /\ claim' = None
        /\ p # Emitter => walk' = walk /\ claim' = claim
    BY <1>4 DEF Crash
  <2> QED BY <2>1, <2>2, EmitterAssumption DEF HandsInv
<1>5. ASSUME NEW p \in Processes, RecordSuppression(p) PROVE HandsInv'
  <2>1. base_instant[p] # None /\ FixBase(p) /\ UNCHANGED <<walk, claim>>
    BY <1>5 DEF RecordSuppression
  <2>2. /\ counter_base'[p] # None
        /\ \A q \in Processes : counter_base[q] # None => counter_base'[q] = counter_base[q]
    BY <2>1, FixFacts
  <2>3. \A q \in Processes \ {p} : held'[q] = held[q]
    BY <1>5 DEF RecordSuppression, TypeOK
  <2> QED BY <2>1, <2>2, <2>3, EmitterAssumption DEF HandsInv
<1>6. ASSUME NEW p \in Processes, StoreSuppression(p) PROVE HandsInv'
  <2>1. UNCHANGED <<counter_base, claim>>
    BY <1>6 DEF StoreSuppression, process
  <2>2. \A q \in Processes : held'[q] # None => held[q] # None
    BY <1>6, StoreFacts
  <2>3. walk' # None => walk # None
    BY <1>6 DEF StoreSuppression, Behind
  <2> QED BY <2>1, <2>2, <2>3 DEF HandsInv
<1>7. ASSUME base_instant[Emitter] # None, FixBase(Emitter), UNCHANGED <<held, claim>>
      PROVE  HandsInv'
  <2>1. /\ counter_base'[Emitter] # None
        /\ \A q \in Processes : counter_base[q] # None => counter_base'[q] = counter_base[q]
    BY <1>7, FixFacts, EmitterAssumption
  <2> QED BY <1>7, <2>1 DEF HandsInv
<1>8. CASE CollectGet
  BY <1>7, <1>8 DEF CollectGet
<1>9. CASE RollbackGet
  BY <1>7, <1>9, EmitterAssumption DEF RollbackGet, HandsInv, BasesInv
<1>10. CASE CollectSet \/ RollbackSet
  <2>1. UNCHANGED counter_base /\ walk # None /\ walk' = None
    BY <1>10 DEF CollectSet, RollbackSet, process
  <2>2. \A q \in Processes : held'[q] # None => held[q] # None
    BY <1>10 DEF CollectSet, RollbackSet, AllBehind, Behind
  <2> QED BY <2>1, <2>2 DEF HandsInv
<1>11. CASE Emit \/ RollbackMisses
  BY <1>11 DEF Emit, RollbackMisses, HandsInv, process
<1> QED BY <1>1, <1>2, <1>3, <1>4, <1>5, <1>6, <1>8, <1>9, <1>10, <1>11
        DEF Next, EmitterStep, vars

\* SoundInv is preserved.
LEMMA SoundStep ==
    ASSUME TypeOK, BasesInv, HandsInv, SoundInv, [Next]_vars
    PROVE  SoundInv'
<1>0. Emitter \in Processes
  BY EmitterAssumption
<1>1. CASE UNCHANGED <<stored, held, walk, claim>>
  BY <1>1 DEF SoundInv, stored, ReportedOf
<1>2. ASSUME NEW p \in Processes, Connect(p) PROVE SoundInv'
  BY <1>1, <1>2 DEF Connect
<1>3. ASSUME NEW p \in Processes, Crash(p) PROVE SoundInv'
  <2>1. /\ held'[p] = None /\ \A q \in Processes \ {p} : held'[q] = held[q]
        /\ claim' = None \/ claim' = claim
        /\ walk' = None \/ (walk' = walk /\ claim' = claim)
        /\ UNCHANGED <<value, origin>>
    BY <1>3 DEF Crash, TypeOK, stored
  <2>2. \A q \in Processes : held'[q] # None => Sound(held'[q].state, held'[q].origin)
    BY <2>1 DEF SoundInv
  <2> QED BY <2>1, <2>2 DEF SoundInv, ReportedOf
<1>4. ASSUME NEW p \in Processes, RecordSuppression(p) PROVE SoundInv'
  <2>1. base_instant[p] # None
    BY <1>4 DEF RecordSuppression
  <2>2. PICK now \in base_instant[p] .. clock, c \in Counter(Nat), o \in Counter(Nat \cup {None}),
             missed \in Nat :
          /\ held' = [held EXCEPT ![p] = Copy(AfterSuppression(c, InstantToNanos(p, now)),
                                              AfterSuppression(o, now), None, missed, 0)]
          /\ Sound(c, o)
    BY <1>4, RecordFacts
  <2>3. now \in Nat /\ InstantToNanos(p, now) \in Nat
    BY <2>1, NowFacts
  <2> DEFINE ts == InstantToNanos(p, now)
             k == Copy(AfterSuppression(c, ts), AfterSuppression(o, now), None, missed, 0)
  <2>4. Sound(k.state, k.origin)
    <3>1. ts \in Nat /\ k = Copy(AfterSuppression(c, ts), AfterSuppression(o, now), None, missed, 0)
      BY <2>3
    <3>2. /\ c \in Counter(Nat) /\ o \in Counter(Nat \cup {None}) /\ Sound(c, o)
          /\ now \in Nat /\ missed \in Nat
      BY <2>2, <2>3
    <3> HIDE DEF ts, k
    <3> QED BY <3>1, <3>2, RecordCopy
  <2>5. held' = [held EXCEPT ![p] = k]
    BY <2>2
  <2> HIDE DEF k
  <2>6. held'[p] = k /\ \A q \in Processes \ {p} : held'[q] = held[q]
    BY <2>5 DEF TypeOK
  <2>7. \A q \in Processes : held'[q] # None => Sound(held'[q].state, held'[q].origin)
    BY <2>4, <2>6 DEF SoundInv
  <2>8. UNCHANGED <<value, origin, walk, claim>>
    BY <1>4 DEF RecordSuppression, stored
  <2> QED BY <2>7, <2>8 DEF SoundInv, ReportedOf
<1>5. ASSUME NEW p \in Processes, StoreSuppression(p) PROVE SoundInv'
  <2>0. held[p] \in Copies /\ counter_base[p] # None
        /\ held[p].state.reported_count <= held[p].state.suppressed_count
        /\ Sound(held[p].state, held[p].origin)
    BY <1>5, StoreFacts
  <2>1. /\ held'[p] = None
        /\ \A q \in Processes \ {p} :
              held'[q] # None => /\ held[q] # None
                                 /\ held'[q].state = held[q].state
                                 /\ held'[q].origin = held[q].origin
    BY <1>5, StoreFacts
  <2>2. \A q \in Processes : held'[q] # None => Sound(held'[q].state, held'[q].origin)
    BY <2>1 DEF SoundInv
  <2>3. claim' = claim /\ (claim # None => SoundClaim(claim))
    BY <1>5 DEF StoreSuppression, SoundInv
  <2>4. \/ Write(p, held[p]) /\ walk' = Behind(walk, 1, 0)
        \/ UNCHANGED <<value, origin, walk>>
    BY <1>5, StoreFacts
  <2>5. CASE Write(p, held[p]) /\ walk' = Behind(walk, 1, 0)
    <3>1. /\ value' # None => /\ ReportedOf(value') <= value'.suppressed_count
                              /\ origin'.suppressed_count = value'.suppressed_count
                              /\ origin'.reported_count = ReportedOf(value')
      BY <2>0, <2>5, WriteFacts DEF Sound
    <3>2. walk' # None => /\ walk # None
                          /\ walk'.state = walk.state /\ walk'.origin = walk.origin
                          /\ walk'.claim = walk.claim
      BY <2>5, WalkBehind
    <3> QED BY <2>2, <2>3, <3>1, <3>2 DEF SoundInv
  <2>6. CASE UNCHANGED <<value, origin, walk>>
    BY <2>2, <2>3, <2>6 DEF SoundInv, ReportedOf
  <2> QED BY <2>4, <2>5, <2>6
<1>6. CASE Expire
  BY <1>6 DEF Expire, SoundInv
<1>7. CASE CollectGet
  <2> DEFINE c == Read(Emitter, clock)
             w == [taken |-> ClaimOf(c), origin |-> ClaimOf(origin)]
  <2>1. /\ c \in Counter(Nat) /\ origin \in Counter(Nat \cup {None}) /\ Sound(c, origin)
        /\ c.reported_count < c.suppressed_count
        /\ walk' = Copy(AfterClaim(c), AfterClaim(origin), w, 0, 0)
    BY <1>7, CollectFacts
  <2>2. claim = None /\ UNCHANGED <<value, origin, held, claim>>
    BY <1>7 DEF CollectGet, stored
  <2> HIDE DEF c
  <2>3. w \in Claims /\ w # None /\ SoundClaim(w)
    BY <2>1, CollectClaim
  <2> HIDE DEF w
  <2>4. Sound(walk'.state, walk'.origin) /\ walk'.claim = w
    BY <2>1, <2>3, CollectCopy
  <2> QED BY <2>2, <2>3, <2>4 DEF SoundInv, ReportedOf
<1>8. CASE CollectSet \/ RollbackSet
  <2>1. /\ walk # None /\ walk' = None
        /\ claim' = None \/ claim' = walk.claim
    BY <1>8 DEF CollectSet, RollbackSet
  <2>2. /\ walk \in Copies /\ counter_base[Emitter] # None
        /\ walk.state.reported_count <= walk.state.suppressed_count
        /\ SoundClaim(walk.claim) /\ walk.claim.taken.count \in Nat
        /\ Sound(walk.state, walk.origin)
        /\ claim # None => claim = walk.claim
    BY <2>1, WalkFacts DEF SoundInv
  <2>3. claim' # None => SoundClaim(claim')
    BY <2>1, <2>2
  <2>4. ASSUME NEW m \in Nat, NEW n \in Nat, Write(Emitter, walk), AllBehind(m, n)
        PROVE  SoundInv'
    <3>1. value' # None => /\ ReportedOf(value') <= value'.suppressed_count
                           /\ origin'.suppressed_count = value'.suppressed_count
                           /\ origin'.reported_count = ReportedOf(value')
      BY <1>0, <2>2, <2>4, WriteFacts DEF Sound
    <3>2. \A q \in Processes :
             held'[q] # None => /\ held[q] # None
                                /\ held'[q].state = held[q].state
                                /\ held'[q].origin = held[q].origin
      BY <2>4, AllBehindFacts
    <3>3. \A q \in Processes : held'[q] # None => Sound(held'[q].state, held'[q].origin)
      BY <3>2 DEF SoundInv
    <3> QED BY <2>1, <2>3, <3>1, <3>3 DEF SoundInv
  <2>5. CASE UNCHANGED <<stored, held>>
    BY <2>1, <2>3, <2>5 DEF SoundInv, ReportedOf, stored
  <2>6. 0 \in Nat /\ (RollbackSet => claim.taken.count \in Nat)
    BY <2>2 DEF RollbackSet
  <2>7. CASE CollectSet
    BY <2>2, <2>4, <2>5, <2>6, <2>7 DEF CollectSet
  <2>8. CASE RollbackSet
    BY <2>4, <2>5, <2>6, <2>8 DEF RollbackSet
  <2> QED BY <1>8, <2>7, <2>8
<1>9. CASE Emit \/ RollbackMisses
  BY <1>9 DEF Emit, RollbackMisses, SoundInv, ReportedOf, stored
<1>10. CASE RollbackGet
  <2> DEFINE c == Read(Emitter, clock)
  <2>1. /\ claim # None /\ claim \in Claims /\ SoundClaim(claim)
        /\ c \in Counter(Nat) /\ origin \in Counter(Nat \cup {None}) /\ Sound(c, origin)
        /\ c.reported_count >= claim.taken.total_count
        /\ walk' = Copy(AfterRollback(c, claim.taken), AfterRollback(origin, claim.origin),
                        claim, 0, c.reported_count - claim.taken.total_count)
    BY <1>10, RollbackGetFacts
  <2> HIDE DEF c
  <2> DEFINE k == walk'
  <2>2. Sound(k.state, k.origin) /\ k.claim = claim
    <3>1. k = Copy(AfterRollback(c, claim.taken), AfterRollback(origin, claim.origin),
                   claim, 0, c.reported_count - claim.taken.total_count)
      BY <2>1
    <3> HIDE DEF k
    <3>2. Sound(k.state, k.origin)
      BY <2>1, <3>1, RollbackCopy
    <3>3. k.claim = claim
      BY <3>1 DEF Copy
    <3> QED BY <3>2, <3>3
  <2>3. UNCHANGED <<value, origin, held, claim>>
    BY <1>10 DEF RollbackGet, stored
  <2> QED BY <2>1, <2>2, <2>3 DEF SoundInv, ReportedOf
<1> QED BY <1>1, <1>2, <1>3, <1>4, <1>5, <1>6, <1>7, <1>8, <1>9, <1>10
        DEF Next, EmitterStep, vars, Tick
-----------------------------------------------------------------------------
(* The counts. *)

\* Covers, of given counts.
Fits(c, settled, un, r, o, x) ==
    LET accounted == settled + (c.state.suppressed_count - c.state.reported_count)
    IN  /\ r <= accounted + un + o + c.missed
        /\ accounted <= r + x + c.unclaimed

\* A copy goes on to fit when it falls behind by what others store.
LEMMA FitsGrows ==
    ASSUME NEW c \in Copies, NEW d \in Copies, d.state = c.state,
           NEW m \in Nat, NEW n \in Nat, d.missed = c.missed + m, d.unclaimed = c.unclaimed + n,
           NEW D \in Int, NEW E \in Int, NEW u \in Int, NEW v \in Int, NEW r \in Int, NEW s \in Int,
           NEW o \in Int, NEW q \in Int, NEW x \in Int, NEW y \in Int,
           s - r <= (E - D) + (v - u) + (q - o) + m,
           E - D <= (s - r) + (y - x) + n,
           Fits(c, D, u, r, o, x)
    PROVE  Fits(d, E, v, s, q, y)
<1>1. /\ c.state.suppressed_count \in Nat /\ c.state.reported_count \in Nat
      /\ c.missed \in Nat /\ c.unclaimed \in Nat
  BY CopyFacts
<1> DEFINE U == c.state.suppressed_count - c.state.reported_count
<1>2. U \in Int
  BY <1>1
<1>3. r <= D + U + u + o + c.missed /\ D + U <= r + x + c.unclaimed
  BY DEF Fits
<1> HIDE DEF U
<1>4. s <= E + U + v + q + d.missed /\ E + U <= s + y + d.unclaimed
  BY <1>1, <1>2, <1>3
<1> QED BY <1>4 DEF Fits, U

\* The same when what is settled stays as it is.
LEMMA FitsStays ==
    ASSUME NEW c \in Copies, NEW d \in Copies, d.state = c.state,
           NEW m \in Nat, NEW n \in Nat, d.missed = c.missed + m, d.unclaimed = c.unclaimed + n,
           NEW D \in Int, NEW u \in Int, NEW v \in Int, NEW r \in Int, NEW s \in Int,
           NEW o \in Int, NEW q \in Int, NEW x \in Int, NEW y \in Int,
           s - r <= (v - u) + (q - o) + m,
           0 <= (s - r) + (y - x) + n,
           Fits(c, D, u, r, o, x)
    PROVE  Fits(d, D, v, s, q, y)
<1>1. s - r <= (D - D) + (v - u) + (q - o) + m /\ D - D <= (s - r) + (y - x) + n
  OBVIOUS
<1> QED BY <1>1, FitsGrows

\* The counts are numbers.
LEMMA CountFacts ==
    ASSUME TypeOK, SoundInv
    PROVE  /\ ClaimedCount \in Nat /\ Settled \in Nat /\ UnreportedStored \in Nat
           /\ recorded \in Nat /\ unsaved \in Int /\ overtaken \in Nat /\ repeated \in Nat
           /\ delivered \in Nat /\ lost \in Nat
           /\ claim # None => claim.taken.count \in Nat /\ ClaimedCount = claim.taken.count
           /\ claim = None => ClaimedCount = 0
<1>1. claim # None => claim.taken.count \in Nat
  BY SoundClaimFacts DEF SoundInv, TypeOK
<1>2. ClaimedCount \in Nat
  BY <1>1 DEF ClaimedCount
<1> QED BY <1>1, <1>2, UnreportedFacts DEF ClaimedCount, Settled, TypeOK

\* The settled suppressions that the copy of a walk is to fit with.
WalkSettled ==
    IF claim = None THEN Settled + walk.claim.taken.count ELSE Settled - claim.taken.count

\* CountsInv, in terms of Fits.
LEMMA CountsParts ==
    ASSUME CountsInv
    PROVE  /\ recorded <= Settled + UnreportedStored + unsaved + overtaken
           /\ Settled + UnreportedStored <= recorded + repeated
           /\ \A p \in Processes : held[p] # None =>
                 Fits(held[p], Settled, unsaved - 1, recorded, overtaken, repeated)
           /\ walk # None => Fits(walk, WalkSettled, unsaved, recorded, overtaken, repeated)
  BY DEF CountsInv, CountsSurvive, Covers, Fits, WalkSettled

\* CountsInv after a step, in terms of Fits.
LEMMA CountsNext ==
    ASSUME recorded' <= Settled' + UnreportedStored' + unsaved' + overtaken',
           Settled' + UnreportedStored' <= recorded' + repeated',
           \A p \in Processes : held'[p] # None =>
              Fits(held'[p], Settled', unsaved' - 1, recorded', overtaken', repeated'),
           walk' # None => Fits(walk', WalkSettled', unsaved', recorded', overtaken', repeated')
    PROVE  CountsInv'
  BY DEF CountsInv, CountsSurvive, Covers, Fits, WalkSettled

\* The copies of events go on to fit.
LEMMA HeldFits ==
    ASSUME TypeOK, SoundInv, CountsInv, TypeOK', SoundInv', NEW p \in Processes,
           held[p] # None, held'[p] # None, held'[p].state = held[p].state,
           NEW m \in Nat, NEW n \in Nat,
           held'[p].missed = held[p].missed + m, held'[p].unclaimed = held[p].unclaimed + n,
           recorded' - recorded <=
              (Settled' - Settled) + (unsaved' - unsaved) + (overtaken' - overtaken) + m,
           Settled' - Settled <= (recorded' - recorded) + (repeated' - repeated) + n
    PROVE  Fits(held'[p], Settled', unsaved' - 1, recorded', overtaken', repeated')
<1> DEFINE c == held[p]
           d == held'[p]
           D == Settled
           E == Settled'
           u == unsaved - 1
           v == unsaved' - 1
<1>1. c \in Copies /\ d \in Copies
  BY DEF TypeOK
<1>2. D \in Int /\ recorded \in Int /\ overtaken \in Int /\ repeated \in Int /\ unsaved \in Int
  BY CountFacts
<1>3. (D \in Int /\ recorded \in Int /\ overtaken \in Int /\ repeated \in Int /\ unsaved \in Int)'
  <2>1. (Settled \in Nat /\ recorded \in Nat /\ overtaken \in Nat /\ repeated \in Nat
          /\ unsaved \in Int)'
    BY CountFacts, PTL
  <2> QED BY <2>1
<1>4. Fits(c, D, u, recorded, overtaken, repeated)
  BY CountsParts
<1>5. /\ u \in Int /\ v \in Int /\ v - u = unsaved' - unsaved
      /\ d.state = c.state /\ d.missed = c.missed + m /\ d.unclaimed = c.unclaimed + n
  BY <1>2, <1>3
<1>6. /\ recorded' - recorded <= (E - D) + (v - u) + (overtaken' - overtaken) + m
      /\ E - D <= (recorded' - recorded) + (repeated' - repeated) + n
  BY <1>5
<1>7. E \in Int /\ recorded' \in Int /\ overtaken' \in Int /\ repeated' \in Int
  BY <1>3
<1> HIDE DEF c, d, D, E, u, v
<1>8. Fits(d, E, v, recorded', overtaken', repeated')
  BY <1>1, <1>2, <1>4, <1>5, <1>6, <1>7, FitsGrows
<1> QED BY <1>8 DEF d, E, v

\* The copy of a walk goes on to fit.
LEMMA WalkFits ==
    ASSUME TypeOK, SoundInv, CountsInv, TypeOK', SoundInv',
           walk # None, walk' # None, walk'.state = walk.state,
           NEW m \in Nat, NEW n \in Nat,
           walk'.missed = walk.missed + m, walk'.unclaimed = walk.unclaimed + n,
           WalkSettled' = WalkSettled, WalkSettled \in Int,
           recorded' - recorded <= (unsaved' - unsaved) + (overtaken' - overtaken) + m,
           0 <= (recorded' - recorded) + (repeated' - repeated) + n
    PROVE  Fits(walk', WalkSettled', unsaved', recorded', overtaken', repeated')
<1> DEFINE c == walk
           d == walk'
           D == WalkSettled
<1>1. c \in Copies /\ d \in Copies
  BY DEF TypeOK
<1>2. D \in Int /\ recorded \in Int /\ overtaken \in Int /\ repeated \in Int /\ unsaved \in Int
  BY CountFacts
<1>3. recorded' \in Int /\ overtaken' \in Int /\ repeated' \in Int /\ unsaved' \in Int
  BY DEF TypeOK
<1>4. Fits(c, D, unsaved, recorded, overtaken, repeated)
  BY CountsParts
<1>5. d.state = c.state /\ d.missed = c.missed + m /\ d.unclaimed = c.unclaimed + n
  OBVIOUS
<1> HIDE DEF c, d, D
<1>7. Fits(d, D, unsaved', recorded', overtaken', repeated')
  BY <1>1, <1>2, <1>3, <1>4, <1>5, FitsStays
<1> QED BY <1>7 DEF d, D

\* How much of a claim a walk will settle or give back.
LEMMA WalkSettledFacts ==
    ASSUME TypeOK, BasesInv, HandsInv, SoundInv, walk # None
    PROVE  /\ WalkSettled \in Int
           /\ claim = None => WalkSettled = Settled + walk.claim.taken.count
           /\ claim # None => WalkSettled = Settled - claim.taken.count
  BY CountFacts, WalkFacts DEF WalkSettled

\* CountsInv is preserved by the steps of events.
LEMMA CountsEvents ==
    ASSUME TypeOK, BasesInv, HandsInv, SoundInv, CountsInv, TypeOK', SoundInv',
           NEW p \in Processes, RecordSuppression(p) \/ StoreSuppression(p)
    PROVE  CountsInv'
<1>0. /\ Settled \in Nat /\ UnreportedStored \in Nat /\ recorded \in Nat
      /\ unsaved \in Int /\ overtaken \in Nat /\ repeated \in Nat
      /\ walk # None => WalkSettled \in Int
  BY CountFacts, WalkSettledFacts
<1>1. /\ recorded <= Settled + UnreportedStored + unsaved + overtaken
      /\ Settled + UnreportedStored <= recorded + repeated
  BY CountsParts
<1>2. CASE RecordSuppression(p)
  <2>1. /\ recorded' = recorded + 1 /\ unsaved' = unsaved + 1
        /\ UNCHANGED <<value, walk, claim, delivered, lost, overtaken, repeated>>
        /\ base_instant[p] # None /\ held[p] = None
    BY <1>2 DEF RecordSuppression, stored, reports, slips
  <2>2. Settled' = Settled /\ UnreportedStored' = UnreportedStored
    BY <2>1 DEF Settled, ClaimedCount, UnreportedStored, ReportedOf
  <2>3. /\ recorded' <= Settled' + UnreportedStored' + unsaved' + overtaken'
        /\ Settled' + UnreportedStored' <= recorded' + repeated'
    BY <1>0, <1>1, <2>1, <2>2
  <2>4. \A q \in Processes \ {p} : held'[q] = held[q]
    BY <1>2 DEF RecordSuppression, TypeOK
  <2>5. ASSUME NEW q \in Processes \ {p}, held'[q] # None
        PROVE  Fits(held'[q], Settled', unsaved' - 1, recorded', overtaken', repeated')
    <3>1. held[q] # None /\ held[q] \in Copies /\ held'[q] = held[q]
      BY <2>4, <2>5 DEF TypeOK
    <3>2. held'[q].missed = held[q].missed + 0 /\ held'[q].unclaimed = held[q].unclaimed + 0
      BY <3>1, CopyFacts
    <3>3. /\ recorded' - recorded <=
                (Settled' - Settled) + (unsaved' - unsaved) + (overtaken' - overtaken) + 0
          /\ Settled' - Settled <= (recorded' - recorded) + (repeated' - repeated) + 0
      BY <1>0, <2>1, <2>2
    <3> QED BY <2>5, <3>1, <3>2, <3>3, HeldFits
  <2>6. PICK now \in base_instant[p] .. clock, c \in Counter(Nat), o \in Counter(Nat \cup {None}),
             missed \in Nat :
          /\ held' = [held EXCEPT ![p] = Copy(AfterSuppression(c, InstantToNanos(p, now)),
                                              AfterSuppression(o, now), None, missed, 0)]
          /\ Sound(c, o)
          /\ \/ missed = 0 /\ c = Read(p, now) /\ o = OriginRead(now)
             \/ /\ missed = UnreportedStored
                /\ c = NewCounter(InstantToNanos(p, now)) /\ o = NewCounter(now)
    BY <1>2, RecordFacts
  <2>7. now \in Nat /\ InstantToNanos(p, now) \in Nat
    BY <2>1, NowFacts
  <2>8. c.suppressed_count \in Nat /\ c.reported_count \in Nat
    BY CounterTypes
  <2> DEFINE U == c.suppressed_count - c.reported_count
  <2>9. U \in Int /\ U + missed = UnreportedStored
    <3>1. CASE missed = 0 /\ c = Read(p, now)
      <4>1. Read(p, now).suppressed_count - Read(p, now).reported_count = UnreportedStored
        BY <2>1, <2>7, ReadFacts
      <4> QED BY <1>0, <3>1, <4>1
    <3>2. CASE missed = UnreportedStored /\ c = NewCounter(InstantToNanos(p, now))
      BY <1>0, <3>2 DEF NewCounter
    <3> QED BY <2>6, <3>1, <3>2
  <2> DEFINE ts == InstantToNanos(p, now)
             k == Copy(AfterSuppression(c, ts), AfterSuppression(o, now), None, missed, 0)
  <2>10. /\ k.missed = missed /\ k.unclaimed = 0
         /\ k.state.suppressed_count - k.state.reported_count = U + 1
    <3>1. ts \in Nat /\ k = Copy(AfterSuppression(c, ts), AfterSuppression(o, now), None, missed, 0)
      BY <2>7
    <3>2. /\ c \in Counter(Nat) /\ o \in Counter(Nat \cup {None}) /\ Sound(c, o)
          /\ now \in Nat /\ missed \in Nat
      BY <2>6, <2>7
    <3> HIDE DEF ts, k
    <3>3. k.missed = missed /\ k.unclaimed = 0
      BY <3>1 DEF Copy
    <3>4. k.state = AfterSuppression(c, ts)
      BY <3>1 DEF Copy
    <3>5. /\ AfterSuppression(c, ts).suppressed_count = c.suppressed_count + 1
          /\ AfterSuppression(c, ts).reported_count = c.reported_count
      BY <3>1, <3>2, SuppressionFacts
    <3>6. k.state.suppressed_count - k.state.reported_count = U + 1
      BY <2>8, <3>4, <3>5
    <3> QED BY <3>3, <3>6
  <2>11. held'[p] = k
    BY <2>6 DEF TypeOK
  <2> HIDE DEF k, U
  <2>12. Fits(k, Settled', unsaved' - 1, recorded', overtaken', repeated')
    <3>1. /\ recorded' <= Settled' + (U + 1) + (unsaved' - 1) + overtaken' + missed
          /\ Settled' + (U + 1) <= recorded' + repeated' + 0
      BY <1>0, <1>1, <2>1, <2>2, <2>9
    <3> QED BY <2>10, <3>1 DEF Fits
  <2>13. walk' # None => Fits(walk', WalkSettled', unsaved', recorded', overtaken', repeated')
    <3> SUFFICES ASSUME walk' # None
                 PROVE  Fits(walk', WalkSettled', unsaved', recorded', overtaken', repeated')
      OBVIOUS
    <3>1. walk # None /\ walk \in Copies /\ walk' = walk
      BY <2>1 DEF TypeOK
    <3>2. walk'.missed = walk.missed + 0 /\ walk'.unclaimed = walk.unclaimed + 0
      BY <3>1, CopyFacts
    <3>3. WalkSettled' = WalkSettled /\ WalkSettled \in Int
      BY <1>0, <2>1, <2>2, <3>1 DEF WalkSettled
    <3>4. /\ recorded' - recorded <= (unsaved' - unsaved) + (overtaken' - overtaken) + 0
          /\ 0 <= (recorded' - recorded) + (repeated' - repeated) + 0
      BY <1>0, <2>1
    <3> QED BY <3>1, <3>2, <3>3, <3>4, WalkFits
  <2>14. \A q \in Processes : held'[q] # None =>
            Fits(held'[q], Settled', unsaved' - 1, recorded', overtaken', repeated')
    BY <2>5, <2>11, <2>12
  <2> QED BY <2>3, <2>13, <2>14, CountsNext
<1>3. CASE StoreSuppression(p)
  <2>1. UNCHANGED <<claim, recorded, delivered, lost>>
    BY <1>3 DEF StoreSuppression, reports
  <2>2. Settled' = Settled
    BY <2>1 DEF Settled, ClaimedCount
  <2>3. /\ held[p] \in Copies /\ held[p] # None /\ counter_base[p] # None
        /\ held[p].state.suppressed_count \in Nat /\ held[p].state.reported_count \in Nat
        /\ held[p].state.reported_count <= held[p].state.suppressed_count
        /\ held[p].missed \in Nat /\ held[p].unclaimed \in Nat
    BY <1>3, StoreFacts, CopyFacts
  <2>4. held'[p] = None
    BY <1>3, StoreFacts
  <2>5. CASE /\ Write(p, held[p]) /\ unsaved' = unsaved - 1
             /\ walk' = Behind(walk, 1, 0)
             /\ \A q \in Processes \ {p} :
                   /\ held'[q] = None <=> held[q] = None
                   /\ held[q] # None => /\ held'[q].state = held[q].state
                                        /\ held'[q].origin = held[q].origin
                                        /\ held'[q].missed = held[q].missed + 1
                                        /\ held'[q].unclaimed = held[q].unclaimed
    <3> DEFINE U == held[p].state.suppressed_count - held[p].state.reported_count
               m == held[p].missed
               n == held[p].unclaimed
    <3>1. UnreportedStored' = U /\ overtaken' = overtaken + m /\ repeated' = repeated + n
      BY <2>3, <2>5, WriteFacts
    <3>2. U \in Int /\ m \in Nat /\ n \in Nat
      BY <2>3
    <3>3. /\ recorded <= Settled + U + (unsaved - 1) + overtaken + m
          /\ Settled + U <= recorded + repeated + n
      BY <2>3, CountsParts DEF Fits
    <3> HIDE DEF U, m, n
    <3>4. /\ recorded' <= Settled' + UnreportedStored' + unsaved' + overtaken'
          /\ Settled' + UnreportedStored' <= recorded' + repeated'
      BY <1>0, <2>1, <2>2, <2>5, <3>1, <3>2, <3>3
    <3>5. ASSUME NEW q \in Processes, held'[q] # None
          PROVE  Fits(held'[q], Settled', unsaved' - 1, recorded', overtaken', repeated')
      <4>1. q # p
        BY <2>4, <3>5
      <4>2. /\ held[q] # None /\ held'[q].state = held[q].state
            /\ held'[q].missed = held[q].missed + 1 /\ held'[q].unclaimed = held[q].unclaimed
        BY <2>5, <3>5, <4>1
      <4>3. held'[q].unclaimed = held[q].unclaimed + 0
        BY <4>2, CopyFacts DEF TypeOK
      <4>4. /\ recorded' - recorded <=
                  (Settled' - Settled) + (unsaved' - unsaved) + (overtaken' - overtaken) + 1
            /\ Settled' - Settled <= (recorded' - recorded) + (repeated' - repeated) + 0
        BY <1>0, <2>1, <2>2, <2>5, <3>1, <3>2
      <4> QED BY <3>5, <4>2, <4>3, <4>4, HeldFits
    <3>6. walk' # None => Fits(walk', WalkSettled', unsaved', recorded', overtaken', repeated')
      <4> SUFFICES ASSUME walk' # None
                   PROVE  Fits(walk', WalkSettled', unsaved', recorded', overtaken', repeated')
        OBVIOUS
      <4>1. /\ walk # None /\ walk'.state = walk.state /\ walk'.claim = walk.claim
            /\ walk'.missed = walk.missed + 1 /\ walk'.unclaimed = walk.unclaimed + 0
        BY <2>5, WalkBehind
      <4>2. WalkSettled' = WalkSettled /\ WalkSettled \in Int
        BY <1>0, <2>1, <2>2, <4>1 DEF WalkSettled
      <4>3. /\ recorded' - recorded <= (unsaved' - unsaved) + (overtaken' - overtaken) + 1
            /\ 0 <= (recorded' - recorded) + (repeated' - repeated) + 0
        BY <1>0, <2>1, <2>5, <3>1, <3>2
      <4> QED BY <4>1, <4>2, <4>3, WalkFits
    <3> QED BY <3>4, <3>5, <3>6, CountsNext
  <2>6. CASE /\ UNCHANGED <<value, origin, overtaken, repeated, unsaved, walk>>
             /\ \A q \in Processes \ {p} : held'[q] = held[q]
    <3>1. UnreportedStored' = UnreportedStored
      BY <2>6 DEF UnreportedStored, ReportedOf
    <3>2. /\ recorded' <= Settled' + UnreportedStored' + unsaved' + overtaken'
          /\ Settled' + UnreportedStored' <= recorded' + repeated'
      BY <1>1, <2>1, <2>2, <2>6, <3>1
    <3>3. \A q \in Processes : held'[q] # None =>
             Fits(held'[q], Settled', unsaved' - 1, recorded', overtaken', repeated')
      BY <2>1, <2>2, <2>4, <2>6, CountsParts
    <3>4. walk' # None => Fits(walk', WalkSettled', unsaved', recorded', overtaken', repeated')
      BY <2>1, <2>2, <2>6, CountsParts DEF WalkSettled
    <3> QED BY <3>2, <3>3, <3>4, CountsNext
  <2> QED BY <1>3, <2>5, <2>6, StoreFacts
<1> QED BY <1>2, <1>3

\* CountsInv is preserved when a walk stores its copy, and what is settled is
\* then as its copy has it.
LEMMA CountsSet ==
    ASSUME TypeOK, BasesInv, HandsInv, SoundInv, CountsInv, TypeOK', SoundInv',
           walk # None, walk' = None, UNCHANGED <<recorded, unsaved>>,
           NEW m \in Nat, NEW n \in Nat,
           Write(Emitter, walk), AllBehind(m, n), Settled' = WalkSettled,
           Settled <= Settled' + m, Settled' <= Settled + n
    PROVE  CountsInv'
<1>0. Emitter \in Processes
  BY EmitterAssumption
<1>1. /\ Settled \in Nat /\ recorded \in Nat /\ unsaved \in Int
      /\ overtaken \in Nat /\ repeated \in Nat /\ WalkSettled \in Int
  BY CountFacts, WalkSettledFacts
<1>2. /\ walk \in Copies /\ counter_base[Emitter] # None
      /\ walk.state.reported_count <= walk.state.suppressed_count
      /\ walk.missed \in Nat /\ walk.unclaimed \in Nat
      /\ walk.state.suppressed_count \in Nat /\ walk.state.reported_count \in Nat
  BY WalkFacts, CopyFacts
<1> DEFINE U == walk.state.suppressed_count - walk.state.reported_count
           a == walk.missed
           b == walk.unclaimed
<1>3. UnreportedStored' = U /\ overtaken' = overtaken + a /\ repeated' = repeated + b
  BY <1>0, <1>2, WriteFacts
<1>4. U \in Int /\ a \in Nat /\ b \in Nat
  BY <1>2
<1>5. /\ recorded <= WalkSettled + U + unsaved + overtaken + a
      /\ WalkSettled + U <= recorded + repeated + b
  BY CountsParts DEF Fits
<1> HIDE DEF U, a, b
<1>6. /\ recorded' <= Settled' + UnreportedStored' + unsaved' + overtaken'
      /\ Settled' + UnreportedStored' <= recorded' + repeated'
  BY <1>1, <1>3, <1>4, <1>5
<1>7. ASSUME NEW q \in Processes, held'[q] # None
      PROVE  Fits(held'[q], Settled', unsaved' - 1, recorded', overtaken', repeated')
  <2>1. /\ held[q] # None /\ held'[q].state = held[q].state
        /\ held'[q].missed = held[q].missed + m /\ held'[q].unclaimed = held[q].unclaimed + n
    BY <1>7, AllBehindFacts
  <2>2. /\ recorded' - recorded <=
              (Settled' - Settled) + (unsaved' - unsaved) + (overtaken' - overtaken) + m
        /\ Settled' - Settled <= (recorded' - recorded) + (repeated' - repeated) + n
    BY <1>1, <1>3, <1>4
  <2> QED BY <1>7, <2>1, <2>2, HeldFits
<1> QED BY <1>6, <1>7, CountsNext

\* CountsInv is preserved when an operation ends without storing anything, and
\* the history keeps what it leaves out or repeats.
LEMMA CountsGivenUp ==
    ASSUME TypeOK, BasesInv, HandsInv, SoundInv, CountsInv, TypeOK', SoundInv',
           walk' = None, UNCHANGED <<value, held, recorded, unsaved>>,
           Settled + overtaken <= Settled' + overtaken',
           Settled' + repeated <= Settled + repeated',
           overtaken <= overtaken', repeated <= repeated'
    PROVE  CountsInv'
<1>1. /\ Settled \in Nat /\ UnreportedStored \in Nat /\ recorded \in Nat /\ unsaved \in Int
      /\ overtaken \in Nat /\ repeated \in Nat
  BY CountFacts
<1>2. overtaken' \in Nat /\ repeated' \in Nat
  BY DEF TypeOK
<1>3. Settled' \in Nat
  <2>1. (Settled \in Nat)'
    BY CountFacts, PTL
  <2> QED BY <2>1
<1>4. UnreportedStored' = UnreportedStored
  BY DEF UnreportedStored, ReportedOf
<1>5. /\ recorded <= Settled + UnreportedStored + unsaved + overtaken
      /\ Settled + UnreportedStored <= recorded + repeated
  BY CountsParts
<1> DEFINE D == Settled
           E == Settled'
           U == UnreportedStored
           o == overtaken'
           x == repeated'
<1>8. /\ D \in Nat /\ E \in Nat /\ U \in Nat /\ recorded \in Nat /\ unsaved \in Int
      /\ overtaken \in Nat /\ repeated \in Nat /\ o \in Nat /\ x \in Nat
  BY <1>1, <1>2, <1>3
<1>9. /\ D + overtaken <= E + o /\ E + repeated <= D + x /\ overtaken <= o /\ repeated <= x
      /\ recorded <= D + U + unsaved + overtaken /\ D + U <= recorded + repeated
  BY <1>5
<1>10. recorded' = recorded /\ unsaved' = unsaved /\ UnreportedStored' = U
  BY <1>4
<1> HIDE DEF D, E, U, o, x
<1>11. recorded <= E + U + unsaved + o
  BY <1>8, <1>9
<1>12. E + U <= recorded + x
  BY <1>8, <1>9
<1>13. recorded - recorded <= (E - D) + (unsaved - unsaved) + (o - overtaken) + 0
  BY <1>8, <1>9
<1>14. E - D <= (recorded - recorded) + (x - repeated) + 0
  BY <1>8, <1>9
<1>6. /\ recorded' <= Settled' + UnreportedStored' + unsaved' + overtaken'
      /\ Settled' + UnreportedStored' <= recorded' + repeated'
  BY <1>10, <1>11, <1>12 DEF E, o, x
<1>7. ASSUME NEW q \in Processes, held'[q] # None
      PROVE  Fits(held'[q], Settled', unsaved' - 1, recorded', overtaken', repeated')
  <2>1. held[q] # None /\ held[q] \in Copies /\ held'[q] = held[q]
    BY <1>7 DEF TypeOK
  <2>2. held'[q].missed = held[q].missed + 0 /\ held'[q].unclaimed = held[q].unclaimed + 0
    BY <2>1, CopyFacts
  <2>3. /\ recorded' - recorded <=
              (Settled' - Settled) + (unsaved' - unsaved) + (overtaken' - overtaken) + 0
        /\ Settled' - Settled <= (recorded' - recorded) + (repeated' - repeated) + 0
    BY <1>10, <1>13, <1>14 DEF D, E, o, x
  <2> QED BY <1>7, <2>1, <2>2, <2>3, HeldFits
<1> QED BY <1>6, <1>7, CountsNext

\* CountsInv is preserved by the steps that read the entry into a walk's copy.
LEMMA CountsGet ==
    ASSUME TypeOK, BasesInv, HandsInv, SoundInv, CountsInv,
           UNCHANGED <<value, held, claim, recorded, unsaved, delivered, lost, overtaken, repeated>>,
           walk' # None,
           NEW U \in Nat, NEW D \in Int, WalkSettled' = D,
           walk'.state.suppressed_count - walk'.state.reported_count = U,
           walk'.missed = 0, walk'.unclaimed \in Nat,
           D + U = Settled + UnreportedStored + walk'.unclaimed
    PROVE  CountsInv'
<1>1. /\ Settled \in Nat /\ UnreportedStored \in Nat /\ recorded \in Nat
      /\ unsaved \in Int /\ overtaken \in Nat /\ repeated \in Nat
  BY CountFacts
<1>2. Settled' = Settled /\ UnreportedStored' = UnreportedStored
  BY DEF Settled, ClaimedCount, UnreportedStored, ReportedOf
<1>3. /\ recorded' = recorded /\ unsaved' = unsaved
      /\ overtaken' = overtaken /\ repeated' = repeated /\ held' = held
  OBVIOUS
<1>4. /\ recorded <= Settled + UnreportedStored + unsaved + overtaken
      /\ Settled + UnreportedStored <= recorded + repeated
      /\ \A p \in Processes : held[p] # None =>
            Fits(held[p], Settled, unsaved - 1, recorded, overtaken, repeated)
  BY CountsParts
<1> DEFINE b == walk'.unclaimed
           S == Settled
           V == UnreportedStored
<1>5. b \in Nat /\ S \in Nat /\ V \in Nat /\ D + U = S + V + b
  BY <1>1
<1>6. recorded <= S + V + unsaved + overtaken /\ S + V <= recorded + repeated
  BY <1>4
<1>7. /\ walk'.state.suppressed_count - walk'.state.reported_count = U
      /\ walk'.missed = 0 /\ walk'.unclaimed = b /\ WalkSettled' = D
  OBVIOUS
<1> HIDE DEF b, S, V
<1>8. recorded <= D + U + unsaved + overtaken + 0 /\ D + U <= recorded + repeated + b
  BY <1>1, <1>5, <1>6
<1>9. Fits(walk', WalkSettled', unsaved', recorded', overtaken', repeated')
  BY <1>3, <1>7, <1>8 DEF Fits
<1>10. /\ recorded' <= Settled' + UnreportedStored' + unsaved' + overtaken'
       /\ Settled' + UnreportedStored' <= recorded' + repeated'
  BY <1>2, <1>3, <1>4
<1>11. \A p \in Processes : held'[p] # None =>
          Fits(held'[p], Settled', unsaved' - 1, recorded', overtaken', repeated')
  BY <1>2, <1>3, <1>4
<1> QED BY <1>9, <1>10, <1>11, CountsNext

\* CountsInv is preserved.
LEMMA CountsStep ==
    ASSUME TypeOK, BasesInv, HandsInv, SoundInv, CountsInv, TypeOK', SoundInv', [Next]_vars
    PROVE  CountsInv'
<1>0. /\ Settled \in Nat /\ UnreportedStored \in Nat /\ recorded \in Nat
      /\ unsaved \in Int /\ overtaken \in Nat /\ repeated \in Nat
      /\ delivered \in Nat /\ lost \in Nat
      /\ walk # None => WalkSettled \in Int
      /\ claim # None => claim.taken.count \in Nat
  BY CountFacts, WalkSettledFacts
<1>1. CASE UNCHANGED <<value, held, walk, claim, recorded, unsaved, reports, slips>>
  BY <1>1 DEF CountsInv, CountsSurvive, Covers, Settled, ClaimedCount, UnreportedStored,
              ReportedOf, reports, slips
<1>2. ASSUME NEW p \in Processes, Connect(p) PROVE CountsInv'
  BY <1>1, <1>2 DEF Connect, stored
<1>3. ASSUME NEW p \in Processes, Crash(p) PROVE CountsInv'
  <2>1. /\ held'[p] = None /\ \A q \in Processes \ {p} : held'[q] = held[q]
        /\ walk' = None \/ (walk' = walk /\ claim' = claim)
        /\ UNCHANGED <<value, recorded, unsaved, delivered, overtaken, repeated>>
    BY <1>3 DEF Crash, TypeOK, stored, slips
  <2>2. Settled' = Settled
    <3>1. CASE p = Emitter /\ claim # None
      <4>1. claim' = None /\ lost' = lost + claim.taken.count
        BY <1>3, <3>1 DEF Crash
      <4> QED BY <1>0, <2>1, <3>1, <4>1 DEF Settled, ClaimedCount
    <3>2. CASE ~(p = Emitter /\ claim # None)
      <4>1. claim' = claim /\ lost' = lost
        BY <1>3, <3>2 DEF Crash
      <4> QED BY <2>1, <4>1 DEF Settled, ClaimedCount
    <3> QED BY <3>1, <3>2
  <2>3. UnreportedStored' = UnreportedStored
    BY <2>1 DEF UnreportedStored, ReportedOf
  <2>4. /\ recorded' <= Settled' + UnreportedStored' + unsaved' + overtaken'
        /\ Settled' + UnreportedStored' <= recorded' + repeated'
    BY <2>1, <2>2, <2>3, CountsParts
  <2>5. \A q \in Processes : held'[q] # None =>
           Fits(held'[q], Settled', unsaved' - 1, recorded', overtaken', repeated')
    BY <2>1, <2>2, CountsParts
  <2>6. walk' # None => Fits(walk', WalkSettled', unsaved', recorded', overtaken', repeated')
    BY <2>1, <2>2, CountsParts DEF WalkSettled
  <2> QED BY <2>4, <2>5, <2>6, CountsNext
<1>4. ASSUME NEW p \in Processes, RecordSuppression(p) \/ StoreSuppression(p) PROVE CountsInv'
  BY <1>4, CountsEvents
<1>5. CASE Expire
  <2>1. /\ value' = None /\ overtaken' = overtaken + UnreportedStored
        /\ UNCHANGED <<held, walk, claim, recorded, unsaved, delivered, lost, repeated>>
    BY <1>5 DEF Expire, reports
  <2>2. Settled' = Settled /\ UnreportedStored' = 0
    BY <2>1 DEF Settled, ClaimedCount, UnreportedStored
  <2>3. /\ recorded' <= Settled' + UnreportedStored' + unsaved' + overtaken'
        /\ Settled' + UnreportedStored' <= recorded' + repeated'
    BY <1>0, <2>1, <2>2, CountsParts
  <2>4. ASSUME NEW q \in Processes, held'[q] # None
        PROVE  Fits(held'[q], Settled', unsaved' - 1, recorded', overtaken', repeated')
    <3>1. held[q] # None /\ held[q] \in Copies /\ held'[q] = held[q]
      BY <2>1, <2>4 DEF TypeOK
    <3>2. held'[q].missed = held[q].missed + 0 /\ held'[q].unclaimed = held[q].unclaimed + 0
      BY <3>1, CopyFacts
    <3>3. /\ recorded' - recorded <=
                (Settled' - Settled) + (unsaved' - unsaved) + (overtaken' - overtaken) + 0
          /\ Settled' - Settled <= (recorded' - recorded) + (repeated' - repeated) + 0
      BY <1>0, <2>1, <2>2
    <3> QED BY <2>4, <3>1, <3>2, <3>3, HeldFits
  <2>5. walk' # None => Fits(walk', WalkSettled', unsaved', recorded', overtaken', repeated')
    <3> SUFFICES ASSUME walk' # None
                 PROVE  Fits(walk', WalkSettled', unsaved', recorded', overtaken', repeated')
      OBVIOUS
    <3>1. walk # None /\ walk \in Copies /\ walk' = walk
      BY <2>1 DEF TypeOK
    <3>2. walk'.missed = walk.missed + 0 /\ walk'.unclaimed = walk.unclaimed + 0
      BY <3>1, CopyFacts
    <3>3. WalkSettled' = WalkSettled /\ WalkSettled \in Int
      BY <1>0, <2>1, <2>2, <3>1 DEF WalkSettled
    <3>4. /\ recorded' - recorded <= (unsaved' - unsaved) + (overtaken' - overtaken) + 0
          /\ 0 <= (recorded' - recorded) + (repeated' - repeated) + 0
      BY <1>0, <2>1
    <3> QED BY <3>1, <3>2, <3>3, <3>4, WalkFits
  <2> QED BY <2>3, <2>4, <2>5, CountsNext
<1>6. CASE CollectGet
  <2> DEFINE c == Read(Emitter, clock)
             w == [taken |-> ClaimOf(c), origin |-> ClaimOf(origin)]
  <2>1. /\ c \in Counter(Nat) /\ origin \in Counter(Nat \cup {None}) /\ Sound(c, origin)
        /\ c.reported_count < c.suppressed_count
        /\ c.suppressed_count - c.reported_count = UnreportedStored
        /\ walk' = Copy(AfterClaim(c), AfterClaim(origin), w, 0, 0)
    BY <1>6, CollectFacts
  <2>2. /\ claim = None
        /\ UNCHANGED <<value, held, claim, recorded, unsaved, delivered, lost, overtaken, repeated>>
    BY <1>6 DEF CollectGet, stored, reports, slips
  <2> HIDE DEF c
  <2>3. w \in Claims /\ w.taken.count = UnreportedStored
    BY <2>1, CollectClaim
  <2> HIDE DEF w
  <2>4. walk' # None /\ walk'.missed = 0 /\ walk'.unclaimed = 0 /\ walk'.claim = w
    <3>1. walk' # None
      BY <2>1, <2>3, CollectCopy
    <3>2. walk'.missed = 0 /\ walk'.unclaimed = 0 /\ walk'.claim = w
      BY <2>1 DEF Copy
    <3> QED BY <3>1, <3>2
  <2>5. walk'.state.suppressed_count - walk'.state.reported_count = 0
    <3>1. walk'.state = AfterClaim(c)
      BY <2>1 DEF Copy
    <3>2. /\ AfterClaim(c).suppressed_count = c.suppressed_count
          /\ AfterClaim(c).reported_count = c.suppressed_count
      BY <2>1, ClaimFacts
    <3>3. c.suppressed_count \in Nat
      BY <2>1, CounterTypes
    <3> QED BY <3>1, <3>2, <3>3
  <2>6. Settled' = Settled
    BY <2>2 DEF Settled, ClaimedCount
  <2>7. WalkSettled' = Settled + UnreportedStored
    BY <2>2, <2>3, <2>4, <2>6 DEF WalkSettled
  <2>8. Settled + UnreportedStored \in Int
        /\ (Settled + UnreportedStored) + 0 = Settled + UnreportedStored + walk'.unclaimed
    BY <1>0, <2>4
  <2> QED BY <2>2, <2>4, <2>5, <2>7, <2>8, CountsGet
<1>7. CASE CollectSet
  <2>1. /\ walk # None /\ claim = None /\ claim' = walk.claim /\ walk' = None
        /\ UNCHANGED <<recorded, unsaved, delivered, lost>>
        /\ \/ Write(Emitter, walk) /\ AllBehind(0, walk.claim.taken.count)
           \/ /\ repeated' = repeated + walk.claim.taken.count
              /\ UNCHANGED <<value, held, overtaken>>
    BY <1>7 DEF CollectSet, reports, stored
  <2>2. walk.claim.taken.count \in Nat /\ walk.claim # None
    BY <2>1, WalkFacts
  <2>3. Settled' = Settled + walk.claim.taken.count /\ WalkSettled = Settled + walk.claim.taken.count
    BY <1>0, <2>1, <2>2 DEF Settled, ClaimedCount, WalkSettled
  <2> DEFINE n == walk.claim.taken.count
             D == Settled
  <2>4. n \in Nat /\ D \in Nat /\ Settled' = D + n /\ Settled' = WalkSettled
    BY <1>0, <2>2, <2>3
  <2>5. \/ Write(Emitter, walk) /\ AllBehind(0, n)
        \/ repeated' = repeated + n /\ UNCHANGED <<value, held, overtaken>>
    BY <2>1
  <2> HIDE DEF n
  <2>6. D <= Settled' + 0 /\ Settled' <= D + n
    <3> HIDE DEF D
    <3> QED BY <2>4
  <2>7. CASE Write(Emitter, walk) /\ AllBehind(0, n)
    BY <2>1, <2>4, <2>6, <2>7, CountsSet
  <2>8. CASE repeated' = repeated + n /\ UNCHANGED <<value, held, overtaken>>
    <3>1. /\ D + overtaken <= Settled' + overtaken' /\ Settled' + repeated <= D + repeated'
          /\ overtaken <= overtaken' /\ repeated <= repeated'
      <4> HIDE DEF D
      <4> QED BY <1>0, <2>4, <2>8
    <3> QED BY <2>1, <2>8, <3>1, CountsGivenUp
  <2> QED BY <2>5, <2>7, <2>8
<1>8. CASE Emit
  <2>1. /\ claim # None /\ claim' = None /\ walk = None /\ walk' = None
        /\ delivered' = delivered + claim.taken.count
        /\ UNCHANGED <<value, held, recorded, unsaved, lost, overtaken, repeated>>
    BY <1>8 DEF Emit, stored, slips
  <2>2. Settled' = Settled
    BY <1>0, <2>1 DEF Settled, ClaimedCount
  <2>3. /\ Settled + overtaken <= Settled' + overtaken' /\ Settled' + repeated <= Settled + repeated'
        /\ overtaken <= overtaken' /\ repeated <= repeated'
    BY <1>0, <2>1, <2>2
  <2> QED BY <2>1, <2>3, CountsGivenUp
<1>9. CASE RollbackGet
  <2> DEFINE c == Read(Emitter, clock)
             b == c.reported_count - claim.taken.total_count
             t == claim.taken.count
  <2>1. /\ claim # None /\ claim \in Claims /\ SoundClaim(claim)
        /\ c \in Counter(Nat) /\ origin \in Counter(Nat \cup {None}) /\ Sound(c, origin)
        /\ c.suppressed_count - c.reported_count = UnreportedStored
        /\ c.reported_count >= claim.taken.total_count
        /\ walk' = Copy(AfterRollback(c, claim.taken), AfterRollback(origin, claim.origin),
                        claim, 0, b)
    BY <1>9, RollbackGetFacts
  <2>2. UNCHANGED <<value, held, claim, recorded, unsaved, delivered, lost, overtaken, repeated>>
    BY <1>9 DEF RollbackGet, stored, reports, slips
  <2> HIDE DEF c
  <2>3. /\ walk' # None /\ walk'.missed = 0 /\ walk'.unclaimed = b
        /\ walk'.state.suppressed_count - walk'.state.reported_count = UnreportedStored + b + t
    <3> DEFINE k == walk'
    <3>1. k = Copy(AfterRollback(c, claim.taken), AfterRollback(origin, claim.origin), claim, 0, b)
      BY <2>1
    <3> HIDE DEF k
    <3>2. k # None
      BY <2>1, <3>1, RollbackCopy
    <3>3. k.missed = 0 /\ k.unclaimed = b
      BY <3>1 DEF Copy
    <3>4. k.state.suppressed_count - k.state.reported_count =
             (c.suppressed_count - c.reported_count) + b + t
      <4>1. k.state = AfterRollback(c, claim.taken)
        BY <3>1 DEF Copy
      <4>2. claim.taken \in ClaimedSuppressions(Nat)
        BY <2>1 DEF Claims
      <4>3. /\ k.state.suppressed_count = c.suppressed_count
            /\ k.state.reported_count = claim.taken.previous_reported_count
        BY <2>1, <4>1, <4>2, RollbackFacts
      <4>4. t = claim.taken.total_count - claim.taken.previous_reported_count
        BY <2>1 DEF SoundClaim
      <4>5. /\ c.suppressed_count \in Nat /\ c.reported_count \in Nat
            /\ claim.taken.total_count \in Nat /\ claim.taken.previous_reported_count \in Nat
        BY <2>1, <4>2, CounterTypes, ClaimTypes
      <4> QED BY <4>3, <4>4, <4>5
    <3> QED BY <2>1, <3>2, <3>3, <3>4 DEF k
  <2>4. Settled' = Settled
    BY <2>2 DEF Settled, ClaimedCount
  <2>5. WalkSettled' = Settled - t
    BY <2>1, <2>2, <2>4 DEF WalkSettled
  <2>6. c.reported_count \in Nat /\ claim.taken.total_count \in Nat
    BY <2>1, CounterTypes, ClaimTypes DEF Claims
  <2>7. b \in Nat /\ t \in Nat
    BY <1>0, <2>1, <2>6
  <2> HIDE DEF b, t
  <2>8. Settled - t \in Int /\ UnreportedStored + b + t \in Nat
        /\ (Settled - t) + (UnreportedStored + b + t) = Settled + UnreportedStored + b
    BY <1>0, <2>7
  <2> QED BY <2>2, <2>3, <2>5, <2>7, <2>8, CountsGet
<1>10. CASE RollbackSet
  <2>1. /\ walk # None /\ claim # None /\ claim' = None /\ walk' = None
        /\ UNCHANGED <<recorded, unsaved, delivered, lost>>
        /\ \/ Write(Emitter, walk) /\ AllBehind(claim.taken.count, 0)
           \/ /\ overtaken' = overtaken + claim.taken.count
              /\ UNCHANGED <<value, held, repeated>>
    BY <1>10 DEF RollbackSet, reports, stored
  <2> DEFINE n == claim.taken.count
             D == Settled
  <2>2. n \in Nat /\ D \in Nat /\ Settled' = D - n /\ Settled' = WalkSettled
    BY <1>0, <2>1 DEF Settled, ClaimedCount, WalkSettled
  <2>3. \/ Write(Emitter, walk) /\ AllBehind(n, 0)
        \/ overtaken' = overtaken + n /\ UNCHANGED <<value, held, repeated>>
    BY <2>1
  <2> HIDE DEF n
  <2>4. D <= Settled' + n /\ Settled' <= D + 0
    <3> HIDE DEF D
    <3> QED BY <2>2
  <2>5. CASE Write(Emitter, walk) /\ AllBehind(n, 0)
    BY <2>1, <2>2, <2>4, <2>5, CountsSet
  <2>6. CASE overtaken' = overtaken + n /\ UNCHANGED <<value, held, repeated>>
    <3>1. /\ D + overtaken <= Settled' + overtaken' /\ Settled' + repeated <= D + repeated'
          /\ overtaken <= overtaken' /\ repeated <= repeated'
      <4> HIDE DEF D
      <4> QED BY <1>0, <2>2, <2>6
    <3> QED BY <2>1, <2>6, <3>1, CountsGivenUp
  <2> QED BY <2>3, <2>5, <2>6
<1>11. CASE RollbackMisses
  <2>1. /\ claim # None /\ claim' = None /\ walk = None /\ walk' = None
        /\ overtaken' = overtaken + claim.taken.count
        /\ UNCHANGED <<value, held, recorded, unsaved, delivered, lost, repeated>>
    BY <1>11 DEF RollbackMisses, stored, reports
  <2> DEFINE n == claim.taken.count
             D == Settled
  <2>2. n \in Nat /\ D \in Nat /\ Settled' = D - n /\ overtaken' = overtaken + n
    BY <1>0, <2>1 DEF Settled, ClaimedCount
  <2>3. /\ D + overtaken <= Settled' + overtaken' /\ Settled' + repeated <= D + repeated'
        /\ overtaken <= overtaken' /\ repeated <= repeated'
    <3>1. repeated' = repeated
      BY <2>1
    <3> HIDE DEF D, n
    <3> QED BY <1>0, <2>2, <3>1
  <2> QED BY <2>1, <2>3, CountsGivenUp
<1>12. CASE Tick \/ UNCHANGED vars
  BY <1>1, <1>12 DEF Tick, vars, stored
<1> QED BY <1>2, <1>3, <1>4, <1>5, <1>6, <1>7, <1>8, <1>9, <1>10, <1>11, <1>12
        DEF Next, EmitterStep
-----------------------------------------------------------------------------
(* The time stamps. *)

\* Within, of given base instants and lateness.
Bounded(f, t, e, l, s) ==
    t = None \/ (e # None /\ e <= t /\ t - l <= f /\ f <= t - e + s)

ValueBounded(v, o, e, l, s) ==
    /\ v.format # "current" => o.last_suppressed = None /\ o.first_unreported = None
    /\ v.format = "current" => /\ Bounded(v.last_suppressed, o.last_suppressed, e, l, s)
                               /\ Bounded(v.first_unreported, o.first_unreported, e, l, s)

\* The copy c, or the claim k, of a process whose base instants are base and b.
CopyBounded(c, base, b, e, l, s) ==
    /\ Bounded(base + c.state.last_suppressed - b, c.origin.last_suppressed, e, l, s)
    /\ Bounded(base + c.state.first_unreported - b, c.origin.first_unreported, e, l, s)

ClaimBounded(k, base, b, e, l, s) ==
    /\ Bounded(base + k.taken.first_suppressed - b, k.origin.first_suppressed, e, l, s)
    /\ Bounded(base + k.taken.last_suppressed - b, k.origin.last_suppressed, e, l, s)

\* DriftInv, in terms of Bounded.
LEMMA DriftParts ==
    ASSUME DriftInv
    PROVE  /\ value # None => ValueBounded(value, origin, earliest, latest, lateness)
           /\ \A p \in Processes : held[p] # None =>
                 CopyBounded(held[p], counter_base[p], base_instant[p], earliest, latest, lateness)
           /\ walk # None =>
                 /\ CopyBounded(walk, counter_base[Emitter], base_instant[Emitter],
                                earliest, latest, lateness)
                 /\ ClaimBounded(walk.claim, counter_base[Emitter], base_instant[Emitter],
                                 earliest, latest, lateness)
           /\ claim # None =>
                 ClaimBounded(claim, counter_base[Emitter], base_instant[Emitter],
                              earliest, latest, lateness)
  BY DEF DriftInv, ValueBounded, CopyBounded, ClaimBounded, Bounded, CopyWithin, ClaimWithin,
         Within, Offset

\* DriftInv after a step, in terms of Bounded.
LEMMA DriftNext ==
    ASSUME value' # None => ValueBounded(value', origin', earliest', latest', lateness'),
           \A p \in Processes : held'[p] # None =>
              CopyBounded(held'[p], counter_base'[p], base_instant'[p], earliest', latest', lateness'),
           walk' # None =>
              /\ CopyBounded(walk', counter_base'[Emitter], base_instant'[Emitter],
                             earliest', latest', lateness')
              /\ ClaimBounded(walk'.claim, counter_base'[Emitter], base_instant'[Emitter],
                              earliest', latest', lateness'),
           claim' # None =>
              ClaimBounded(claim', counter_base'[Emitter], base_instant'[Emitter],
                           earliest', latest', lateness')
    PROVE  DriftInv'
  BY DEF DriftInv, ValueBounded, CopyBounded, ClaimBounded, Bounded, CopyWithin, ClaimWithin,
         Within, Offset

\* The bounds only grow.
LEMMA BoundedGrows ==
    ASSUME NEW f \in Int, NEW t \in Nat \cup {None},
           NEW e, NEW l, NEW s \in Nat, NEW d, NEW k, NEW r \in Nat,
           e # None => e \in Nat /\ l \in Nat /\ d = e /\ d # None /\ k \in Nat /\ l <= k,
           s <= r, Bounded(f, t, e, l, s)
    PROVE  Bounded(f, t, d, k, r)
  BY DEF Bounded

\* How the history of the base instants goes on.
LEMMA BoundsGrow ==
    ASSUME TypeOK, BasesInv, HandsInv, TypeOK', [Next]_vars
    PROVE  /\ earliest # None =>
                 /\ earliest \in Nat /\ latest \in Nat
                 /\ earliest' = earliest /\ earliest' # None /\ latest' \in Nat /\ latest <= latest'
           /\ lateness \in Nat /\ lateness' \in Nat /\ lateness <= lateness'
<1>0. Emitter \in Processes
  BY EmitterAssumption
<1>1. /\ earliest # None => earliest \in Nat /\ latest \in Nat /\ latest <= clock
      /\ clock \in Nat /\ lateness \in Nat /\ lateness' \in Nat
  BY DEF TypeOK, BasesInv
<1> DEFINE Grow == /\ earliest # None => /\ earliest' = earliest /\ earliest' # None
                                         /\ latest' \in Nat /\ latest <= latest'
                   /\ lateness <= lateness'
<1>2. ASSUME UNCHANGED <<connects, lateness>> PROVE Grow
  BY <1>1, <1>2 DEF connects
<1>3. ASSUME NEW p \in Processes, Connect(p) PROVE Grow
  BY <1>1, <1>3 DEF Connect
<1>4. ASSUME NEW p \in Processes, FixBase(p), base_instant[p] # None, UNCHANGED connects
      PROVE  Grow
  <2>1. lateness <= lateness'
    BY <1>1, <1>4, FixFacts
  <2> QED BY <1>1, <1>4, <2>1 DEF connects
<1> HIDE DEF Grow
<1>5. ASSUME NEW p \in Processes, RecordSuppression(p) PROVE Grow
  BY <1>4, <1>5 DEF RecordSuppression
<1>6. ASSUME CollectGet PROVE Grow
  <2>1. base_instant[Emitter] # None /\ FixBase(Emitter) /\ UNCHANGED connects
    BY <1>6 DEF CollectGet
  <2> QED BY <1>0, <1>4, <2>1
<1>7. ASSUME RollbackGet PROVE Grow
  <2>1. base_instant[Emitter] # None /\ FixBase(Emitter) /\ UNCHANGED connects
    BY <1>0, <1>7 DEF RollbackGet, HandsInv, BasesInv
  <2> QED BY <1>0, <1>4, <2>1
<1>8. Grow
  <2>1. CASE Tick \/ Expire \/ CollectSet \/ Emit \/ RollbackSet \/ RollbackMisses \/ UNCHANGED vars
    BY <1>2, <2>1 DEF Tick, Expire, CollectSet, Emit, RollbackSet, RollbackMisses, vars
  <2>2. ASSUME NEW p \in Processes, Crash(p) \/ StoreSuppression(p) PROVE Grow
    BY <1>2, <2>2 DEF Crash, StoreSuppression
  <2> QED BY <1>3, <1>5, <1>6, <1>7, <2>1, <2>2 DEF Next, EmitterStep
<1> QED BY <1>1, <1>8 DEF Grow

\* A process that has fixed its BASE keeps both base instants, or it crashes
\* and drops what it had in its hands.
LEMMA HolderKept ==
    ASSUME TypeOK, BasesInv, HandsInv, [Next]_vars,
           NEW q \in Processes, counter_base[q] # None
    PROVE  \/ counter_base'[q] = counter_base[q] /\ base_instant'[q] = base_instant[q]
           \/ held'[q] = None /\ (q = Emitter => walk' = None /\ claim' = None)
<1>0. Emitter \in Processes
  BY EmitterAssumption
<1> DEFINE Kept == counter_base'[q] = counter_base[q] /\ base_instant'[q] = base_instant[q]
<1>1. ASSUME UNCHANGED process PROVE Kept
  BY <1>1 DEF process
<1>2. ASSUME NEW p \in Processes, Connect(p) PROVE Kept
  <2>1. p # q
    BY <1>2 DEF Connect, BasesInv
  <2>2. base_instant'[q] = base_instant[q]
    BY <1>2, <2>1 DEF Connect, TypeOK
  <2>3. counter_base'[q] = counter_base[q]
    BY <1>2, <2>1 DEF Connect, TypeOK
  <2> QED BY <2>2, <2>3
<1>3. ASSUME NEW p \in Processes, Crash(p)
      PROVE  \/ Kept
             \/ held'[q] = None /\ (q = Emitter => walk' = None /\ claim' = None)
  <2>1. CASE p = q
    BY <1>3, <2>1 DEF Crash, TypeOK
  <2>2. CASE p # q
    <3>1. base_instant'[q] = base_instant[q]
      BY <1>3, <2>2 DEF Crash, TypeOK
    <3>2. counter_base'[q] = counter_base[q]
      BY <1>3, <2>2 DEF Crash, TypeOK
    <3> QED BY <3>1, <3>2
  <2> QED BY <2>1, <2>2
<1>4. ASSUME NEW p \in Processes, FixBase(p), base_instant[p] # None, UNCHANGED base_instant
      PROVE  Kept
  BY <1>4, FixFacts
<1>5. ASSUME NEW p \in Processes, RecordSuppression(p) PROVE Kept
  BY <1>4, <1>5 DEF RecordSuppression
<1>6. CASE CollectGet
  BY <1>0, <1>4, <1>6 DEF CollectGet
<1>7. CASE RollbackGet
  <2>1. base_instant[Emitter] # None /\ FixBase(Emitter) /\ UNCHANGED base_instant
    BY <1>0, <1>7 DEF RollbackGet, HandsInv, BasesInv
  <2> QED BY <1>0, <1>4, <2>1
<1>8. CASE Tick \/ Expire \/ CollectSet \/ Emit \/ RollbackSet \/ RollbackMisses \/ UNCHANGED vars
  BY <1>1, <1>8 DEF Tick, Expire, CollectSet, Emit, RollbackSet, RollbackMisses, vars
<1>9. ASSUME NEW p \in Processes, StoreSuppression(p) PROVE Kept
  BY <1>1, <1>9 DEF StoreSuppression
<1> QED BY <1>2, <1>3, <1>5, <1>6, <1>7, <1>8, <1>9 DEF Next, EmitterStep

\* The stamps of a copy that is kept stay bounded, when its holder keeps its
\* base instants.
LEMMA KeptCopy ==
    ASSUME TypeOK, BasesInv, HandsInv, DriftInv, TypeOK', [Next]_vars,
           NEW c \in Copies, NEW d, d.state = c.state, d.origin = c.origin,
           NEW base \in Nat, NEW b \in Nat,
           CopyBounded(c, base, b, earliest, latest, lateness)
    PROVE  CopyBounded(d, base, b, earliest', latest', lateness')
<1>1. /\ c.state.last_suppressed \in Nat /\ c.state.first_unreported \in Nat
      /\ c.origin.last_suppressed \in Nat \cup {None}
      /\ c.origin.first_unreported \in Nat \cup {None}
  BY CopyFacts, CounterTypes
<1>2. /\ base + c.state.last_suppressed - b \in Int
      /\ base + c.state.first_unreported - b \in Int
  BY <1>1
<1>3. /\ earliest # None =>
            /\ earliest \in Nat /\ latest \in Nat
            /\ earliest' = earliest /\ earliest' # None /\ latest' \in Nat /\ latest <= latest'
      /\ lateness \in Nat /\ lateness' \in Nat /\ lateness <= lateness'
  BY BoundsGrow
<1>4. Bounded(base + c.state.last_suppressed - b, c.origin.last_suppressed,
              earliest', latest', lateness')
  BY <1>1, <1>2, <1>3, BoundedGrows DEF CopyBounded
<1>5. Bounded(base + c.state.first_unreported - b, c.origin.first_unreported,
              earliest', latest', lateness')
  BY <1>1, <1>2, <1>3, BoundedGrows DEF CopyBounded
<1> QED BY <1>4, <1>5 DEF CopyBounded

\* The stamps of a claim that is kept stay bounded.
LEMMA KeptClaim ==
    ASSUME TypeOK, BasesInv, HandsInv, DriftInv, TypeOK', [Next]_vars,
           NEW k \in Claims, SoundClaim(k),
           NEW base \in Nat, NEW b \in Nat,
           ClaimBounded(k, base, b, earliest, latest, lateness)
    PROVE  ClaimBounded(k, base, b, earliest', latest', lateness')
<1>1. /\ k.taken.first_suppressed \in Nat /\ k.taken.last_suppressed \in Nat
      /\ k.origin.first_suppressed \in Nat \cup {None}
      /\ k.origin.last_suppressed \in Nat \cup {None}
  BY SoundClaimFacts
<1>2. /\ base + k.taken.first_suppressed - b \in Int
      /\ base + k.taken.last_suppressed - b \in Int
  BY <1>1
<1>3. /\ earliest # None =>
            /\ earliest \in Nat /\ latest \in Nat
            /\ earliest' = earliest /\ earliest' # None /\ latest' \in Nat /\ latest <= latest'
      /\ lateness \in Nat /\ lateness' \in Nat /\ lateness <= lateness'
  BY BoundsGrow
<1>4. Bounded(base + k.taken.first_suppressed - b, k.origin.first_suppressed,
              earliest', latest', lateness')
  BY <1>1, <1>2, <1>3, BoundedGrows DEF ClaimBounded
<1>5. Bounded(base + k.taken.last_suppressed - b, k.origin.last_suppressed,
              earliest', latest', lateness')
  BY <1>1, <1>2, <1>3, BoundedGrows DEF ClaimBounded
<1> QED BY <1>4, <1>5 DEF ClaimBounded

\* The stamps of a value that is kept stay bounded.
LEMMA KeptValue ==
    ASSUME TypeOK, BasesInv, HandsInv, SoundInv, DriftInv, TypeOK', [Next]_vars,
           UNCHANGED <<value, origin>>, value # None
    PROVE  ValueBounded(value, origin, earliest', latest', lateness')
<1>1. /\ origin.last_suppressed \in Nat \cup {None} /\ origin.first_unreported \in Nat \cup {None}
      /\ value.last_suppressed \in Nat
      /\ value.format = "current" => value.first_unreported \in Nat
  BY ValueFacts, CounterTypes DEF TypeOK
<1>2. ValueBounded(value, origin, earliest, latest, lateness)
  BY DriftParts
<1>3. /\ earliest # None =>
            /\ earliest \in Nat /\ latest \in Nat
            /\ earliest' = earliest /\ earliest' # None /\ latest' \in Nat /\ latest <= latest'
      /\ lateness \in Nat /\ lateness' \in Nat /\ lateness <= lateness'
  BY BoundsGrow
<1>4. ASSUME value.format = "current"
      PROVE  Bounded(value.last_suppressed, origin.last_suppressed, earliest', latest', lateness')
  <2> DEFINE f == value.last_suppressed
             t == origin.last_suppressed
  <2>1. f \in Int /\ t \in Nat \cup {None}
    BY <1>1, <1>4
  <2>2. Bounded(f, t, earliest, latest, lateness)
    BY <1>2, <1>4 DEF ValueBounded
  <2> HIDE DEF f, t
  <2>3. Bounded(f, t, earliest', latest', lateness')
    BY <1>3, <2>1, <2>2, BoundedGrows
  <2> QED BY <2>3 DEF f, t
<1>5. ASSUME value.format = "current"
      PROVE  Bounded(value.first_unreported, origin.first_unreported, earliest', latest', lateness')
  <2> DEFINE f == value.first_unreported
             t == origin.first_unreported
  <2>1. f \in Int /\ t \in Nat \cup {None}
    BY <1>1, <1>5
  <2>2. Bounded(f, t, earliest, latest, lateness)
    BY <1>2, <1>5 DEF ValueBounded
  <2> HIDE DEF f, t
  <2>3. Bounded(f, t, earliest', latest', lateness')
    BY <1>3, <2>1, <2>2, BoundedGrows
  <2> QED BY <2>3 DEF f, t
<1> QED BY <1>2, <1>4, <1>5 DEF ValueBounded

\* The arithmetic of a stamp that a process whose base instants are base and b
\* makes of now.
LEMMA NowBounded ==
    ASSUME NEW b \in Nat, NEW base \in Nat, b <= base, NEW now \in Nat, b <= now,
           NEW e \in Nat, NEW l \in Nat, NEW s \in Nat, e <= b, b <= l, base - b <= s, e # None
    PROVE  Bounded(base + SaturatingSub(now, base) - b, now, e, l, s)
<1> DEFINE g == base + SaturatingSub(now, base) - b
<1>1. now - l <= g /\ g <= now - e + s
  BY DEF SaturatingSub
<1> HIDE DEF g
<1>2. Bounded(g, now, e, l, s)
  BY <1>1 DEF Bounded
<1> QED BY <1>2 DEF g

\* The same of one that it reads and writes again.
LEMMA RenewedBounded ==
    ASSUME NEW b \in Nat, NEW base \in Nat, b <= base, NEW f \in Nat, NEW t \in Nat \cup {None},
           NEW e \in Nat, NEW l \in Nat, NEW s \in Nat, NEW r \in Nat, s <= r, base - b <= r,
           Bounded(f, t, e, l, s)
    PROVE  Bounded(base + SaturatingSub(b + f, base) - b, t, e, l, r)
<1> DEFINE g == base + SaturatingSub(b + f, base) - b
<1>1. g \in Nat /\ g \in {f, base - b} /\ g >= f
  BY Renewal
<1> HIDE DEF g
<1>2. CASE t = None
  BY <1>2 DEF Bounded, g
<1>3. CASE t # None
  <2>1. t \in Nat /\ e # None /\ e <= t /\ t - l <= f /\ f <= t - e + s
    BY <1>3 DEF Bounded
  <2>2. t - l <= g
    BY <1>1, <2>1
  <2>3. g <= t - e + r
    BY <1>1, <2>1
  <2> QED BY <2>1, <2>2, <2>3 DEF Bounded, g
<1> QED BY <1>2, <1>3

\* What a process that fixes its BASE knows of the base instants.
LEMMA FixBounds ==
    ASSUME TypeOK, BasesInv, NEW p \in Processes, base_instant[p] # None, FixBase(p)
    PROVE  /\ base_instant[p] \in Nat /\ Base(p) \in Nat /\ base_instant[p] <= Base(p)
           /\ counter_base'[p] = Base(p)
           /\ earliest \in Nat /\ latest \in Nat /\ lateness \in Nat /\ lateness' \in Nat
           /\ earliest # None /\ earliest <= base_instant[p] /\ base_instant[p] <= latest
           /\ lateness <= lateness' /\ Base(p) - base_instant[p] <= lateness'
  BY BaseFacts, FixFacts, NoneAssumption DEF TypeOK

\* The stamps of an event that is suppressed now.
LEMMA NowStamps ==
    ASSUME TypeOK, BasesInv, NEW p \in Processes, base_instant[p] # None, FixBase(p),
           NEW now \in base_instant[p] .. clock
    PROVE  Bounded(counter_base'[p] + InstantToNanos(p, now) - base_instant[p], now,
                   earliest, latest, lateness')
<1> DEFINE b == base_instant[p]
           base == Base(p)
           e == earliest
           l == latest
           s == lateness'
<1>1. now \in Nat /\ b <= now
  BY NowFacts, BaseFacts
<1>2. /\ b \in Nat /\ base \in Nat /\ b <= base
      /\ e \in Nat /\ l \in Nat /\ s \in Nat
      /\ e # None /\ e <= b /\ b <= l /\ base - b <= s
  BY FixBounds
<1>3. counter_base'[p] = base
  BY FixBounds
<1> HIDE DEF b, base, e, l, s
<1>4. Bounded(base + SaturatingSub(now, base) - b, now, e, l, s)
  BY <1>1, <1>2, NowBounded
<1> QED BY <1>3, <1>4 DEF b, base, e, l, s, InstantToNanos

\* The stamps that a process reads stay bounded.
LEMMA ReadStamps ==
    ASSUME TypeOK, BasesInv, SoundInv, DriftInv, NEW p \in Processes,
           base_instant[p] # None, FixBase(p), NEW now \in base_instant[p] .. clock,
           NEW c, c = Read(p, now), NEW o, o = OriginRead(now)
    PROVE  /\ Bounded(counter_base'[p] + c.last_suppressed - base_instant[p],
                      o.last_suppressed, earliest, latest, lateness')
           /\ Bounded(counter_base'[p] + c.first_unreported - base_instant[p],
                      o.first_unreported, earliest, latest, lateness')
<1>1. now \in Nat /\ InstantToNanos(p, now) \in Nat
  BY NowFacts
<1>2. CASE value = None
  <2>1. c = NewCounter(InstantToNanos(p, now)) /\ o = NewCounter(now)
    BY <1>2 DEF Read, OriginRead
  <2>2. /\ c.last_suppressed = InstantToNanos(p, now) /\ c.first_unreported = InstantToNanos(p, now)
        /\ o.last_suppressed = now /\ o.first_unreported = now
    BY <2>1 DEF NewCounter
  <2> QED BY <2>2, NowStamps
<1>3. CASE value # None /\ value.format # "current"
  <2>1. o = origin
    BY <1>3 DEF OriginRead
  <2>2. o.last_suppressed = None /\ o.first_unreported = None
    BY <1>3, <2>1 DEF DriftInv
  <2> QED BY <2>2 DEF Bounded
<1>4. CASE value # None /\ value.format = "current"
  <2> DEFINE b == base_instant[p]
             base == Base(p)
             e == earliest
             l == latest
             s == lateness
             r == lateness'
             f == value.last_suppressed
             u == value.first_unreported
  <2>1. o = origin /\ f \in Nat /\ u \in Nat
    BY <1>4, ValueFacts DEF OriginRead
  <2>2. o.last_suppressed \in Nat \cup {None} /\ o.first_unreported \in Nat \cup {None}
    BY <2>1, CounterTypes DEF TypeOK
  <2>3. /\ b \in Nat /\ base \in Nat /\ b <= base
        /\ e \in Nat /\ l \in Nat /\ s \in Nat /\ r \in Nat /\ s <= r /\ base - b <= r
    BY FixBounds
  <2>4. /\ c.last_suppressed = SaturatingSub(b + f, base)
        /\ c.first_unreported = SaturatingSub(b + u, base)
    BY <1>1, <1>4, ReadFacts
  <2>5. Bounded(f, o.last_suppressed, e, l, s) /\ Bounded(u, o.first_unreported, e, l, s)
    BY <1>4, <2>1, DriftParts DEF ValueBounded
  <2>6. counter_base'[p] = base
    BY FixBounds
  <2> HIDE DEF b, base, e, l, s, r, f, u
  <2>7. Bounded(base + SaturatingSub(b + f, base) - b, o.last_suppressed, e, l, r)
    BY <2>1, <2>2, <2>3, <2>5, RenewedBounded
  <2>8. Bounded(base + SaturatingSub(b + u, base) - b, o.first_unreported, e, l, r)
    BY <2>1, <2>2, <2>3, <2>5, RenewedBounded
  <2> QED BY <2>4, <2>6, <2>7, <2>8 DEF b, e, l, r
<1> QED BY <1>2, <1>3, <1>4

\* The stamps of a value that a process writes are those of its copy.
LEMMA WrittenStamps ==
    ASSUME TypeOK, BasesInv, DriftInv, NEW p \in Processes, counter_base[p] # None,
           NEW c \in Copies, c.state.reported_count <= c.state.suppressed_count, Write(p, c),
           UNCHANGED <<connects, lateness>>,
           CopyBounded(c, counter_base[p], base_instant[p], earliest, latest, lateness)
    PROVE  ValueBounded(value', origin', earliest', latest', lateness')
<1>1. /\ value'.format = "current" /\ origin' = c.origin
      /\ value'.last_suppressed = Offset(p, c.state.last_suppressed)
      /\ value'.first_unreported = Offset(p, c.state.first_unreported)
  BY WriteFacts
<1>2. earliest' = earliest /\ latest' = latest /\ lateness' = lateness
  BY DEF connects
<1> QED BY <1>1, <1>2 DEF ValueBounded, CopyBounded, Offset

\* What stays in the hands of a process stays bounded.
LEMMA HandsKept ==
    ASSUME TypeOK, BasesInv, HandsInv, SoundInv, DriftInv, TypeOK', [Next]_vars
    PROVE  /\ \A q \in Processes :
                 /\ held[q] # None /\ held'[q] # None
                 /\ held'[q].state = held[q].state /\ held'[q].origin = held[q].origin
                 => CopyBounded(held'[q], counter_base'[q], base_instant'[q],
                                earliest', latest', lateness')
           /\ /\ walk # None /\ walk' # None
              /\ walk'.state = walk.state /\ walk'.origin = walk.origin
              /\ walk'.claim = walk.claim
              => /\ CopyBounded(walk', counter_base'[Emitter], base_instant'[Emitter],
                                earliest', latest', lateness')
                 /\ ClaimBounded(walk'.claim, counter_base'[Emitter], base_instant'[Emitter],
                                 earliest', latest', lateness')
           /\ walk # None /\ claim' # None /\ claim' = walk.claim
              => ClaimBounded(claim', counter_base'[Emitter], base_instant'[Emitter],
                              earliest', latest', lateness')
           /\ claim # None /\ claim' # None /\ claim' = claim
              => ClaimBounded(claim', counter_base'[Emitter], base_instant'[Emitter],
                              earliest', latest', lateness')
<1>0. Emitter \in Processes
  BY EmitterAssumption
<1>1. ASSUME NEW q \in Processes, counter_base[q] # None
      PROVE  base_instant[q] \in Nat /\ counter_base[q] \in Nat
  BY <1>1 DEF TypeOK, BasesInv
<1>2. ASSUME NEW q \in Processes, held[q] # None, held'[q] # None,
             held'[q].state = held[q].state, held'[q].origin = held[q].origin
      PROVE  CopyBounded(held'[q], counter_base'[q], base_instant'[q],
                         earliest', latest', lateness')
  <2>1. counter_base[q] # None /\ held[q] \in Copies
    BY <1>2 DEF HandsInv, TypeOK
  <2>2. counter_base'[q] = counter_base[q] /\ base_instant'[q] = base_instant[q]
    BY <1>2, <2>1, HolderKept
  <2>3. CopyBounded(held[q], counter_base[q], base_instant[q], earliest, latest, lateness)
    BY <1>2, DriftParts
  <2> DEFINE c == held[q]
             d == held'[q]
             base == counter_base[q]
             b == base_instant[q]
  <2>4. /\ c \in Copies /\ d.state = c.state /\ d.origin = c.origin /\ base \in Nat /\ b \in Nat
        /\ CopyBounded(c, base, b, earliest, latest, lateness)
    BY <1>1, <1>2, <2>1, <2>3
  <2> HIDE DEF c, d, base, b
  <2>5. CopyBounded(d, base, b, earliest', latest', lateness')
    BY <2>4, KeptCopy
  <2> QED BY <2>2, <2>5 DEF d, base, b
<1> DEFINE base == counter_base[Emitter]
           b == base_instant[Emitter]
<1>3. ASSUME walk # None, walk' # None \/ claim' # None
      PROVE  /\ base \in Nat /\ b \in Nat
             /\ counter_base'[Emitter] = base /\ base_instant'[Emitter] = b
  <2>1. counter_base[Emitter] # None
    BY <1>3 DEF HandsInv
  <2> QED BY <1>0, <1>1, <1>3, <2>1, HolderKept
<1>4. ASSUME claim # None, claim' # None
      PROVE  /\ base \in Nat /\ b \in Nat
             /\ counter_base'[Emitter] = base /\ base_instant'[Emitter] = b
  <2>1. counter_base[Emitter] # None
    BY <1>4 DEF HandsInv
  <2> QED BY <1>0, <1>1, <1>4, <2>1, HolderKept
<1>5. ASSUME walk # None
      PROVE  /\ walk \in Copies /\ walk.claim \in Claims /\ SoundClaim(walk.claim)
             /\ CopyBounded(walk, base, b, earliest, latest, lateness)
             /\ ClaimBounded(walk.claim, base, b, earliest, latest, lateness)
  BY <1>5, WalkFacts, DriftParts
<1>6. ASSUME claim # None
      PROVE  /\ claim \in Claims /\ SoundClaim(claim)
             /\ ClaimBounded(claim, base, b, earliest, latest, lateness)
  BY <1>6, DriftParts DEF SoundInv, TypeOK
<1> HIDE DEF base, b
<1>7. ASSUME walk # None, walk' # None \/ claim' # None
      PROVE  ClaimBounded(walk.claim, base, b, earliest', latest', lateness')
  <2> DEFINE k == walk.claim
  <2>1. k \in Claims /\ SoundClaim(k) /\ base \in Nat /\ b \in Nat
        /\ ClaimBounded(k, base, b, earliest, latest, lateness)
    BY <1>3, <1>5, <1>7
  <2> HIDE DEF k
  <2>2. ClaimBounded(k, base, b, earliest', latest', lateness')
    BY <2>1, KeptClaim
  <2> QED BY <2>2 DEF k
<1>8. ASSUME walk # None, walk' # None, walk'.state = walk.state, walk'.origin = walk.origin
      PROVE  CopyBounded(walk', base, b, earliest', latest', lateness')
  <2> DEFINE c == walk
             d == walk'
  <2>1. /\ c \in Copies /\ d.state = c.state /\ d.origin = c.origin /\ base \in Nat /\ b \in Nat
        /\ CopyBounded(c, base, b, earliest, latest, lateness)
    BY <1>3, <1>5, <1>8
  <2> HIDE DEF c, d
  <2>2. CopyBounded(d, base, b, earliest', latest', lateness')
    BY <2>1, KeptCopy
  <2> QED BY <2>2 DEF d
<1>9. ASSUME claim # None, claim' # None
      PROVE  ClaimBounded(claim, base, b, earliest', latest', lateness')
  <2> DEFINE k == claim
  <2>1. k \in Claims /\ SoundClaim(k) /\ base \in Nat /\ b \in Nat
        /\ ClaimBounded(k, base, b, earliest, latest, lateness)
    BY <1>4, <1>6, <1>9
  <2> HIDE DEF k
  <2>2. ClaimBounded(k, base, b, earliest', latest', lateness')
    BY <2>1, KeptClaim
  <2> QED BY <2>2 DEF k
<1>10. ASSUME walk # None, walk' # None, walk'.state = walk.state, walk'.origin = walk.origin,
              walk'.claim = walk.claim
       PROVE  /\ CopyBounded(walk', counter_base'[Emitter], base_instant'[Emitter],
                             earliest', latest', lateness')
              /\ ClaimBounded(walk'.claim, counter_base'[Emitter], base_instant'[Emitter],
                              earliest', latest', lateness')
  <2>1. counter_base'[Emitter] = base /\ base_instant'[Emitter] = b
    BY <1>3, <1>10
  <2>2. CopyBounded(walk', base, b, earliest', latest', lateness')
    BY <1>8, <1>10
  <2>3. ClaimBounded(walk'.claim, base, b, earliest', latest', lateness')
    BY <1>7, <1>10
  <2> QED BY <2>1, <2>2, <2>3
<1>11. ASSUME walk # None, claim' # None, claim' = walk.claim
       PROVE  ClaimBounded(claim', counter_base'[Emitter], base_instant'[Emitter],
                           earliest', latest', lateness')
  BY <1>3, <1>7, <1>11
<1>12. ASSUME claim # None, claim' # None, claim' = claim
       PROVE  ClaimBounded(claim', counter_base'[Emitter], base_instant'[Emitter],
                           earliest', latest', lateness')
  BY <1>4, <1>9, <1>12
<1> QED BY <1>2, <1>10, <1>11, <1>12

\* DriftInv is preserved when what is stored is, and what is in hand stays or goes.
LEMMA DriftKept ==
    ASSUME TypeOK, BasesInv, HandsInv, SoundInv, DriftInv, TypeOK', [Next]_vars,
           value' = None \/ UNCHANGED <<value, origin>>,
           \A q \in Processes : held'[q] = None \/ held'[q] = held[q],
           walk' = None \/ walk' = walk, claim' = None \/ claim' = claim
    PROVE  DriftInv'
<1>1. value' # None => ValueBounded(value', origin', earliest', latest', lateness')
  BY KeptValue
<1>2. \A q \in Processes : held'[q] # None =>
         CopyBounded(held'[q], counter_base'[q], base_instant'[q], earliest', latest', lateness')
  BY HandsKept
<1>3. walk' # None =>
         /\ CopyBounded(walk', counter_base'[Emitter], base_instant'[Emitter],
                        earliest', latest', lateness')
         /\ ClaimBounded(walk'.claim, counter_base'[Emitter], base_instant'[Emitter],
                         earliest', latest', lateness')
  BY HandsKept
<1>4. claim' # None => ClaimBounded(claim', counter_base'[Emitter], base_instant'[Emitter],
                                    earliest', latest', lateness')
  BY HandsKept
<1> QED BY <1>1, <1>2, <1>3, <1>4, DriftNext

\* DriftInv is preserved when an event takes the entry into its hands.
LEMMA DriftRecord ==
    ASSUME TypeOK, BasesInv, HandsInv, SoundInv, DriftInv, TypeOK', [Next]_vars,
           NEW p \in Processes, RecordSuppression(p)
    PROVE  DriftInv'
<1>1. /\ base_instant[p] # None /\ FixBase(p)
      /\ UNCHANGED <<base_instant, value, origin, walk, claim, earliest, latest>>
  BY DEF RecordSuppression, stored, connects
<1>2. PICK now \in base_instant[p] .. clock, c \in Counter(Nat), o \in Counter(Nat \cup {None}),
           missed \in Nat :
        /\ held' = [held EXCEPT ![p] = Copy(AfterSuppression(c, InstantToNanos(p, now)),
                                            AfterSuppression(o, now), None, missed, 0)]
        /\ Sound(c, o)
        /\ \/ missed = 0 /\ c = Read(p, now) /\ o = OriginRead(now)
           \/ /\ missed = UnreportedStored
              /\ c = NewCounter(InstantToNanos(p, now)) /\ o = NewCounter(now)
  BY RecordFacts
<1>3. now \in Nat /\ InstantToNanos(p, now) \in Nat
  BY <1>1, NowFacts
<1> DEFINE ts == InstantToNanos(p, now)
           k == Copy(AfterSuppression(c, ts), AfterSuppression(o, now), None, missed, 0)
           base == counter_base'[p]
           b == base_instant[p]
<1>4. Bounded(base + ts - b, now, earliest, latest, lateness')
  BY <1>1, NowStamps
<1>5. Bounded(base + c.first_unreported - b, o.first_unreported, earliest, latest, lateness')
  <2>1. CASE c = Read(p, now) /\ o = OriginRead(now)
    BY <1>1, <2>1, ReadStamps
  <2>2. CASE c = NewCounter(ts) /\ o = NewCounter(now)
    <3>1. c.first_unreported = ts /\ o.first_unreported = now
      BY <2>2 DEF NewCounter
    <3> QED BY <1>4, <3>1
  <2> QED BY <1>2, <2>1, <2>2
<1>6. held'[p] = k /\ \A q \in Processes \ {p} : held'[q] = held[q]
  BY <1>2 DEF TypeOK
<1>7. /\ k.state.last_suppressed = ts /\ k.origin.last_suppressed = now
      /\ \/ k.state.first_unreported = ts /\ k.origin.first_unreported = now
         \/ /\ k.state.first_unreported = c.first_unreported
            /\ k.origin.first_unreported = o.first_unreported
  <2>1. ts \in Nat /\ k = Copy(AfterSuppression(c, ts), AfterSuppression(o, now), None, missed, 0)
    BY <1>3
  <2>2. /\ c \in Counter(Nat) /\ o \in Counter(Nat \cup {None}) /\ Sound(c, o)
        /\ now \in Nat /\ missed \in Nat
    BY <1>2, <1>3
  <2> HIDE DEF ts, k
  <2> QED BY <2>1, <2>2, RecordStamps, SMTT(60)
<1> HIDE DEF ts, k
<1>8. CopyBounded(k, base, b, earliest, latest, lateness')
  <2> HIDE DEF base, b
  <2> QED BY <1>4, <1>5, <1>7 DEF CopyBounded
<1>9. base_instant'[p] = b /\ earliest' = earliest /\ latest' = latest
  BY <1>1
<1>10. \A q \in Processes : held'[q] # None =>
          CopyBounded(held'[q], counter_base'[q], base_instant'[q], earliest', latest', lateness')
  <2>1. CopyBounded(held'[p], counter_base'[p], base_instant'[p], earliest', latest', lateness')
    BY <1>6, <1>8, <1>9
  <2> QED BY <1>6, <2>1, HandsKept
<1>11. value' # None => ValueBounded(value', origin', earliest', latest', lateness')
  BY <1>1, KeptValue
<1>12. walk' # None =>
         /\ CopyBounded(walk', counter_base'[Emitter], base_instant'[Emitter],
                        earliest', latest', lateness')
         /\ ClaimBounded(walk'.claim, counter_base'[Emitter], base_instant'[Emitter],
                         earliest', latest', lateness')
  BY <1>1, HandsKept
<1>13. claim' # None => ClaimBounded(claim', counter_base'[Emitter], base_instant'[Emitter],
                                     earliest', latest', lateness')
  BY <1>1, HandsKept
<1> QED BY <1>10, <1>11, <1>12, <1>13, DriftNext

\* DriftInv is preserved when a copy is stored.
LEMMA DriftStore ==
    ASSUME TypeOK, BasesInv, HandsInv, SoundInv, DriftInv, TypeOK', [Next]_vars,
           UNCHANGED <<connects, lateness>>,
           NEW p \in Processes, counter_base[p] # None,
           NEW c \in Copies, c.state.reported_count <= c.state.suppressed_count, Write(p, c),
           CopyBounded(c, counter_base[p], base_instant[p], earliest, latest, lateness),
           \A q \in Processes :
              held'[q] # None => /\ held[q] # None
                                 /\ held'[q].state = held[q].state
                                 /\ held'[q].origin = held[q].origin,
           walk' # None => /\ walk # None /\ walk'.state = walk.state
                           /\ walk'.origin = walk.origin /\ walk'.claim = walk.claim,
           \/ claim' = None \/ claim' = claim
           \/ walk # None /\ claim' = walk.claim
    PROVE  DriftInv'
<1>1. ValueBounded(value', origin', earliest', latest', lateness')
  BY WrittenStamps
<1>2. \A q \in Processes : held'[q] # None =>
         CopyBounded(held'[q], counter_base'[q], base_instant'[q], earliest', latest', lateness')
  BY HandsKept
<1>3. walk' # None =>
         /\ CopyBounded(walk', counter_base'[Emitter], base_instant'[Emitter],
                        earliest', latest', lateness')
         /\ ClaimBounded(walk'.claim, counter_base'[Emitter], base_instant'[Emitter],
                         earliest', latest', lateness')
  BY HandsKept
<1>4. claim' # None => ClaimBounded(claim', counter_base'[Emitter], base_instant'[Emitter],
                                    earliest', latest', lateness')
  BY HandsKept
<1> QED BY <1>1, <1>2, <1>3, <1>4, DriftNext

\* DriftInv is preserved when a walk reads the entry.
LEMMA DriftGet ==
    ASSUME TypeOK, BasesInv, HandsInv, SoundInv, DriftInv, TypeOK', [Next]_vars,
           UNCHANGED <<value, origin, held, claim, base_instant, earliest, latest>>,
           walk' # None,
           CopyBounded(walk', counter_base'[Emitter], base_instant[Emitter],
                       earliest, latest, lateness'),
           ClaimBounded(walk'.claim, counter_base'[Emitter], base_instant[Emitter],
                        earliest, latest, lateness')
    PROVE  DriftInv'
<1>1. value' # None => ValueBounded(value', origin', earliest', latest', lateness')
  BY KeptValue
<1>2. \A q \in Processes : held'[q] # None =>
         CopyBounded(held'[q], counter_base'[q], base_instant'[q], earliest', latest', lateness')
  BY HandsKept
<1>3. /\ CopyBounded(walk', counter_base'[Emitter], base_instant'[Emitter],
                     earliest', latest', lateness')
      /\ ClaimBounded(walk'.claim, counter_base'[Emitter], base_instant'[Emitter],
                      earliest', latest', lateness')
  OBVIOUS
<1>4. claim' # None => ClaimBounded(claim', counter_base'[Emitter], base_instant'[Emitter],
                                    earliest', latest', lateness')
  BY HandsKept
<1> QED BY <1>1, <1>2, <1>3, <1>4, DriftNext

\* DriftInv is preserved.
LEMMA DriftStep ==
    ASSUME TypeOK, BasesInv, HandsInv, SoundInv, DriftInv, TypeOK', [Next]_vars
    PROVE  DriftInv'
<1>0. Emitter \in Processes
  BY EmitterAssumption
<1>1. CASE UNCHANGED <<stored, held, walk, claim>>
  BY <1>1, DriftKept DEF stored
<1>2. ASSUME NEW p \in Processes, Connect(p) PROVE DriftInv'
  BY <1>1, <1>2 DEF Connect
<1>3. ASSUME NEW p \in Processes, Crash(p) PROVE DriftInv'
  <2>1. /\ \A q \in Processes : held'[q] = None \/ held'[q] = held[q]
        /\ claim' = None \/ claim' = claim
        /\ walk' = None \/ walk' = walk
        /\ UNCHANGED <<value, origin>>
    BY <1>3 DEF Crash, TypeOK, stored
  <2> QED BY <2>1, DriftKept
<1>4. ASSUME NEW p \in Processes, RecordSuppression(p) PROVE DriftInv'
  BY <1>4, DriftRecord
<1>5. ASSUME NEW p \in Processes, StoreSuppression(p) PROVE DriftInv'
  <2>1. /\ held[p] \in Copies /\ held[p] # None /\ counter_base[p] # None
        /\ held[p].state.reported_count <= held[p].state.suppressed_count
    BY <1>5, StoreFacts
  <2>2. claim' = claim /\ UNCHANGED <<connects, lateness>>
    BY <1>5 DEF StoreSuppression
  <2>3. CASE /\ Write(p, held[p]) /\ walk' = Behind(walk, 1, 0)
             /\ held'[p] = None
             /\ \A q \in Processes \ {p} :
                   /\ held'[q] = None <=> held[q] = None
                   /\ held[q] # None => /\ held'[q].state = held[q].state
                                        /\ held'[q].origin = held[q].origin
    <3> DEFINE c == held[p]
    <3>1. CopyBounded(c, counter_base[p], base_instant[p], earliest, latest, lateness)
      BY <2>1, DriftParts
    <3>2. walk' # None => /\ walk # None /\ walk'.state = walk.state
                          /\ walk'.origin = walk.origin /\ walk'.claim = walk.claim
      BY <2>3, WalkBehind
    <3>3. \A q \in Processes :
             held'[q] # None => /\ held[q] # None
                                /\ held'[q].state = held[q].state
                                /\ held'[q].origin = held[q].origin
      BY <2>3
    <3>4. /\ c \in Copies /\ c.state.reported_count <= c.state.suppressed_count /\ Write(p, c)
      BY <2>1, <2>3
    <3> HIDE DEF c
    <3> QED BY <2>1, <2>2, <3>1, <3>2, <3>3, <3>4, DriftStore
  <2>4. CASE /\ UNCHANGED <<value, origin, walk>> /\ held'[p] = None
             /\ \A q \in Processes \ {p} : held'[q] = held[q]
    BY <2>2, <2>4, DriftKept
  <2>5. held'[p] = None
    BY <1>5, StoreFacts
  <2> QED BY <1>5, <2>3, <2>4, <2>5, StoreFacts
<1>6. CASE Expire \/ Emit \/ RollbackMisses
  <2>1. /\ value' = None \/ UNCHANGED <<value, origin>>
        /\ UNCHANGED <<held, walk>> /\ (claim' = None \/ claim' = claim)
    BY <1>6 DEF Expire, Emit, RollbackMisses, stored
  <2> QED BY <2>1, DriftKept
<1>7. CASE CollectGet
  <2> DEFINE c == Read(Emitter, clock)
             w == [taken |-> ClaimOf(c), origin |-> ClaimOf(origin)]
  <2>1. /\ c \in Counter(Nat) /\ origin \in Counter(Nat \cup {None}) /\ Sound(c, origin)
        /\ c.reported_count < c.suppressed_count
        /\ base_instant[Emitter] # None /\ value # None
        /\ walk' = Copy(AfterClaim(c), AfterClaim(origin), w, 0, 0)
    BY <1>7, CollectFacts
  <2>2. /\ FixBase(Emitter)
        /\ UNCHANGED <<value, origin, held, claim, base_instant, earliest, latest>>
    BY <1>7 DEF CollectGet, stored, connects
  <2>3. clock \in base_instant[Emitter] .. clock /\ OriginRead(clock) = origin
    BY <1>0, <2>1, BaseFacts DEF OriginRead
  <2> DEFINE base == counter_base'[Emitter]
             b == base_instant[Emitter]
  <2>4. /\ Bounded(base + c.last_suppressed - b, origin.last_suppressed,
                   earliest, latest, lateness')
        /\ Bounded(base + c.first_unreported - b, origin.first_unreported,
                   earliest, latest, lateness')
    BY <1>0, <2>1, <2>2, <2>3, ReadStamps
  <2> HIDE DEF c, base, b
  <2>5. /\ w \in Claims
        /\ w.taken.first_suppressed = c.first_unreported
        /\ w.taken.last_suppressed = c.last_suppressed
        /\ w.origin.first_suppressed = origin.first_unreported
        /\ w.origin.last_suppressed = origin.last_suppressed
    <3>1. w \in Claims
      BY <2>1, CollectClaim
    <3>2. w.taken = ClaimOf(c) /\ w.origin = ClaimOf(origin)
      OBVIOUS
    <3> HIDE DEF w
    <3>3. /\ ClaimOf(c).first_suppressed = c.first_unreported
          /\ ClaimOf(c).last_suppressed = c.last_suppressed
      BY <2>1, ClaimFacts
    <3>4. /\ ClaimOf(origin).first_suppressed = origin.first_unreported
          /\ ClaimOf(origin).last_suppressed = origin.last_suppressed
      BY <2>1, ClaimFacts DEF Sound
    <3> QED BY <3>1, <3>2, <3>3, <3>4
  <2> HIDE DEF w
  <2>6. walk' # None
    BY <2>1, <2>5, CollectCopy
  <2>7. walk'.state = AfterClaim(c) /\ walk'.origin = AfterClaim(origin) /\ walk'.claim = w
    BY <2>1 DEF Copy
  <2>8. /\ AfterClaim(c).last_suppressed = c.last_suppressed
        /\ AfterClaim(c).first_unreported = c.last_suppressed
    BY <2>1, ClaimFacts
  <2>9. /\ AfterClaim(origin).last_suppressed = origin.last_suppressed
        /\ AfterClaim(origin).first_unreported = origin.last_suppressed
    BY <2>1, ClaimFacts DEF Sound
  <2>10. CopyBounded(walk', base, b, earliest, latest, lateness')
    BY <2>4, <2>7, <2>8, <2>9 DEF CopyBounded
  <2>11. ClaimBounded(walk'.claim, base, b, earliest, latest, lateness')
    BY <2>4, <2>5, <2>7 DEF ClaimBounded
  <2> QED BY <2>2, <2>6, <2>10, <2>11, DriftGet DEF base, b
<1>8. CASE CollectSet \/ RollbackSet
  <2>1. /\ walk # None /\ walk' = None
        /\ claim' = None \/ claim' = walk.claim
        /\ UNCHANGED <<connects, lateness>>
    BY <1>8 DEF CollectSet, RollbackSet
  <2>2. /\ walk \in Copies /\ counter_base[Emitter] # None
        /\ walk.state.reported_count <= walk.state.suppressed_count
        /\ walk.claim.taken.count \in Nat
        /\ claim # None => claim = walk.claim
    BY <2>1, WalkFacts DEF SoundInv
  <2>3. CopyBounded(walk, counter_base[Emitter], base_instant[Emitter], earliest, latest, lateness)
    BY <2>1, DriftParts
  <2>4. ASSUME NEW m \in Nat, NEW n \in Nat, Write(Emitter, walk), AllBehind(m, n)
        PROVE  DriftInv'
    <3>1. \A q \in Processes :
             held'[q] # None => /\ held[q] # None
                                /\ held'[q].state = held[q].state
                                /\ held'[q].origin = held[q].origin
      BY <2>4, AllBehindFacts
    <3> QED BY <1>0, <2>1, <2>2, <2>3, <2>4, <3>1, DriftStore
  <2>5. ASSUME UNCHANGED <<stored, held>> PROVE DriftInv'
    <3>1. value' # None => ValueBounded(value', origin', earliest', latest', lateness')
      BY <2>5, KeptValue DEF stored
    <3>2. \A q \in Processes : held'[q] # None =>
             CopyBounded(held'[q], counter_base'[q], base_instant'[q], earliest', latest', lateness')
      BY <2>5, HandsKept
    <3>3. claim' # None => ClaimBounded(claim', counter_base'[Emitter], base_instant'[Emitter],
                                        earliest', latest', lateness')
      BY <2>1, HandsKept
    <3> QED BY <2>1, <3>1, <3>2, <3>3, DriftNext
  <2>6. 0 \in Nat /\ (RollbackSet => claim.taken.count \in Nat)
    BY <2>2 DEF RollbackSet
  <2>7. CASE CollectSet
    BY <2>2, <2>4, <2>5, <2>6, <2>7 DEF CollectSet
  <2>8. CASE RollbackSet
    BY <2>4, <2>5, <2>6, <2>8 DEF RollbackSet
  <2> QED BY <1>8, <2>7, <2>8
<1>9. CASE RollbackGet
  <2> DEFINE c == Read(Emitter, clock)
  <2>1. /\ claim # None /\ claim \in Claims /\ SoundClaim(claim)
        /\ c \in Counter(Nat) /\ origin \in Counter(Nat \cup {None}) /\ Sound(c, origin)
        /\ c.reported_count >= claim.taken.total_count
        /\ walk' = Copy(AfterRollback(c, claim.taken), AfterRollback(origin, claim.origin),
                        claim, 0, c.reported_count - claim.taken.total_count)
    BY <1>9, RollbackGetFacts
  <2>2. /\ FixBase(Emitter) /\ value # None
        /\ UNCHANGED <<value, origin, held, claim, base_instant, earliest, latest>>
    BY <1>9 DEF RollbackGet, stored, connects
  <2>3. base_instant[Emitter] # None
    BY <1>0, <2>1 DEF HandsInv, BasesInv
  <2>4. clock \in base_instant[Emitter] .. clock /\ OriginRead(clock) = origin
    BY <1>0, <2>2, <2>3, BaseFacts DEF OriginRead
  <2> DEFINE base == counter_base'[Emitter]
             b == base_instant[Emitter]
  <2>5. Bounded(base + c.last_suppressed - b, origin.last_suppressed, earliest, latest, lateness')
    BY <1>0, <2>2, <2>3, <2>4, ReadStamps
  <2>6. ClaimBounded(claim, base, b, earliest, latest, lateness')
    <3>1. /\ claim' = claim /\ claim' # None
          /\ earliest' = earliest /\ latest' = latest /\ base_instant'[Emitter] = b
      BY <2>1, <2>2
    <3>2. ClaimBounded(claim', counter_base'[Emitter], base_instant'[Emitter],
                       earliest', latest', lateness')
      BY <2>1, <3>1, HandsKept
    <3> QED BY <3>1, <3>2
  <2> HIDE DEF c, base, b
  <2> DEFINE k == walk'
  <2>7. k = Copy(AfterRollback(c, claim.taken), AfterRollback(origin, claim.origin),
                 claim, 0, c.reported_count - claim.taken.total_count)
    BY <2>1
  <2> HIDE DEF k
  <2>8. k # None
    BY <2>1, <2>7, RollbackCopy
  <2>9. /\ k.state = AfterRollback(c, claim.taken) /\ k.origin = AfterRollback(origin, claim.origin)
        /\ k.claim = claim
    BY <2>7 DEF Copy
  <2>10. /\ claim.taken \in ClaimedSuppressions(Nat)
         /\ claim.origin \in ClaimedSuppressions(Nat \cup {None})
    BY <2>1 DEF Claims
  <2>11. /\ AfterRollback(c, claim.taken).last_suppressed = c.last_suppressed
         /\ AfterRollback(c, claim.taken).first_unreported = claim.taken.first_suppressed
    BY <2>1, <2>10, RollbackFacts
  <2>12. origin.reported_count >= claim.origin.total_count
    BY <2>1 DEF Sound, SoundClaim
  <2>13. /\ AfterRollback(origin, claim.origin).last_suppressed = origin.last_suppressed
         /\ AfterRollback(origin, claim.origin).first_unreported = claim.origin.first_suppressed
    BY <2>1, <2>10, <2>12, RollbackFacts
  <2>14. CopyBounded(k, base, b, earliest, latest, lateness')
    BY <2>5, <2>6, <2>9, <2>11, <2>13 DEF CopyBounded, ClaimBounded
  <2>15. ClaimBounded(k.claim, base, b, earliest, latest, lateness')
    BY <2>6, <2>9
  <2> QED BY <2>2, <2>8, <2>14, <2>15, DriftGet DEF base, b, k
<1>10. CASE Tick \/ UNCHANGED vars
  BY <1>1, <1>10 DEF Tick, vars
<1> QED BY <1>2, <1>3, <1>4, <1>5, <1>6, <1>7, <1>8, <1>9, <1>10 DEF Next, EmitterStep
-----------------------------------------------------------------------------
(* The theorems. *)

\* The invariant holds at the start.
LEMMA InitIInv ==
    ASSUME Init
    PROVE  IInv
<1>1. /\ value \in StoredValues /\ origin = Unknown(value) /\ claim = None /\ walk = None
      /\ \A p \in Processes : held[p] = None /\ base_instant[p] = None /\ counter_base[p] = None
      /\ earliest = None /\ latest = None
      /\ delivered = origin.reported_count /\ recorded = origin.suppressed_count
      /\ unsaved = 0 /\ lost = 0 /\ overtaken = 0 /\ repeated = 0
  BY DEF Init
<1>2. value # None =>
         /\ value \in Formats
         /\ value.suppressed_count \in Nat /\ ReportedOf(value) \in Nat
         /\ ReportedOf(value) <= value.suppressed_count
  <2> SUFFICES ASSUME value # None
               PROVE  /\ value \in Formats
                      /\ value.suppressed_count \in Nat /\ ReportedOf(value) \in Nat
                      /\ ReportedOf(value) <= value.suppressed_count
    OBVIOUS
  <2>1. value \in Formats
        /\ (value.format \in {"current", "reported"} => value.reported_count <= value.suppressed_count)
    BY <1>1, StoredAssumption
  <2>2. CASE value \in SerializableEventState
    BY <2>1, <2>2 DEF SerializableEventState, ReportedOf
  <2>3. CASE value \in ReportedSerializableEventState
    BY <2>1, <2>3 DEF ReportedSerializableEventState, ReportedOf
  <2>4. CASE value \in LegacySerializableEventState
    BY <2>1, <2>4 DEF LegacySerializableEventState, ReportedOf
  <2> QED BY <2>1, <2>2, <2>3, <2>4 DEF Formats
<1>3. /\ origin \in Counter(Nat \cup {None})
      /\ origin.last_suppressed = None /\ origin.first_unreported = None
      /\ value # None => /\ origin.suppressed_count = value.suppressed_count
                         /\ origin.reported_count = ReportedOf(value)
      /\ value = None => origin.suppressed_count = 0 /\ origin.reported_count = 0
  BY <1>1, <1>2 DEF Unknown, NewCounter, Counter
<1>4. /\ origin.suppressed_count \in Nat /\ origin.reported_count \in Nat
      /\ recorded = delivered + UnreportedStored /\ delivered \in Nat /\ UnreportedStored \in Nat
  BY <1>1, <1>2, <1>3 DEF UnreportedStored
<1>5. TypeOK
  <2>1. clock = 0 /\ lateness = 0
    BY DEF Init
  <2>2. /\ base_instant = [p \in Processes |-> None] /\ counter_base = [p \in Processes |-> None]
        /\ held = [p \in Processes |-> None]
    BY DEF Init
  <2>3. value \in Formats \cup {None}
    BY <1>1, StoredAssumption
  <2> QED BY <1>1, <1>3, <1>4, <2>1, <2>2, <2>3 DEF TypeOK
<1>6. BasesInv /\ HandsInv
  BY <1>1 DEF BasesInv, HandsInv
<1>7. SoundInv
  BY <1>1, <1>2, <1>3 DEF SoundInv
<1>8. Settled = delivered
  BY <1>1, <1>4 DEF Settled, ClaimedCount
<1>9. CountsInv
  BY <1>1, <1>4, <1>8 DEF CountsInv, CountsSurvive
<1>10. DriftInv
  BY <1>1, <1>3 DEF DriftInv, Within
<1> QED BY <1>5, <1>6, <1>7, <1>9, <1>10 DEF IInv

\* Every step preserves the invariant.
LEMMA NextIInv ==
    ASSUME IInv, [Next]_vars
    PROVE  IInv'
<1>1. TypeOK /\ BasesInv /\ HandsInv /\ SoundInv /\ CountsInv /\ DriftInv
  BY DEF IInv
<1>2. TypeOK'
  BY <1>1, TypeStep
<1>3. BasesInv'
  BY <1>1, BasesStep
<1>4. HandsInv'
  BY <1>1, HandsStep
<1>5. SoundInv'
  BY <1>1, SoundStep
<1>6. CountsInv'
  BY <1>1, <1>2, <1>5, CountsStep
<1>7. DriftInv'
  BY <1>1, <1>2, DriftStep
<1> QED BY <1>2, <1>3, <1>4, <1>5, <1>6, <1>7 DEF IInv

\* IInv is an invariant.
LEMMA Invariant == Spec => []IInv
<1>1. Init => IInv
  BY InitIInv
<1>2. IInv /\ [Next]_vars => IInv'
  BY NextIInv
<1> QED BY <1>1, <1>2, PTL DEF Spec

\* However GETs and SETEXs of the processes overlap, fail, and are cut short by
\* crashes and expiries, what is recorded and what is reported, claimed or still
\* stored differ by no more than the history of each such event allows.
THEOREM CountsKept == Spec => []CountsSurvive
<1>1. IInv => CountsSurvive
  BY DEF IInv, CountsInv
<1> QED BY <1>1, Invariant, PTL

\* However often a time stamp was read and written again by processes with
\* other base instants, a claim shows it no farther from the true instant than
\* those base instants are from each other.
THEOREM DriftBounded == Spec => []StampDriftBounded
<1>1. ASSUME IInv PROVE StampDriftBounded
  <2> SUFFICES ASSUME claim # None PROVE StampDriftBounded
    BY DEF StampDriftBounded
  <2>0. Emitter \in Processes
    BY EmitterAssumption
  <2>1. TypeOK /\ BasesInv /\ counter_base[Emitter] # None /\ SoundClaim(claim) /\ claim \in Claims
    BY <1>1 DEF IInv, HandsInv, SoundInv, TypeOK
  <2>2. base_instant[Emitter] # None
    BY <2>0, <2>1 DEF BasesInv
  <2> DEFINE b == base_instant[Emitter]
             base == counter_base[Emitter]
             e == earliest
             l == latest
             s == lateness
  <2>3. /\ b \in Nat /\ base \in Nat /\ e \in Nat /\ l \in Nat /\ s \in Nat
        /\ e <= b /\ b <= l /\ b <= base /\ base - b <= s
    <3>1. base \in Nat /\ s \in Nat /\ b <= base /\ base - b <= s
      BY <2>0, <2>1 DEF TypeOK, BasesInv
    <3> QED BY <2>0, <2>1, <2>2, <3>1, BaseFacts
  <2> DEFINE near(nanos, true) ==
               true = None \/ (base + nanos) - true \in (-(l - e)) .. ((l - e) + s)
  <2>4. ASSUME NEW nanos \in Nat, NEW true \in Nat \cup {None},
               Bounded(base + nanos - b, true, e, l, s)
        PROVE  near(nanos, true)
    <3>1. CASE true # None
      <4> HIDE DEF b, base, e, l, s
      <4>1. true \in Nat /\ true - l <= base + nanos - b /\ base + nanos - b <= true - e + s
        BY <2>4, <3>1 DEF Bounded
      <4>2. (base + nanos) - true \in Int /\ -(l - e) <= (base + nanos) - true
            /\ (base + nanos) - true <= (l - e) + s
        BY <2>3, <4>1
      <4> QED BY <2>3, <4>2
    <3> QED BY <3>1
  <2>5. /\ claim.taken.first_suppressed \in Nat /\ claim.taken.last_suppressed \in Nat
        /\ claim.origin.first_suppressed \in Nat \cup {None}
        /\ claim.origin.last_suppressed \in Nat \cup {None}
    BY <2>1, SoundClaimFacts
  <2>6. ClaimBounded(claim, base, b, e, l, s)
    BY <1>1, DriftParts DEF IInv
  <2>7. Base(Emitter) = base
    BY <2>1 DEF Base
  <2> HIDE DEF base, b, e, l, s, near
  <2>8. near(claim.taken.first_suppressed, claim.origin.first_suppressed)
    BY <2>4, <2>5, <2>6 DEF ClaimBounded
  <2>9. near(claim.taken.last_suppressed, claim.origin.last_suppressed)
    BY <2>4, <2>5, <2>6 DEF ClaimBounded
  <2> QED BY <2>7, <2>8, <2>9 DEF StampDriftBounded, NanosToInstant, near, e, l, s
<1> QED BY <1>1, Invariant, PTL
=============================================================================
