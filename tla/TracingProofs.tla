---------------------------- MODULE TracingProofs ----------------------------
(***************************************************************************)
(* Proofs about module Tracing, for any spans, fields, events, records and *)
(* configurations.                                                         *)
(***************************************************************************)
EXTENDS Tracing, SequenceTheorems, WellFoundedInduction, TLAPS

-----------------------------------------------------------------------------
(* Functions, sequences and numbers.                                       *)

LEMMA OverFacts ==
  ASSUME NEW new, NEW old
  PROVE  /\ DOMAIN Over(new, old) = DOMAIN new \cup DOMAIN old
         /\ \A x \in DOMAIN new : Over(new, old)[x] = new[x]
         /\ \A x \in DOMAIN old \ DOMAIN new : Over(new, old)[x] = old[x]
BY DEF Over

LEMMA RestrictFacts ==
  ASSUME NEW f, NEW S
  PROVE  DOMAIN Restrict(f, S) = S /\ \A x \in S : Restrict(f, S)[x] = f[x]
BY DEF Restrict

\* A set of natural numbers that is not empty has a least member.
LEMMA Least ==
  ASSUME NEW S \in SUBSET Nat, S # {}
  PROVE  \E n \in S : \A m \in S : n <= m
<1>1. PICK n \in S : \A m \in S : <<m, n>> \notin OpToRel(<, Nat)
  BY NatLessThanWellFounded, WFMin
<1>2. \A m \in S : ~(m < n)
  BY <1>1 DEF OpToRel
<1> QED BY <1>2

IsSeq(s) == \E S : s \in Seq(S)

LEMMA AppendFacts ==
  ASSUME NEW s, IsSeq(s), NEW e
  PROVE  /\ IsSeq(Append(s, e)) /\ Append(s, e) # <<>>
         /\ Len(s) \in Nat /\ DOMAIN s = 1 .. Len(s)
         /\ Len(Append(s, e)) = Len(s) + 1
         /\ DOMAIN Append(s, e) = 1 .. Len(s) + 1
         /\ Append(s, e)[Len(s) + 1] = e
         /\ \A i \in 1 .. Len(s) : Append(s, e)[i] = s[i]
<1>1. PICK S : s \in Seq(S)
  BY DEF IsSeq
<1>2. s \in Seq(S \cup {e})
  BY <1>1
<1>3. Append(s, e) \in Seq(S \cup {e})
  BY <1>2
<1>4. IsSeq(Append(s, e))
  BY <1>3 DEF IsSeq
<1> QED BY <1>2, <1>4

LEMMA SingleFacts ==
  ASSUME NEW e
  PROVE  IsSeq(<<e>>) /\ <<e>> # <<>> /\ Len(<<e>>) = 1 /\ DOMAIN <<e>> = {1} /\ <<e>>[1] = e
<1>1. <<e>> \in Seq({e})
  OBVIOUS
<1>2. IsSeq(<<e>>)
  BY <1>1 DEF IsSeq
<1> QED BY <1>2

-----------------------------------------------------------------------------
(* The spans around an event.                                              *)

\* A span is opened inside one that was opened before it.
Nested == parent \in Seq(Nat) /\ \A s \in DOMAIN parent : parent[s] \in 0 .. s - 1

\* The equation of Ancestors, up to span n.
Path(f, n) ==
  f = [s \in 0 .. n |-> IF s = 0 THEN <<>> ELSE Append(f[parent[s]], s)]

LEMMA PathGrows ==
  ASSUME Nested, NEW n \in Nat, n < Len(parent), NEW f, Path(f, n)
  PROVE  \E g : Path(g, n + 1)
<1> DEFINE g == [s \in 0 .. n + 1 |-> IF s \in 0 .. n THEN f[s] ELSE Append(f[parent[s]], s)]
<1>1. \A s \in 1 .. n + 1 : parent[s] \in 0 .. n /\ parent[s] \in 0 .. s - 1
  BY DEF Nested
<1>2. \A s \in 1 .. n + 1 : g[parent[s]] = f[parent[s]]
  BY <1>1
<1>3. \A s \in 0 .. n : f[s] = IF s = 0 THEN <<>> ELSE Append(f[parent[s]], s)
  BY DEF Path
<1>4. \A s \in 0 .. n + 1 : g[s] = IF s = 0 THEN <<>> ELSE Append(g[parent[s]], s)
  <2> TAKE s \in 0 .. n + 1
  <2>1. CASE s = 0
    BY <1>3, <2>1
  <2>2. CASE s \in 1 .. n
    <3>1. g[s] = f[s] /\ s \in 0 .. n /\ s \in 1 .. n + 1 /\ s # 0
      BY <2>2
    <3>2. f[s] = Append(f[parent[s]], s)
      BY <1>3, <3>1
    <3> HIDE DEF g
    <3> QED BY <1>2, <3>1, <3>2
  <2>3. CASE s = n + 1
    <3>1. g[s] = Append(f[parent[s]], s) /\ s \in 1 .. n + 1 /\ s # 0
      BY <2>3
    <3> HIDE DEF g
    <3> QED BY <1>2, <3>1
  <2> QED BY <2>1, <2>2, <2>3
<1>5. g = [s \in 0 .. n + 1 |-> g[s]]
  OBVIOUS
<1> HIDE DEF g
<1>6. Path(g, n + 1)
  BY <1>4, <1>5 DEF Path
<1> QED BY <1>6

LEMMA PathExists ==
  ASSUME Nested
  PROVE  \E f : Path(f, Len(parent))
<1> DEFINE Bad == {n \in 0 .. Len(parent) : ~\E f : Path(f, n)}
<1>1. Len(parent) \in Nat /\ Bad \in SUBSET Nat
  BY LenProperties DEF Nested
<1>2. SUFFICES ASSUME Bad # {} PROVE FALSE
  BY <1>1
<1>3. PICK n \in Bad : \A m \in Bad : n <= m
  <2> HIDE DEF Bad
  <2> QED BY <1>1, <1>2, Least
<1>4. n # 0
  <2>1. Path([s \in {0} |-> <<>>], 0)
    BY DEF Path
  <2> QED BY <2>1
<1>5. n - 1 \in 0 .. Len(parent) /\ n - 1 \notin Bad
  BY <1>1, <1>3, <1>4
<1>6. PICK f : Path(f, n - 1)
  BY <1>5
<1>7. \E g : Path(g, (n - 1) + 1)
  BY <1>1, <1>4, <1>5, <1>6, PathGrows
<1> QED BY <1>3, <1>4, <1>7

\* The spans around an event are open, all of them.
LEMMA AncestorsOpen ==
  ASSUME Nested, NEW s \in 0 .. Len(parent)
  PROVE  Ancestors[s] \in Seq(DOMAIN parent)
<1> DEFINE Bad == {n \in 0 .. Len(parent) : Ancestors[n] \notin Seq(DOMAIN parent)}
<1>1. Len(parent) \in Nat /\ DOMAIN parent = 1 .. Len(parent) /\ Bad \in SUBSET Nat
  BY LenProperties DEF Nested
<1>2. Path(Ancestors, Len(parent))
  BY PathExists, Zenon DEF Path, Ancestors
<1>3. \A k \in 0 .. Len(parent) :
        Ancestors[k] = IF k = 0 THEN <<>> ELSE Append(Ancestors[parent[k]], k)
  BY <1>2 DEF Path
<1>4. SUFFICES ASSUME Bad # {} PROVE FALSE
  OBVIOUS
<1>5. PICK n \in Bad : \A m \in Bad : n <= m
  <2> HIDE DEF Bad
  <2> QED BY <1>1, <1>4, Least
<1>6. n \in 0 .. Len(parent) /\ Ancestors[n] \notin Seq(DOMAIN parent)
  OBVIOUS
<1>7. \A k \in 0 .. Len(parent) : k < n => Ancestors[k] \in Seq(DOMAIN parent)
  BY <1>1, <1>5
<1> HIDE DEF Bad
<1>8. n # 0
  <2>1. <<>> \in Seq(DOMAIN parent)
    OBVIOUS
  <2> QED BY <1>3, <1>6, <2>1
<1>9. n \in DOMAIN parent /\ parent[n] \in 0 .. n - 1 /\ parent[n] \in 0 .. Len(parent)
  BY <1>1, <1>6, <1>8 DEF Nested
<1>10. Ancestors[parent[n]] \in Seq(DOMAIN parent)
  BY <1>1, <1>6, <1>7, <1>9
<1>11. Append(Ancestors[parent[n]], n) \in Seq(DOMAIN parent)
  BY <1>9, <1>10
<1> QED BY <1>3, <1>6, <1>8, <1>11

-----------------------------------------------------------------------------
(* The fields of a span.                                                   *)

\* fields is what the program set last, but for the message; and the message
\* it set first, while that is the only one.
KeepsOpening(fields, states) ==
  LET text == MessageOf(states[1])
  IN  text # None /\ (\A k \in DOMAIN states : states[k]["message"] = text)
        => MessageOf(fields) = text

Reflects(fields, states) ==
  /\ NoMessage(fields) = NoMessage(states[Len(states)])
  /\ KeepsOpening(fields, states)

LEMMA MessageFacts ==
  ASSUME NEW vals
  PROVE  /\ "message" \in DOMAIN vals /\ vals["message"] \in Texts
              => MessageOf(vals) = vals["message"]
         /\ MessageOf(vals) # None
              => /\ "message" \in DOMAIN vals /\ vals["message"] \in Texts
                 /\ MessageOf(vals) = vals["message"]
BY DEF MessageOf, IsMessage

LEMMA NoMessageFacts ==
  ASSUME NEW f
  PROVE  /\ DOMAIN NoMessage(f) = DOMAIN f \ {"message"}
         /\ \A x \in DOMAIN f \ {"message"} : NoMessage(f)[x] = f[x]
BY RestrictFacts DEF NoMessage

LEMMA SameNoMessage ==
  ASSUME NEW f, NEW g, DOMAIN f \ {"message"} = DOMAIN g \ {"message"},
         \A x \in DOMAIN f \ {"message"} : f[x] = g[x]
  PROVE  NoMessage(f) = NoMessage(g)
BY DEF NoMessage, Restrict

LEMMA VisitFacts ==
  ASSUME NEW fields, NEW vals
  PROVE  LET new == Visit(fields, vals, FALSE)
             kept == {x \in DOMAIN vals : x # "message" \/ vals[x] \notin Texts}
         IN  /\ DOMAIN new = kept \cup DOMAIN fields
             /\ \A x \in kept : new[x] = vals[x]
             /\ \A x \in DOMAIN fields \ kept : new[x] = fields[x]
<1>1. Kept(vals, FALSE) = {x \in DOMAIN vals : x # "message" \/ vals[x] \notin Texts}
  BY DEF Kept, IsMessage
<1> DEFINE given == Restrict(vals, Kept(vals, FALSE))
<1>2. DOMAIN given = Kept(vals, FALSE) /\ \A x \in Kept(vals, FALSE) : given[x] = vals[x]
  BY RestrictFacts, Zenon
<1>3. Visit(fields, vals, FALSE) = Over(given, fields)
  BY DEF Visit
<1> HIDE DEF given
<1>4. /\ DOMAIN Over(given, fields) = DOMAIN given \cup DOMAIN fields
      /\ \A x \in DOMAIN given : Over(given, fields)[x] = given[x]
      /\ \A x \in DOMAIN fields \ DOMAIN given : Over(given, fields)[x] = fields[x]
  BY OverFacts, Zenon
<1> QED BY <1>1, <1>2, <1>3, <1>4, Zenon

\* A record changes the fields a span keeps as it changes those the program
\* set, the message apart.
LEMMA RecordReflected ==
  ASSUME NEW fields, NEW states, NEW vals, IsSeq(states), states # <<>>,
         Reflects(fields, states)
  PROVE  Reflects(Visit(fields, vals, FALSE),
                  Append(states, Over(vals, states[Len(states)])))
<1> DEFINE new == Visit(fields, vals, FALSE)
           last == states[Len(states)]
           set == Over(vals, last)
           after == Append(states, set)
           kept == {x \in DOMAIN vals : x # "message" \/ vals[x] \notin Texts}
<1>1. /\ DOMAIN new = kept \cup DOMAIN fields
      /\ \A x \in kept : new[x] = vals[x]
      /\ \A x \in DOMAIN fields \ kept : new[x] = fields[x]
  BY VisitFacts, Zenon
<1>2. /\ DOMAIN set = DOMAIN vals \cup DOMAIN last
      /\ \A x \in DOMAIN vals : set[x] = vals[x]
      /\ \A x \in DOMAIN last \ DOMAIN vals : set[x] = last[x]
  BY OverFacts, Zenon
<1>3. /\ Len(states) \in Nat /\ Len(states) # 0 /\ DOMAIN states = 1 .. Len(states)
      /\ Len(after) = Len(states) + 1 /\ DOMAIN after = 1 .. Len(states) + 1
      /\ after[Len(states) + 1] = set
      /\ \A i \in 1 .. Len(states) : after[i] = states[i]
  <2>1. PICK S : states \in Seq(S)
    BY DEF IsSeq
  <2>2. Len(states) # 0
    BY <2>1
  <2> HIDE DEF set
  <2> QED BY <2>2, AppendFacts
<1> HIDE DEF new, set, after
<1>4. NoMessage(new) = NoMessage(set)
  <2>1. /\ DOMAIN fields \ {"message"} = DOMAIN last \ {"message"}
        /\ \A x \in DOMAIN fields \ {"message"} : fields[x] = last[x]
    <3>1. NoMessage(fields) = NoMessage(last)
      BY DEF Reflects
    <3> QED BY <3>1, NoMessageFacts, Zenon
  <2>2. DOMAIN new \ {"message"} = DOMAIN set \ {"message"}
    BY <1>1, <1>2, <2>1
  <2>3. ASSUME NEW x \in DOMAIN new \ {"message"} PROVE new[x] = set[x]
    <3>1. CASE x \in DOMAIN vals
      BY <1>1, <1>2, <2>3, <3>1
    <3>2. CASE x \notin DOMAIN vals
      BY <1>1, <1>2, <2>1, <2>3, <3>2
    <3> QED BY <3>1, <3>2
  <2> QED BY <2>2, <2>3, SameNoMessage, Zenon
<1>5. KeepsOpening(new, after)
  <2> DEFINE text == MessageOf(states[1])
  <2>1. after[1] = states[1]
    BY <1>3
  <2>2. SUFFICES ASSUME text # None, \A k \in DOMAIN after : after[k]["message"] = text
                 PROVE  MessageOf(new) = text
    BY <2>1, Zenon DEF KeepsOpening
  <2>3. \A k \in DOMAIN states : states[k]["message"] = text
    <3>1. \A k \in 1 .. Len(states) : k \in DOMAIN after
      BY <1>3
    <3> QED BY <1>3, <2>2, <3>1, Zenon
  <2>4. MessageOf(fields) = text
    BY <2>2, <2>3 DEF Reflects, KeepsOpening
  <2>5. "message" \in DOMAIN fields /\ fields["message"] = text /\ text \in Texts
    BY <2>2, <2>4, MessageFacts
  <2>6. set["message"] = text
    BY <1>3, <2>2
  <2>7. "message" \notin kept
    <3>1. "message" \in DOMAIN vals => vals["message"] \in Texts
      BY <1>2, <2>5, <2>6
    <3> QED BY <3>1
  <2>8. "message" \in DOMAIN new /\ new["message"] = text
    BY <1>1, <2>5, <2>7
  <2> QED BY <2>5, <2>8, MessageFacts
<1>6. after[Len(after)] = set
  BY <1>3
<1>7. Reflects(new, after)
  BY <1>4, <1>5, <1>6 DEF Reflects
<1> QED BY <1>7 DEF new, after, set

\* A new span reflects what it was opened with.
LEMMA OpeningReflected ==
  ASSUME NEW vals
  PROVE  Reflects(Opened(vals), <<vals>>)
<1> DEFINE fields == Visit(NoFields, vals, FALSE)
           text == MessageOf(vals)
           kept == {x \in DOMAIN vals : x # "message" \/ vals[x] \notin Texts}
<1>1. DOMAIN fields = kept /\ \A x \in kept : fields[x] = vals[x]
  <2>1. DOMAIN NoFields = {}
    BY DEF NoFields
  <2>2. /\ DOMAIN fields = kept \cup DOMAIN NoFields
        /\ \A x \in kept : fields[x] = vals[x]
        /\ \A x \in DOMAIN NoFields \ kept : fields[x] = NoFields[x]
    BY VisitFacts, Zenon
  <2> QED BY <2>1, <2>2, Zenon
<1>2. /\ Len(<<vals>>) = 1 /\ DOMAIN <<vals>> = {1} /\ <<vals>>[1] = vals
  BY SingleFacts
<1> HIDE DEF fields
<1>3. CASE text = None
  <2>1. Opened(vals) = fields
    BY <1>3 DEF Opened, fields
  <2>2. NoMessage(fields) = NoMessage(vals)
    BY <1>1, SameNoMessage
  <2> QED BY <1>2, <1>3, <2>1, <2>2 DEF Reflects, KeepsOpening
<1>4. CASE text # None
  <2> DEFINE new == Over([message |-> text], fields)
  <2>1. Opened(vals) = new
    BY <1>4 DEF Opened, fields
  <2>2. /\ DOMAIN [message |-> text] = {"message"}
        /\ [message |-> text]["message"] = text
    BY SMT
  <2>3. /\ DOMAIN new = {"message"} \cup DOMAIN fields
        /\ new["message"] = text
        /\ \A x \in DOMAIN fields \ {"message"} : new[x] = fields[x]
    <3>1. /\ DOMAIN new = DOMAIN [message |-> text] \cup DOMAIN fields
          /\ \A x \in DOMAIN [message |-> text] : new[x] = [message |-> text][x]
          /\ \A x \in DOMAIN fields \ DOMAIN [message |-> text] : new[x] = fields[x]
      BY OverFacts, Zenon
    <3> HIDE DEF new
    <3> QED BY <2>2, <3>1, Zenon
  <2> HIDE DEF new
  <2>4. NoMessage(new) = NoMessage(vals)
    BY <1>1, <2>3, SameNoMessage
  <2>5. MessageOf(new) = text
    BY <1>4, <2>3, MessageFacts
  <2> QED BY <1>2, <2>1, <2>4, <2>5 DEF Reflects, KeepsOpening
<1> QED BY <1>3, <1>4

-----------------------------------------------------------------------------
(* The invariant.                                                          *)

Histories ==
  /\ IsSeq(past) /\ Len(past) = Len(parent)
  /\ \A s \in DOMAIN past : IsSeq(past[s]) /\ past[s] # <<>>

SlotsReflect ==
  /\ DOMAIN slot = IF config.spans THEN DOMAIN parent ELSE {}
  /\ \A s \in DOMAIN slot : Reflects(slot[s], past[s])

SpansInv == config \in Configs /\ Nested /\ Histories /\ SlotsReflect

\* fields is what a span kept at some moment after its from-th change.
Shows(fields, from, states) ==
  /\ \E k \in from .. Len(states) : NoMessage(fields) = NoMessage(states[k])
  /\ KeepsOpening(fields, states)

EventOK(ev) ==
  /\ ev.of \in Events \cup {Bridged(r) : r \in LogRecords}
  /\ DOMAIN ev = {"of", "around", "shown", "from"}
  /\ ev.around \in Seq(DOMAIN parent)
  /\ \A i \in DOMAIN ev.around : ev.from[ev.around[i]] \in 1 .. Len(past[ev.around[i]])
  /\ IsSeq(ev.shown) /\ Len(ev.shown) <= Len(ev.around)
  /\ \A i \in DOMAIN ev.shown :
       /\ ev.shown[i].name = ev.around[i]
       /\ Shows(ev.shown[i].fields, ev.from[ev.around[i]], past[ev.around[i]])

EventInv == event # None => EventOK(event)

ReadOf(record) == ReadBack(FromRecord(record))

FromEvent ==
  \E ev : /\ EventOK(ev)
          /\ config.spans => Len(ev.shown) = Len(ev.around)
          /\ entry = [read |-> ReadOf(Entry(ev.of, ev.shown)), of |-> ev]

FromProgram ==
  \E d \in Direct : entry = [read |-> ReadOf(BuildRecord(d)), of |-> d]

EntryInv == entry # None => FromEvent \/ FromProgram

TracingInv == SpansInv /\ EventInv /\ EntryInv

-----------------------------------------------------------------------------
(* Spans change under the event that is being handled.                     *)

\* What is opened stays, and the history of each span only grows.
Grown ==
  /\ DOMAIN parent \subseteq DOMAIN parent'
  /\ \A s \in DOMAIN parent :
       past'[s] = past[s] \/ \E state : past'[s] = Append(past[s], state)

LEMMA SpansDomain ==
  ASSUME Nested, Histories
  PROVE  /\ Len(parent) \in Nat /\ DOMAIN parent = 1 .. Len(parent)
         /\ DOMAIN past = DOMAIN parent
<1>1. PICK S : past \in Seq(S)
  BY DEF Histories, IsSeq
<1>2. parent \in Seq(Nat) /\ Len(past) = Len(parent)
  BY DEF Nested, Histories
<1>3. DOMAIN past = 1 .. Len(past) /\ DOMAIN parent = 1 .. Len(parent) /\ Len(parent) \in Nat
  BY <1>1, <1>2, LenProperties
<1> QED BY <1>2, <1>3

LEMMA HistoryFacts ==
  ASSUME NEW states, IsSeq(states), states # <<>>
  PROVE  /\ Len(states) \in Nat /\ Len(states) >= 1 /\ DOMAIN states = 1 .. Len(states)
         /\ Last(states) = states[Len(states)]
<1>1. PICK S : states \in Seq(S)
  BY DEF IsSeq
<1> QED BY <1>1 DEF Last

LEMMA ShowsGrows ==
  ASSUME NEW fields, NEW from \in Nat \ {0}, NEW states, IsSeq(states), states # <<>>, NEW state,
         Shows(fields, from, states)
  PROVE  Shows(fields, from, Append(states, state))
<1> DEFINE after == Append(states, state)
<1>1. /\ Len(states) \in Nat /\ Len(states) >= 1 /\ DOMAIN states = 1 .. Len(states)
      /\ Len(after) = Len(states) + 1 /\ DOMAIN after = 1 .. Len(states) + 1
      /\ \A i \in 1 .. Len(states) : after[i] = states[i]
  BY AppendFacts, HistoryFacts
<1> HIDE DEF after
<1>2. \E k \in from .. Len(after) : NoMessage(fields) = NoMessage(after[k])
  <2>1. PICK k \in from .. Len(states) : NoMessage(fields) = NoMessage(states[k])
    BY DEF Shows
  <2>2. k \in from .. Len(after) /\ after[k] = states[k]
    BY <1>1, <2>1
  <2> QED BY <2>1, <2>2
<1>3. KeepsOpening(fields, after)
  <2>1. after[1] = states[1] /\ \A k \in DOMAIN states : k \in DOMAIN after /\ after[k] = states[k]
    BY <1>1
  <2>2. KeepsOpening(fields, states)
    BY DEF Shows
  <2> QED BY <2>1, <2>2, Zenon DEF KeepsOpening
<1>4. Shows(fields, from, after)
  BY <1>2, <1>3 DEF Shows
<1> QED BY <1>4 DEF after

\* An event that is being handled shows what it has read, whatever is opened
\* and recorded since.
LEMMA EventKept ==
  ASSUME SpansInv, NEW ev, EventOK(ev), Grown
  PROVE  EventOK(ev)'
<1>1. /\ ev.around \in Seq(DOMAIN parent)
      /\ \A i \in DOMAIN ev.around : ev.from[ev.around[i]] \in 1 .. Len(past[ev.around[i]])
      /\ IsSeq(ev.shown) /\ Len(ev.shown) <= Len(ev.around)
      /\ DOMAIN ev.shown \subseteq DOMAIN ev.around
  <2>1. PICK S : ev.shown \in Seq(S)
    BY DEF EventOK, IsSeq
  <2>2. DOMAIN ev.shown = 1 .. Len(ev.shown) /\ Len(ev.shown) \in Nat
    BY <2>1, LenProperties
  <2>3. /\ ev.around \in Seq(DOMAIN parent) /\ Len(ev.shown) <= Len(ev.around)
    BY DEF EventOK
  <2>4. DOMAIN ev.around = 1 .. Len(ev.around) /\ Len(ev.around) \in Nat
    BY <2>3, LenProperties
  <2>5. DOMAIN ev.shown \subseteq DOMAIN ev.around
    BY <2>2, <2>3, <2>4
  <2> QED BY <2>3, <2>5, Zenon DEF EventOK
<1>2. ev.around \in Seq(DOMAIN parent')
  BY <1>1 DEF Grown
<1>3. ASSUME NEW i \in DOMAIN ev.around
      PROVE  /\ ev.around[i] \in DOMAIN parent
             /\ IsSeq(past[ev.around[i]]) /\ past[ev.around[i]] # <<>>
  <2>1. ev.around[i] \in DOMAIN parent
    BY <1>1
  <2> QED BY <2>1, SpansDomain DEF SpansInv, Histories
<1>4. ASSUME NEW i \in DOMAIN ev.around
      PROVE  ev.from[ev.around[i]] \in 1 .. Len(past'[ev.around[i]])
  <2> DEFINE s == ev.around[i]
  <2>1. past'[s] = past[s] \/ \E state : past'[s] = Append(past[s], state)
    BY <1>3 DEF Grown
  <2>2. CASE past'[s] = past[s]
    BY <1>1, <2>2
  <2>3. ASSUME NEW state, past'[s] = Append(past[s], state)
        PROVE  ev.from[s] \in 1 .. Len(past'[s])
    <3>1. Len(past'[s]) = Len(past[s]) + 1 /\ Len(past[s]) \in Nat
      BY <1>3, <2>3, AppendFacts
    <3>2. ev.from[s] \in 1 .. Len(past[s])
      BY <1>1
    <3> HIDE DEF s
    <3> QED BY <3>1, <3>2
  <2> QED BY <2>1, <2>2, <2>3
<1>5. ASSUME NEW i \in DOMAIN ev.shown
      PROVE  /\ ev.shown[i].name = ev.around[i]
             /\ Shows(ev.shown[i].fields, ev.from[ev.around[i]], past'[ev.around[i]])
  <2> DEFINE s == ev.around[i]
             fields == ev.shown[i].fields
             from == ev.from[s]
  <2>1. i \in DOMAIN ev.around
    BY <1>1
  <2>2. ev.shown[i].name = s /\ Shows(fields, from, past[s])
    BY DEF EventOK
  <2>3. past'[s] = past[s] \/ \E state : past'[s] = Append(past[s], state)
    BY <1>3, <2>1 DEF Grown
  <2>4. from \in Nat \ {0}
    <3>1. from \in 1 .. Len(past[s])
      BY <1>1, <2>1
    <3> HIDE DEF from
    <3> QED BY <3>1
  <2>5. IsSeq(past[s]) /\ past[s] # <<>>
    BY <1>3, <2>1
  <2>6. ASSUME NEW state, past'[s] = Append(past[s], state)
        PROVE  Shows(fields, from, past'[s])
    <3> HIDE DEF s, fields, from
    <3>1. Shows(fields, from, Append(past[s], state))
      BY <2>2, <2>4, <2>5, ShowsGrows
    <3> QED BY <2>6, <3>1
  <2>7. Shows(fields, from, past'[s])
    <3> HIDE DEF s, fields, from
    <3> QED BY <2>2, <2>3, <2>6
  <2> QED BY <2>2, <2>7
<1>6. /\ ev.of \in Events \cup {Bridged(r) : r \in LogRecords}
      /\ DOMAIN ev = {"of", "around", "shown", "from"}
  BY DEF EventOK
<1> QED BY <1>1, <1>2, <1>4, <1>5, <1>6, Zenon DEF EventOK

-----------------------------------------------------------------------------
(* Every step keeps the invariant.                                         *)

LEMMA NewSpanKeeps ==
  ASSUME SpansInv, NEW p \in 0 .. Len(parent), NEW vals, NewSpan(p, vals)
  PROVE  SpansInv' /\ Grown
<1> DEFINE s == Len(parent) + 1
<1>1. /\ Len(parent) \in Nat /\ DOMAIN parent = 1 .. Len(parent)
      /\ DOMAIN past = DOMAIN parent /\ Len(past) = Len(parent)
      /\ parent \in Seq(Nat) /\ IsSeq(past)
  BY SpansDomain DEF SpansInv, Histories, Nested
<1>2. /\ parent' = Append(parent, p) /\ past' = Append(past, <<vals>>) /\ config' = config
      /\ slot' = IF config.spans THEN Over([t \in {s} |-> Opened(vals)], slot) ELSE slot
  BY Zenon DEF NewSpan
<1>3. /\ parent' \in Seq(Nat) /\ Len(parent') = s /\ DOMAIN parent' = 1 .. s
      /\ parent'[s] = p /\ \A t \in 1 .. Len(parent) : parent'[t] = parent[t]
  BY <1>1, <1>2
<1>4. /\ IsSeq(past') /\ Len(past') = s /\ DOMAIN past' = 1 .. s
      /\ past'[s] = <<vals>> /\ \A t \in 1 .. Len(parent) : past'[t] = past[t]
  BY <1>1, <1>2, AppendFacts
<1>5. \A t \in 1 .. s : t = s \/ t \in 1 .. Len(parent)
  BY <1>1
<1>6. Nested'
  BY <1>1, <1>3, <1>5 DEF Nested, SpansInv
<1>7. Histories'
  <2>1. ASSUME NEW t \in DOMAIN past' PROVE IsSeq(past'[t]) /\ past'[t] # <<>>
    <3>1. CASE t = s
      BY <1>4, <3>1, SingleFacts
    <3>2. CASE t \in 1 .. Len(parent)
      BY <1>1, <1>4, <3>2 DEF SpansInv, Histories
    <3> QED BY <1>4, <1>5, <2>1, <3>1, <3>2
  <2> QED BY <1>3, <1>4, <2>1 DEF Histories
<1>8. SlotsReflect'
  <2>1. CASE config.spans
    <3> DEFINE new == [t \in {s} |-> Opened(vals)]
    <3>1. DOMAIN new = {s} /\ new[s] = Opened(vals)
      OBVIOUS
    <3>2. slot' = Over(new, slot) /\ DOMAIN slot = DOMAIN parent
      BY <1>2, <2>1 DEF SpansInv, SlotsReflect
    <3> HIDE DEF new
    <3>3. /\ DOMAIN slot' = {s} \cup DOMAIN parent
          /\ slot'[s] = Opened(vals)
          /\ \A t \in DOMAIN parent \ {s} : slot'[t] = slot[t]
      <4>1. /\ DOMAIN Over(new, slot) = DOMAIN new \cup DOMAIN slot
            /\ \A x \in DOMAIN new : Over(new, slot)[x] = new[x]
            /\ \A x \in DOMAIN slot \ DOMAIN new : Over(new, slot)[x] = slot[x]
        BY OverFacts, Zenon
      <4> HIDE DEF s
      <4> QED BY <3>1, <3>2, <4>1
    <3>4. DOMAIN slot' = DOMAIN parent'
      BY <1>1, <1>3, <3>3
    <3>5. ASSUME NEW t \in DOMAIN slot' PROVE Reflects(slot'[t], past'[t])
      <4>1. CASE t = s
        BY <1>4, <3>3, <4>1, OpeningReflected
      <4>2. CASE t \in 1 .. Len(parent)
        <5>1. t # s /\ t \in DOMAIN slot
          BY <1>1, <3>2, <4>2
        <5> QED BY <1>1, <1>4, <3>3, <4>2, <5>1 DEF SpansInv, SlotsReflect
      <4> QED BY <1>3, <1>5, <3>4, <3>5, <4>1, <4>2
    <3> QED BY <1>2, <2>1, <3>4, <3>5, Zenon DEF SlotsReflect
  <2>2. CASE ~config.spans
    <3>1. slot' = slot /\ DOMAIN slot = {}
      BY <1>2, <2>2, Zenon DEF SpansInv, SlotsReflect
    <3> QED BY <1>2, <2>2, <3>1, Zenon DEF SlotsReflect
  <2> QED BY <2>1, <2>2
<1>9. Grown
  BY <1>1, <1>3, <1>4 DEF Grown
<1> QED BY <1>2, <1>6, <1>7, <1>8, <1>9 DEF SpansInv

LEMMA RecordOnKeeps ==
  ASSUME SpansInv, NEW s \in DOMAIN parent, NEW vals, RecordOn(s, vals)
  PROVE  SpansInv' /\ Grown
<1> DEFINE states == past[s]
           new == Append(states, Over(vals, states[Len(states)]))
<1>1. /\ DOMAIN past = DOMAIN parent /\ DOMAIN parent = 1 .. Len(parent)
      /\ IsSeq(past) /\ IsSeq(states) /\ states # <<>>
  BY SpansDomain DEF SpansInv, Histories
<1>2. parent' = parent /\ config' = config
  BY DEF RecordOn
<1>3. past' = [past EXCEPT ![s] = new]
  <2>1. past' = [past EXCEPT ![s] = Append(states, Over(vals, Last(states)))]
    BY DEF RecordOn
  <2> QED BY <1>1, <2>1, HistoryFacts
<1>4. slot' = IF s \in DOMAIN slot
              THEN [slot EXCEPT ![s] = Visit(slot[s], vals, FALSE)] ELSE slot
  BY Zenon DEF RecordOn, OnRecord
<1>5. IsSeq(new) /\ new # <<>>
  BY <1>1, AppendFacts
<1>6. Reflects(slot[s], states) => Reflects(Visit(slot[s], vals, FALSE), new)
  BY <1>1, RecordReflected
<1> HIDE DEF new
<1>7. IsSeq(past') /\ Len(past') = Len(past)
  <2>1. PICK S : past \in Seq(S)
    BY <1>1 DEF IsSeq
  <2>2. past' \in Seq(S \cup {new}) /\ Len(past') = Len(past)
    BY <1>1, <1>3, <2>1
  <2> QED BY <2>2 DEF IsSeq
<1>8. DOMAIN past' = DOMAIN past /\ past'[s] = new
      /\ \A t \in DOMAIN past \ {s} : past'[t] = past[t]
  BY <1>1, <1>3
<1>9. Histories'
  BY <1>1, <1>2, <1>5, <1>7, <1>8 DEF SpansInv, Histories
<1>10. SlotsReflect'
  <2>1. CASE s \in DOMAIN slot
    <3>1. slot' = [slot EXCEPT ![s] = Visit(slot[s], vals, FALSE)]
      BY <1>4, <2>1
    <3>2. /\ DOMAIN slot' = DOMAIN slot /\ slot'[s] = Visit(slot[s], vals, FALSE)
          /\ \A t \in DOMAIN slot \ {s} : slot'[t] = slot[t]
      BY <2>1, <3>1
    <3>3. DOMAIN slot \subseteq DOMAIN parent
      BY Zenon DEF SpansInv, SlotsReflect
    <3>4. \A t \in DOMAIN slot' : Reflects(slot'[t], past'[t])
      BY <1>1, <1>6, <1>8, <2>1, <3>2, <3>3 DEF SpansInv, SlotsReflect
    <3> QED BY <1>2, <3>2, <3>4, Zenon DEF SpansInv, SlotsReflect
  <2>2. CASE s \notin DOMAIN slot
    <3>1. slot' = slot
      BY <1>4, <2>2
    <3>2. DOMAIN slot \subseteq DOMAIN parent
      BY Zenon DEF SpansInv, SlotsReflect
    <3>3. \A t \in DOMAIN slot' : Reflects(slot'[t], past'[t])
      BY <1>1, <1>8, <2>2, <3>1, <3>2 DEF SpansInv, SlotsReflect
    <3> QED BY <1>2, <3>1, <3>3, Zenon DEF SpansInv, SlotsReflect
  <2> QED BY <2>1, <2>2
<1>11. Grown
  BY <1>1, <1>2, <1>8 DEF Grown, new
<1>12. Nested'
  BY <1>2 DEF SpansInv, Nested
<1> QED BY <1>2, <1>9, <1>10, <1>11, <1>12 DEF SpansInv

LEMMA EventBeginKeeps ==
  ASSUME SpansInv, NEW ev \in Events \cup {Bridged(r) : r \in LogRecords},
         NEW s \in 0 .. Len(parent), EventBegin(ev, s)
  PROVE  EventInv'
<1> DEFINE around == Ancestors[s]
           from == [p \in DOMAIN past |-> Len(past[p])]
<1>1. /\ event' = [of |-> ev, around |-> around, shown |-> <<>>, from |-> from]
      /\ parent' = parent /\ past' = past
  BY DEF EventBegin
<1>2. around \in Seq(DOMAIN parent)
  BY AncestorsOpen DEF SpansInv
<1>3. \A i \in DOMAIN around : from[around[i]] \in 1 .. Len(past[around[i]])
  <2> TAKE i \in DOMAIN around
  <2>1. around[i] \in DOMAIN past
    BY <1>2, SpansDomain DEF SpansInv
  <2>2. from[around[i]] = Len(past[around[i]])
    BY <2>1
  <2>3. IsSeq(past[around[i]]) /\ past[around[i]] # <<>>
    BY <2>1 DEF SpansInv, Histories
  <2>4. Len(past[around[i]]) \in Nat /\ Len(past[around[i]]) >= 1
    BY <2>3, HistoryFacts
  <2> QED BY <2>2, <2>4
<1>4. IsSeq(<<>>) /\ Len(<<>>) = 0 /\ DOMAIN <<>> = {}
  <2>1. <<>> \in Seq({})
    OBVIOUS
  <2> QED BY <2>1 DEF IsSeq
<1> HIDE DEF around, from
<1>5. /\ event'.of = ev /\ event'.around = around /\ event'.shown = <<>>
      /\ event'.from = from /\ DOMAIN event' = {"of", "around", "shown", "from"}
  BY <1>1
<1>6. Len(event'.shown) <= Len(event'.around)
  BY <1>2, <1>4, <1>5
<1>7. EventOK(event)'
  BY <1>1, <1>2, <1>3, <1>4, <1>5, <1>6, Zenon DEF EventOK
<1> QED BY <1>7 DEF EventInv

LEMMA EventReadKeeps ==
  ASSUME SpansInv, EventInv, EventRead
  PROVE  EventInv'
<1> DEFINE i == Len(event.shown) + 1
           s == event.around[i]
           new == [name |-> s, fields |-> slot[s]]
<1>1. /\ EventOK(event) /\ config.spans /\ i <= Len(event.around)
      /\ event' = [event EXCEPT !.shown = Append(@, new)]
      /\ parent' = parent /\ past' = past
  BY Zenon DEF EventRead, EventInv
<1>2. /\ IsSeq(event.shown) /\ event.around \in Seq(DOMAIN parent)
      /\ DOMAIN event = {"of", "around", "shown", "from"}
      /\ event.of \in Events \cup {Bridged(r) : r \in LogRecords}
      /\ \A j \in DOMAIN event.around :
           event.from[event.around[j]] \in 1 .. Len(past[event.around[j]])
  BY <1>1, Zenon DEF EventOK
<1>3. /\ DOMAIN event' = {"of", "around", "shown", "from"}
      /\ event'.of = event.of /\ event'.around = event.around /\ event'.from = event.from
      /\ event'.shown = Append(event.shown, new)
  <2> HIDE DEF new
  <2> QED BY <1>1, <1>2
<1>4. /\ Len(event.shown) \in Nat /\ DOMAIN event.shown = 1 .. Len(event.shown)
      /\ IsSeq(event'.shown) /\ Len(event'.shown) = i /\ DOMAIN event'.shown = 1 .. i
      /\ event'.shown[i] = new
      /\ \A j \in 1 .. Len(event.shown) : event'.shown[j] = event.shown[j]
  <2> HIDE DEF new
  <2> QED BY <1>2, <1>3, AppendFacts
<1>5. i \in DOMAIN event.around
  BY <1>1, <1>2, <1>4, LenProperties
<1>6. s \in DOMAIN parent
  BY <1>2, <1>5
<1>7. new.name = s /\ Shows(new.fields, event.from[s], past[s])
  <2>1. DOMAIN slot = DOMAIN parent
    BY <1>1, Zenon DEF SpansInv, SlotsReflect
  <2>2. Reflects(slot[s], past[s])
    BY <1>6, <2>1 DEF SpansInv, SlotsReflect
  <2>3. IsSeq(past[s]) /\ past[s] # <<>>
    BY <1>6, SpansDomain DEF SpansInv, Histories
  <2>4. event.from[s] \in 1 .. Len(past[s])
    BY <1>2, <1>5
  <2> HIDE DEF s
  <2>5. new.name = s /\ new.fields = slot[s]
    BY SMT
  <2>6. Len(past[s]) \in event.from[s] .. Len(past[s])
    BY <2>3, <2>4, HistoryFacts
  <2>7. Shows(slot[s], event.from[s], past[s])
    BY <2>2, <2>6, Zenon DEF Reflects, Shows
  <2> QED BY <2>5, <2>7
<1>8. ASSUME NEW j \in DOMAIN event'.shown
      PROVE  /\ event'.shown[j].name = event.around[j]
             /\ Shows(event'.shown[j].fields, event.from[event.around[j]], past[event.around[j]])
  <2>1. CASE j = i
    BY <1>4, <1>7, <2>1, Zenon
  <2>2. CASE j # i
    <3>1. j \in DOMAIN event.shown /\ event'.shown[j] = event.shown[j]
      <4> HIDE DEF new
      <4> QED BY <1>4, <2>2
    <3> QED BY <1>1, <3>1, Zenon DEF EventOK
  <2> QED BY <2>1, <2>2
<1> HIDE DEF i, s, new
<1>9. EventOK(event)'
  BY <1>1, <1>2, <1>3, <1>4, <1>8, Zenon DEF EventOK
<1> QED BY <1>9 DEF EventInv

LEMMA TracingInvInit == Init => TracingInv
<1> SUFFICES ASSUME Init PROVE TracingInv
  OBVIOUS
<1>1. /\ config \in Configs /\ parent = <<>> /\ past = <<>> /\ slot = <<>>
      /\ event = None /\ entry = None
  BY DEF Init, NoFields
<1>2. <<>> \in Seq(Nat) /\ <<>> \in Seq({}) /\ DOMAIN <<>> = {}
  OBVIOUS
<1>3. IsSeq(<<>>)
  BY <1>2 DEF IsSeq
<1>4. Nested /\ Histories
  BY <1>1, <1>2, <1>3 DEF Nested, Histories
<1>5. SlotsReflect
  BY <1>1, <1>2, Zenon DEF SlotsReflect
<1> QED BY <1>1, <1>4, <1>5 DEF TracingInv, SpansInv, EventInv, EntryInv

LEMMA TracingInvNext == TracingInv /\ [Next]_tracingVars => TracingInv'
<1> SUFFICES ASSUME TracingInv, [Next]_tracingVars PROVE TracingInv'
  OBVIOUS
<1>1. SpansInv /\ EventInv /\ EntryInv
  BY DEF TracingInv
<1>2. ASSUME NEW d \in Direct, DirectLog(d) PROVE TracingInv'
  <2>1. UNCHANGED <<config, parent, slot, event, past>>
    BY <1>2 DEF DirectLog
  <2>2. SpansInv' /\ EventInv'
    BY <1>1, <2>1 DEF SpansInv, Nested, Histories, SlotsReflect, EventInv, EventOK
  <2>3. entry' = [read |-> ReadOf(BuildRecord(d)), of |-> d]
    BY <1>2 DEF DirectLog, ReadOf
  <2>4. EntryInv'
    BY <2>3, Zenon DEF EntryInv, FromProgram
  <2> QED BY <2>2, <2>4 DEF TracingInv
<1>3. ASSUME SpansInv', Grown, UNCHANGED event, entry' = None PROVE TracingInv'
  <2>1. EventInv'
    BY <1>1, <1>3, EventKept DEF EventInv
  <2>2. EntryInv'
    BY <1>3 DEF EntryInv
  <2> QED BY <1>3, <2>1, <2>2 DEF TracingInv
<1>4. ASSUME NEW p \in 0 .. Len(parent), NEW vals \in SpanFields, NewSpan(p, vals)
      PROVE  TracingInv'
  <2>1. UNCHANGED event /\ entry' = None
    BY <1>4 DEF NewSpan
  <2> QED BY <1>1, <1>3, <1>4, <2>1, NewSpanKeeps
<1>5. ASSUME NEW s \in DOMAIN parent, NEW vals \in SpanFields, RecordOn(s, vals)
      PROVE  TracingInv'
  <2>1. UNCHANGED event /\ entry' = None
    BY <1>5 DEF RecordOn
  <2> QED BY <1>1, <1>3, <1>5, <2>1, RecordOnKeeps
<1>6. ASSUME UNCHANGED <<config, parent, slot, past>> PROVE SpansInv'
  BY <1>1, <1>6 DEF SpansInv, Nested, Histories, SlotsReflect
<1>7. ASSUME NEW ev \in Events \cup {Bridged(r) : r \in LogRecords},
             NEW s \in 0 .. Len(parent), EventBegin(ev, s)
      PROVE  TracingInv'
  <2>1. UNCHANGED <<config, parent, slot, past>> /\ entry' = None
    BY <1>7 DEF EventBegin
  <2>2. EventInv'
    BY <1>1, <1>7, EventBeginKeeps
  <2> QED BY <1>6, <2>1, <2>2 DEF TracingInv, EntryInv
<1>8. CASE EventRead
  <2>1. UNCHANGED <<config, parent, slot, past>> /\ entry' = None
    BY <1>8 DEF EventRead
  <2>2. EventInv'
    BY <1>1, <1>8, EventReadKeeps
  <2> QED BY <1>6, <2>1, <2>2 DEF TracingInv, EntryInv
<1>9. CASE EventLog
  <2>1. UNCHANGED <<config, parent, slot, past>> /\ event' = None
    BY <1>9 DEF EventLog
  <2>2. /\ EventOK(event)
        /\ config.spans => Len(event.shown) = Len(event.around)
        /\ entry' = [read |-> ReadOf(Entry(event.of, event.shown)), of |-> event]
    BY <1>1, <1>9, Zenon DEF EventLog, EventInv, ReadOf
  <2>3. PICK ev : ev = event
    OBVIOUS
  <2>4. Entry(ev.of, ev.shown)' = Entry(ev.of, ev.shown)
    BY <2>1, Zenon DEF Entry, CategoryFor
  <2>5. EventOK(ev)'
    BY <2>1, <2>2, <2>3, Zenon DEF EventOK
  <2>6. FromEvent'
    <3>1. config'.spans => Len(ev.shown) = Len(ev.around)
      BY <2>1, <2>2, <2>3, Zenon
    <3>2. entry' = [read |-> ReadOf(Entry(ev.of, ev.shown))', of |-> ev]
      BY <2>2, <2>3, <2>4, Zenon DEF ReadOf
    <3> QED BY <2>5, <3>1, <3>2, Zenon DEF FromEvent
  <2>7. EventInv' /\ EntryInv'
    BY <2>1, <2>6 DEF EventInv, EntryInv
  <2> QED BY <1>6, <2>1, <2>7 DEF TracingInv
<1>10. CASE UNCHANGED tracingVars
  <2>1. UNCHANGED <<config, parent, slot, event, entry, past>>
    BY <1>10 DEF tracingVars
  <2> QED
    BY <1>1, <2>1, Zenon DEF TracingInv, SpansInv, Nested, Histories, SlotsReflect,
       EventInv, EventOK, EntryInv, FromEvent, FromProgram, Entry, CategoryFor
<1> QED
  BY <1>2, <1>4, <1>5, <1>7, <1>8, <1>9, <1>10 DEF Next

LEMMA TracingInvHolds == TracingSpec => []TracingInv
BY TracingInvInit, TracingInvNext, PTL DEF TracingSpec

-----------------------------------------------------------------------------
(* What the GUI reads.                                                     *)

\* The reader sees of a record what it has.
LEMMA ReadRecord ==
  ASSUME NEW r
  PROVE  /\ DOMAIN ReadOf(r) =
              OptionalText \cup {"priority", "category", "message", "extra_categories"}
         /\ ReadOf(r).priority = r.priority.text
         /\ ReadOf(r).category = r.category /\ ReadOf(r).message = r.message
         /\ ReadOf(r).source = r.source /\ ReadOf(r).original_category = r.original_category
         /\ ReadOf(r).color = r.color /\ ReadOf(r).bgcolor = r.bg_color
         /\ ReadOf(r).extra_categories = r.extra_categories
BY DEF ReadOf, ReadBack, FromRecord, Emitted, OptionalText

\* The object of an event's own fields and of the spans around it.
SourceOf(ev, shown) ==
  [at     |-> IF config.callSite THEN CallSite(Metadata(ev).file, Metadata(ev).line)
                                 ELSE None,
   fields |-> Visit(NoFields, ev.fields, FromFacade(ev)),
   spans  |-> shown]

LEMMA EntryFacts ==
  ASSUME NEW ev, NEW shown
  PROVE  /\ Entry(ev, shown).priority = PriorityFor(Metadata(ev).level)
         /\ Entry(ev, shown).category = CategoryFor(Metadata(ev).target)
         /\ Entry(ev, shown).message = MessageOf(ev.fields)
         /\ Entry(ev, shown).original_category =
              Original(Metadata(ev).module, CategoryFor(Metadata(ev).target))
         /\ Entry(ev, shown).color = None /\ Entry(ev, shown).bg_color = None
         /\ Entry(ev, shown).extra_categories = <<>>
         /\ Entry(ev, shown).source =
              IF SourceOf(ev, shown) = Empty THEN None ELSE SourceOf(ev, shown)
<1> DEFINE meta == Metadata(ev)
           source == SourceOf(ev, shown)
           new == NewRecord(PriorityFor(meta.level), CategoryFor(meta.target),
                            MessageOf(ev.fields))
           original == Original(meta.module, CategoryFor(meta.target))
           told == IF source = Empty THEN None ELSE source
<1>1. Entry(ev, shown) = [new EXCEPT !.original_category = original, !.source = told]
  BY Zenon DEF Entry, SourceOf
<1> HIDE DEF meta, source, original, told
<1> QED BY <1>1 DEF NewRecord, meta, source, original, told

\* The empty text is no JSON object.
NoneIsNoObject ==
  \A at, fields, spans : [at |-> at, fields |-> fields, spans |-> spans] # None

\* An entry of an event shows the event, and one that a program built does not.
LEMMA HandledFacts ==
  ASSUME EntryInv, Handled
  PROVE  \E ev : /\ EventOK(ev) /\ entry.of = ev
                 /\ config.spans => Len(ev.shown) = Len(ev.around)
                 /\ entry.read = ReadOf(Entry(ev.of, ev.shown))
                 /\ NoneIsNoObject => Details = SourceOf(ev.of, ev.shown)
                 /\ Shown = ev.shown \/ Shown = <<>>
<1>1. ~FromProgram
  <2> SUFFICES ASSUME NEW d \in Direct, entry = [read |-> ReadOf(BuildRecord(d)), of |-> d]
               PROVE  FALSE
    BY Zenon DEF FromProgram
  <2>1. entry.of = d
    BY SMT
  <2>2. DOMAIN d = {"custom", "level", "category", "message", "calls"}
    BY DirectAssumption
  <2> QED BY <2>1, <2>2 DEF Handled
<1>2. PICK ev : /\ EventOK(ev)
                /\ config.spans => Len(ev.shown) = Len(ev.around)
                /\ entry = [read |-> ReadOf(Entry(ev.of, ev.shown)), of |-> ev]
  BY <1>1, Zenon DEF EntryInv, FromEvent, Handled
<1>3. entry.of = ev /\ entry.read = ReadOf(Entry(ev.of, ev.shown))
  BY <1>2
<1> DEFINE source == SourceOf(ev.of, ev.shown)
<1>4. entry.read.source = IF source = Empty THEN None ELSE source
  <2>1. entry.read.source = Entry(ev.of, ev.shown).source
    BY <1>3, ReadRecord, Zenon
  <2>2. Entry(ev.of, ev.shown).source = IF source = Empty THEN None ELSE source
    BY EntryFacts
  <2> HIDE DEF source
  <2> QED BY <2>1, <2>2
<1>5. Empty.spans = <<>> /\ source.spans = ev.shown
  BY DEF Empty, SourceOf
<1>6. NoneIsNoObject => source # None
  BY Zenon DEF NoneIsNoObject, SourceOf
<1> HIDE DEF source
<1>7. Details = source \/ Details = Empty
  BY <1>4, Zenon DEF Details
<1>8. NoneIsNoObject => Details = source
  BY <1>4, <1>6, Zenon DEF Details
<1>9. Shown = ev.shown \/ Shown = <<>>
  BY <1>5, <1>7, Zenon DEF Shown
<1> QED BY <1>2, <1>3, <1>8, <1>9, Zenon DEF source

\* What is opened has its history, and only a layer that includes spans keeps
\* anything with them: on_new_span and on_record for any spans and any fields.
THEOREM TracingTypeCorrect == TracingSpec => []TracingTypeOK
<1>1. TracingInv => TracingTypeOK
  <2> SUFFICES ASSUME TracingInv PROVE TracingTypeOK
    OBVIOUS
  <2>1. config \in Configs /\ DOMAIN past = DOMAIN parent
    BY SpansDomain DEF TracingInv, SpansInv
  <2>2. \A s \in DOMAIN parent : parent[s] \in 0 .. s - 1
    BY DEF TracingInv, SpansInv, Nested
  <2>3. DOMAIN slot = IF config.spans THEN DOMAIN parent ELSE {}
    BY Zenon DEF TracingInv, SpansInv, SlotsReflect
  <2>4. event = None \/ Len(event.shown) <= Len(event.around)
    BY Zenon DEF TracingInv, EventInv, EventOK
  <2> QED BY <2>1, <2>2, <2>3, <2>4, Zenon DEF TracingTypeOK
<1> QED BY <1>1, TracingInvHolds, PTL

\* An entry shows every span around its event, in order, and of each one state
\* of its fields from the time the event was handled in, however many threads
\* recorded on it meanwhile.
THEOREM SpansShownCurrent ==
  ASSUME NoneIsNoObject
  PROVE  TracingSpec => []SpansCurrent
<1>1. TracingInv => SpansCurrent
  <2> SUFFICES ASSUME TracingInv, Handled, config.spans
               PROVE  /\ Len(Shown) = Len(entry.of.around)
                      /\ \A i \in DOMAIN Shown :
                           /\ Shown[i].name = entry.of.around[i]
                           /\ HadDuring(Shown[i].name, Shown[i].fields, NoMessage)
    BY Zenon DEF SpansCurrent
  <2>1. PICK ev : /\ EventOK(ev) /\ entry.of = ev
                  /\ config.spans => Len(ev.shown) = Len(ev.around)
                  /\ NoneIsNoObject => Details = SourceOf(ev.of, ev.shown)
    BY HandledFacts, Zenon DEF TracingInv
  <2>2. Shown = ev.shown
    <3>1. SourceOf(ev.of, ev.shown).spans = ev.shown
      BY DEF SourceOf
    <3> QED BY <2>1, <3>1, NoneIsNoObject, Zenon DEF Shown
  <2>3. ASSUME NEW i \in DOMAIN ev.shown
        PROVE  /\ ev.shown[i].name = ev.around[i]
               /\ HadDuring(ev.shown[i].name, ev.shown[i].fields, NoMessage)
    <3>1. /\ ev.shown[i].name = ev.around[i]
          /\ Shows(ev.shown[i].fields, ev.from[ev.around[i]], past[ev.around[i]])
      BY <2>1, Zenon DEF EventOK
    <3> QED BY <2>1, <3>1, Zenon DEF Shows, HadDuring
  <2> QED BY <2>1, <2>2, <2>3, Zenon
<1> QED BY <1>1, TracingInvHolds, PTL

\* The text a span was opened with is shown for as long as no other message is
\* recorded on it: what on_new_span puts back, no record of other fields takes away.
THEOREM OpeningTextStays == TracingSpec => []OpeningTextKept
<1>1. TracingInv => OpeningTextKept
  <2> SUFFICES ASSUME TracingInv, NEW i \in DOMAIN Shown
               PROVE  KeepsOpening(Shown[i].fields, past[Shown[i].name])
    BY Zenon DEF OpeningTextKept, KeepsOpening
  <2>1. DOMAIN <<>> = {}
    OBVIOUS
  <2>2. Handled
    BY <2>1 DEF Shown
  <2>3. PICK ev : EventOK(ev) /\ (Shown = ev.shown \/ Shown = <<>>)
    BY <2>2, HandledFacts, Zenon DEF TracingInv
  <2>4. Shown = ev.shown
    BY <2>1, <2>3
  <2> QED BY <2>3, <2>4, Zenon DEF EventOK, Shows
<1> QED BY <1>1, TracingInvHolds, PTL

-----------------------------------------------------------------------------
(* Records of the log facade.                                              *)

\* Over the bridge nothing of a record is lost, and nothing is added to it.
LEMMA BridgedFacts ==
  ASSUME NEW r \in LogRecords
  PROVE  /\ FromFacade(Bridged(r)) /\ Bridged(r).record = r
         /\ Metadata(Bridged(r)).level = r.level /\ Metadata(Bridged(r)).target = r.target
         /\ Metadata(Bridged(r)).module = r.module /\ Metadata(Bridged(r)).file = r.file
         /\ Metadata(Bridged(r)).line = r.line
         /\ MessageOf(Bridged(r).fields) = r.message
         /\ Visit(NoFields, Bridged(r).fields, TRUE) = NoFields
<1> DEFINE own == [name \in LogFields |->
                     CASE name = "log.target"      -> r.target
                       [] name = "log.module_path" -> r.module
                       [] name = "log.file"        -> r.file
                       [] name = "log.line"        -> r.line]
           there == {name \in LogFields : own[name] # None}
           told == Restrict(own, there)
           fields == Over([message |-> r.message], told)
           b == Bridged(r)
<1>1. /\ own["log.target"] = r.target /\ own["log.module_path"] = r.module
      /\ own["log.file"] = r.file /\ own["log.line"] = r.line
  BY DEF LogFields
<1>2. b = [level |-> r.level, target |-> "log", module |-> None, file |-> None,
           line |-> None, record |-> r, fields |-> fields]
  BY Zenon DEF Bridged
<1> HIDE DEF b, own
<1>3. DOMAIN told = there /\ \A x \in there : told[x] = own[x]
  BY RestrictFacts, Zenon
<1>4. /\ DOMAIN [message |-> r.message] = {"message"}
      /\ [message |-> r.message]["message"] = r.message
  BY SMT
<1> HIDE DEF told
<1>5. /\ DOMAIN fields = {"message"} \cup there /\ fields["message"] = r.message
      /\ \A x \in there : fields[x] = own[x]
  <2>1. /\ DOMAIN fields = DOMAIN [message |-> r.message] \cup DOMAIN told
        /\ \A x \in DOMAIN [message |-> r.message] : fields[x] = [message |-> r.message][x]
        /\ \A x \in DOMAIN told \ DOMAIN [message |-> r.message] : fields[x] = told[x]
    BY OverFacts, Zenon
  <2>2. "message" \notin there
    BY DEF LogFields
  <2> HIDE DEF fields, there
  <2>3. "message" \in {"message"} /\ \A x \in there : x \notin {"message"}
    BY <2>2
  <2> QED BY <1>3, <1>4, <2>1, <2>3, Zenon
<1> HIDE DEF fields
<1>6. \A x \in LogFields : (IF x \in DOMAIN fields THEN fields[x] ELSE None) = own[x]
  BY <1>5 DEF LogFields
<1>7. FromFacade(b) /\ b.record = r
  BY <1>2, LogAssumption DEF FromFacade
<1>8. b.fields = fields /\ b.level = r.level
  BY <1>2
<1>9. Metadata(b) =
        [level |-> b.level, target |-> own["log.target"], module |-> own["log.module_path"],
         file |-> own["log.file"], line |-> own["log.line"]]
  <2>1. {"log.target", "log.module_path", "log.file", "log.line"} \subseteq LogFields
    BY DEF LogFields
  <2> QED BY <1>6, <1>7, <1>8, <2>1 DEF Metadata
<1>10. "message" \in DOMAIN fields /\ r.message \in Texts
  BY <1>5, LogAssumption
<1>11. MessageOf(fields) = r.message
  BY <1>5, <1>10, MessageFacts
<1>12. Visit(NoFields, fields, TRUE) = NoFields
  <2>1. Kept(fields, TRUE) = {}
    BY <1>5, <1>10 DEF Kept, IsMessage
  <2>2. Restrict(fields, Kept(fields, TRUE)) = <<>>
    <3>1. [x \in {} |-> fields[x]] = <<>>
      OBVIOUS
    <3> QED BY <2>1, <3>1, Zenon DEF Restrict
  <2>3. Over(<<>>, <<>>) = <<>>
    BY DEF Over
  <2> QED BY <2>2, <2>3, Zenon DEF Visit, NoFields
<1>13. /\ Metadata(b).level = r.level /\ Metadata(b).target = r.target
       /\ Metadata(b).module = r.module /\ Metadata(b).file = r.file
       /\ Metadata(b).line = r.line
  BY <1>1, <1>8, <1>9
<1>14. MessageOf(b.fields) = r.message /\ Visit(NoFields, b.fields, TRUE) = NoFields
  BY <1>8, <1>11, <1>12, Zenon
<1> QED BY <1>7, <1>13, <1>14, Zenon DEF b

LEMMA LogEntryFacts ==
  ASSUME NEW r
  PROVE  /\ LogEntry(r).priority = PriorityFor(r.level)
         /\ LogEntry(r).category = CategoryFor(r.target)
         /\ LogEntry(r).message = r.message
         /\ LogEntry(r).original_category = Original(r.module, CategoryFor(r.target))
         /\ LogEntry(r).source = CallSite(r.file, r.line)
         /\ LogEntry(r).color = None /\ LogEntry(r).bg_color = None
         /\ LogEntry(r).extra_categories = <<>>
<1> DEFINE new == NewRecord(PriorityFor(r.level), CategoryFor(r.target), r.message)
           original == Original(r.module, CategoryFor(r.target))
           site == CallSite(r.file, r.line)
<1>1. LogEntry(r) = [new EXCEPT !.source = site, !.original_category = original]
  BY Zenon DEF LogEntry
<1> HIDE DEF original, site
<1> QED BY <1>1 DEF NewRecord, original, site

\* Over the bridge a record of the log facade comes to what the log adapter
\* makes of it: whatever its level, target, module, call site and message, and
\* whatever the layer's configuration.
THEOREM BridgeAgrees ==
  ASSUME NoneIsNoObject
  PROVE  TracingSpec => []SameEitherWay
<1>1. TracingInv => SameEitherWay
  <2> DEFINE other == ReadOf(LogEntry(entry.of.of.record))
  <2> SUFFICES ASSUME TracingInv, Handled, FromFacade(entry.of.of)
               PROVE  /\ \A key \in DOMAIN other \ {"source"} : entry.read[key] = other[key]
                      /\ config.callSite => Details.at = other.source
                      /\ Details.fields = NoFields
    BY Zenon DEF SameEitherWay, ReadOf
  <2>1. PICK ev : /\ EventOK(ev) /\ entry.of = ev
                  /\ entry.read = ReadOf(Entry(ev.of, ev.shown))
                  /\ NoneIsNoObject => Details = SourceOf(ev.of, ev.shown)
    BY HandledFacts, Zenon DEF TracingInv
  <2>2. PICK r \in LogRecords : ev.of = Bridged(r)
    <3>1. ev.of \in Events \cup {Bridged(r) : r \in LogRecords} /\ ev.of.record # None
      BY <2>1, Zenon DEF EventOK, FromFacade
    <3> QED BY <3>1, EventAssumption
  <2> DEFINE b == Bridged(r)
             e == Entry(b, ev.shown)
  <2>3. other = ReadOf(LogEntry(r)) /\ entry.read = ReadOf(e)
    BY <2>1, <2>2, BridgedFacts, Zenon
  <2>4. /\ Metadata(b).level = r.level /\ Metadata(b).target = r.target
        /\ Metadata(b).module = r.module /\ Metadata(b).file = r.file
        /\ Metadata(b).line = r.line /\ MessageOf(b.fields) = r.message
        /\ FromFacade(b) /\ Visit(NoFields, b.fields, TRUE) = NoFields
    BY BridgedFacts
  <2>5. /\ e.priority = LogEntry(r).priority /\ e.category = LogEntry(r).category
        /\ e.message = LogEntry(r).message
        /\ e.original_category = LogEntry(r).original_category
        /\ e.color = LogEntry(r).color /\ e.bg_color = LogEntry(r).bg_color
        /\ e.extra_categories = LogEntry(r).extra_categories
    <3>1. /\ e.priority = PriorityFor(Metadata(b).level)
          /\ e.category = CategoryFor(Metadata(b).target)
          /\ e.message = MessageOf(b.fields)
          /\ e.original_category = Original(Metadata(b).module, CategoryFor(Metadata(b).target))
          /\ e.color = None /\ e.bg_color = None /\ e.extra_categories = <<>>
      BY EntryFacts, Zenon
    <3> QED BY <2>4, <3>1, LogEntryFacts, Zenon
  <2> HIDE DEF b, e, other
  <2>6. \A key \in DOMAIN other \ {"source"} : entry.read[key] = other[key]
    <3>1. DOMAIN other \ {"source"} =
            {"priority", "category", "message", "original_category", "color", "bgcolor",
             "extra_categories"}
      BY <2>3, ReadRecord DEF OptionalText
    <3>2. /\ entry.read.priority = other.priority /\ entry.read.category = other.category
          /\ entry.read.message = other.message
          /\ entry.read.original_category = other.original_category
          /\ entry.read.color = other.color /\ entry.read.bgcolor = other.bgcolor
          /\ entry.read.extra_categories = other.extra_categories
      <4>1. /\ entry.read.priority = e.priority.text /\ entry.read.category = e.category
            /\ entry.read.message = e.message
            /\ entry.read.original_category = e.original_category
            /\ entry.read.color = e.color /\ entry.read.bgcolor = e.bg_color
            /\ entry.read.extra_categories = e.extra_categories
        BY <2>3, ReadRecord, Zenon
      <4> DEFINE l == LogEntry(r)
      <4>2. /\ other.priority = l.priority.text /\ other.category = l.category
            /\ other.message = l.message
            /\ other.original_category = l.original_category
            /\ other.color = l.color /\ other.bgcolor = l.bg_color
            /\ other.extra_categories = l.extra_categories
        BY <2>3, ReadRecord, Zenon
      <4> HIDE DEF l
      <4> QED BY <2>5, <4>1, <4>2 DEF l
    <3> QED BY <3>1, <3>2
  <2>7. Details = SourceOf(b, ev.shown)
    BY <2>1, <2>2, NoneIsNoObject DEF b
  <2>8. other.source = CallSite(r.file, r.line)
    BY <2>3, ReadRecord, LogEntryFacts
  <2>9. config.callSite => Details.at = other.source
    BY <2>4, <2>7, <2>8 DEF SourceOf
  <2>10. Details.fields = NoFields
    <3>1. Details.fields = Visit(NoFields, b.fields, FromFacade(b))
      BY <2>7 DEF SourceOf
    <3>2. FromFacade(b) = TRUE
      BY <2>4 DEF FromFacade
    <3> QED BY <2>4, <3>1, <3>2
  <2> QED BY <2>6, <2>9, <2>10
<1> QED BY <1>1, TracingInvHolds, PTL

\* Everything a program put in an event of its own is there to be read, whatever
\* it named its fields: the bridge's own names skip nothing but the bridge's.
THEOREM UserFieldsStay ==
  ASSUME NoneIsNoObject
  PROVE  TracingSpec => []UserFieldsKept
<1>1. TracingInv => UserFieldsKept
  <2> DEFINE given == entry.of.of.fields
  <2> SUFFICES ASSUME TracingInv, Handled, ~FromFacade(entry.of.of),
                      NEW name \in DOMAIN given
               PROVE  \/ name = "message" /\ entry.read.message = given[name]
                      \/ name \in DOMAIN Details.fields /\ Details.fields[name] = given[name]
    BY Zenon DEF UserFieldsKept
  <2>1. PICK ev : /\ EventOK(ev) /\ entry.of = ev
                  /\ entry.read = ReadOf(Entry(ev.of, ev.shown))
                  /\ NoneIsNoObject => Details = SourceOf(ev.of, ev.shown)
    BY HandledFacts, Zenon DEF TracingInv
  <2>2. Details = SourceOf(ev.of, ev.shown) /\ ev.of.fields = given /\ ~FromFacade(ev.of)
    BY <2>1, NoneIsNoObject
  <2>3. entry.read.message = MessageOf(given)
    <3>1. entry.read.message = Entry(ev.of, ev.shown).message
      BY <2>1, ReadRecord, Zenon
    <3>2. Entry(ev.of, ev.shown).message = MessageOf(ev.of.fields)
      BY EntryFacts, Zenon
    <3> QED BY <2>2, <3>1, <3>2, Zenon
  <2>4. Details.fields = Visit(NoFields, given, FALSE)
    <3>1. Details.fields = Visit(NoFields, given, FromFacade(ev.of))
      BY <2>2 DEF SourceOf
    <3>2. FromFacade(ev.of) = FALSE
      BY <2>2 DEF FromFacade
    <3> QED BY <3>1, <3>2
  <2> HIDE DEF given
  <2>5. CASE name = "message" /\ given[name] \in Texts
    BY <2>3, <2>5, MessageFacts
  <2>6. CASE name # "message" \/ given[name] \notin Texts
    <3> DEFINE kept == {x \in DOMAIN given : x # "message" \/ given[x] \notin Texts}
    <3>1. /\ DOMAIN Visit(NoFields, given, FALSE) = kept \cup DOMAIN NoFields
          /\ \A x \in kept : Visit(NoFields, given, FALSE)[x] = given[x]
          /\ \A x \in DOMAIN NoFields \ kept :
               Visit(NoFields, given, FALSE)[x] = NoFields[x]
      BY VisitFacts, Zenon
    <3>2. name \in kept
      BY <2>6
    <3> HIDE DEF kept
    <3> QED BY <2>4, <3>1, <3>2
  <2> QED BY <2>5, <2>6
<1> QED BY <1>1, TracingInvHolds, PTL

-----------------------------------------------------------------------------
(* Records that a program builds, call by call.                            *)

RecordKeys == {"source", "original_category", "color", "bg_color"}

\* The record after n calls.
Chain(d, f, n) ==
  f = [k \in 0 .. n |-> IF k = 0 THEN NewRecord(PriorityOf(d), d.category, d.message)
                                 ELSE Call(f[k - 1], d.calls[k])]

LEMMA ChainGrows ==
  ASSUME NEW d, NEW n \in Nat, NEW f, Chain(d, f, n)
  PROVE  \E g : Chain(d, g, n + 1)
<1> DEFINE first == NewRecord(PriorityOf(d), d.category, d.message)
           g == [k \in 0 .. n + 1 |-> IF k \in 0 .. n THEN f[k] ELSE Call(f[k - 1], d.calls[k])]
<1>1. \A k \in 1 .. n + 1 : g[k - 1] = f[k - 1]
  OBVIOUS
<1>2. \A k \in 0 .. n : f[k] = IF k = 0 THEN first ELSE Call(f[k - 1], d.calls[k])
  BY DEF Chain
<1>3. \A k \in 0 .. n + 1 : g[k] = IF k = 0 THEN first ELSE Call(g[k - 1], d.calls[k])
  <2> TAKE k \in 0 .. n + 1
  <2> HIDE DEF first
  <2>1. CASE k = 0
    BY <1>2, <2>1
  <2>2. CASE k \in 1 .. n
    BY <1>1, <1>2, <2>2
  <2>3. CASE k = n + 1
    BY <1>1, <2>3
  <2> QED BY <2>1, <2>2, <2>3
<1>4. g = [k \in 0 .. n + 1 |-> g[k]]
  OBVIOUS
<1> HIDE DEF g
<1>5. Chain(d, g, n + 1)
  BY <1>3, <1>4 DEF Chain
<1> QED BY <1>5

LEMMA ChainExists ==
  ASSUME NEW d, NEW n \in Nat
  PROVE  \E f : Chain(d, f, n)
<1> DEFINE Bad == {k \in Nat : ~\E f : Chain(d, f, k)}
<1>1. SUFFICES ASSUME Bad # {} PROVE FALSE
  OBVIOUS
<1>2. PICK k \in Bad : \A m \in Bad : k <= m
  <2>1. Bad \in SUBSET Nat
    OBVIOUS
  <2> HIDE DEF Bad
  <2> QED BY <1>1, <2>1, Least
<1>3. k # 0
  <2>1. Chain(d, [m \in {0} |-> NewRecord(PriorityOf(d), d.category, d.message)], 0)
    BY DEF Chain
  <2> QED BY <2>1
<1>4. k - 1 \in Nat /\ k - 1 \notin Bad
  BY <1>2, <1>3
<1>5. PICK f : Chain(d, f, k - 1)
  BY <1>4
<1>6. \E g : Chain(d, g, (k - 1) + 1)
  BY <1>4, <1>5, ChainGrows
<1> QED BY <1>2, <1>3, <1>6

LEMMA BuildIsChain ==
  ASSUME NEW d \in Direct
  PROVE  \E f : Chain(d, f, Len(d.calls)) /\ BuildRecord(d) = f[Len(d.calls)]
<1>1. Len(d.calls) \in Nat
  <2>1. d.calls \in Seq(BuilderCalls)
    BY DirectAssumption
  <2> QED BY <2>1, LenProperties
<1>2. \E f : Chain(d, f, Len(d.calls))
  BY <1>1, ChainExists
<1> QED BY <1>2, Zenon DEF Chain, BuildRecord

\* The calls among the first n that set the field of that name.
Setting(calls, n, name) == {i \in 1 .. n : calls[i].set = name}

\* The tabs that the calls of S name in lists of several.
Listed(calls, S) == UNION {ToSet(calls[i].to) : i \in S}

Tabs(calls, n) ==
  {calls[i].to : i \in Setting(calls, n, "extra_category")}
    \cup Listed(calls, Setting(calls, n, "extra_categories"))

\* The record after the first n calls: every tab named in them, and of the
\* rest what was set last.
BuiltBy(d, n, r) ==
  /\ DOMAIN r = RecordKeys \cup {"priority", "category", "message", "extra_categories"}
  /\ r.priority = PriorityOf(d)
  /\ IsSeq(r.extra_categories) /\ ToSet(r.extra_categories) = Tabs(d.calls, n)
  /\ \A name \in RecordKeys :
       /\ Setting(d.calls, n, name) = {} => r[name] = None
       /\ \A i \in Setting(d.calls, n, name) :
            (\A j \in Setting(d.calls, n, name) : j <= i) => r[name] = d.calls[i].to

LEMMA SettingNext ==
  ASSUME NEW calls, NEW n \in Nat \ {0}, NEW name
  PROVE  Setting(calls, n, name) =
           Setting(calls, n - 1, name) \cup (IF calls[n].set = name THEN {n} ELSE {})
BY DEF Setting

LEMMA ToSetAppend ==
  ASSUME NEW s, IsSeq(s), NEW e
  PROVE  ToSet(Append(s, e)) = ToSet(s) \cup {e}
<1>1. /\ Len(s) \in Nat /\ DOMAIN s = 1 .. Len(s)
      /\ DOMAIN Append(s, e) = 1 .. Len(s) + 1
      /\ Append(s, e)[Len(s) + 1] = e
      /\ \A i \in 1 .. Len(s) : Append(s, e)[i] = s[i]
  BY AppendFacts
<1> DEFINE t == Append(s, e)
<1> HIDE DEF t
<1> QED BY <1>1 DEF ToSet, t

LEMMA ToSetConcat ==
  ASSUME NEW s, NEW t, IsSeq(s), IsSeq(t)
  PROVE  IsSeq(s \o t) /\ ToSet(s \o t) = ToSet(s) \cup ToSet(t)
<1>1. PICK S : s \in Seq(S)
  BY DEF IsSeq
<1>2. PICK T : t \in Seq(T)
  BY DEF IsSeq
<1>3. s \in Seq(S \cup T) /\ t \in Seq(S \cup T)
  BY <1>1, <1>2
<1> DEFINE c == s \o t
<1>4. /\ c \in Seq(S \cup T) /\ Len(c) = Len(s) + Len(t)
      /\ Len(s) \in Nat /\ Len(t) \in Nat
      /\ DOMAIN s = 1 .. Len(s) /\ DOMAIN t = 1 .. Len(t) /\ DOMAIN c = 1 .. Len(s) + Len(t)
      /\ \A i \in 1 .. Len(s) : c[i] = s[i]
      /\ \A i \in 1 .. Len(t) : c[Len(s) + i] = t[i]
  BY <1>3
<1>5. IsSeq(c)
  BY <1>4 DEF IsSeq
<1> HIDE DEF c
<1>6. ToSet(c) \subseteq ToSet(s) \cup ToSet(t)
  <2> SUFFICES ASSUME NEW i \in DOMAIN c PROVE c[i] \in ToSet(s) \cup ToSet(t)
    BY DEF ToSet
  <2>1. CASE i \in 1 .. Len(s)
    BY <1>4, <2>1 DEF ToSet
  <2>2. CASE i \notin 1 .. Len(s)
    <3>1. i - Len(s) \in 1 .. Len(t) /\ Len(s) + (i - Len(s)) = i
      BY <1>4, <2>2
    <3>2. c[i] = t[i - Len(s)]
      BY <1>4, <3>1
    <3> QED BY <1>4, <3>1, <3>2 DEF ToSet
  <2> QED BY <2>1, <2>2
<1>7. ToSet(s) \cup ToSet(t) \subseteq ToSet(c)
  <2>1. ASSUME NEW i \in DOMAIN s PROVE s[i] \in ToSet(c)
    <3>1. i \in DOMAIN c /\ c[i] = s[i]
      BY <1>4
    <3> QED BY <3>1 DEF ToSet
  <2>2. ASSUME NEW i \in DOMAIN t PROVE t[i] \in ToSet(c)
    <3>1. Len(s) + i \in DOMAIN c /\ c[Len(s) + i] = t[i]
      BY <1>4
    <3> QED BY <3>1 DEF ToSet
  <2> QED BY <2>1, <2>2 DEF ToSet
<1> QED BY <1>5, <1>6, <1>7 DEF c

LEMMA ListedGrows ==
  ASSUME NEW calls, NEW S, NEW n
  PROVE  Listed(calls, S \cup {n}) = Listed(calls, S) \cup ToSet(calls[n].to)
<1>1. ASSUME NEW T, NEW x
      PROVE  x \in Listed(calls, T) <=> \E i \in T : x \in ToSet(calls[i].to)
  BY Zenon DEF Listed
<1>2. ASSUME NEW x
      PROVE  x \in Listed(calls, S \cup {n}) <=> x \in Listed(calls, S) \cup ToSet(calls[n].to)
  <2>1. (\E i \in S \cup {n} : x \in ToSet(calls[i].to))
          <=> (\E i \in S : x \in ToSet(calls[i].to)) \/ x \in ToSet(calls[n].to)
    BY Zenon
  <2> QED BY <1>1, <2>1, Zenon
<1> QED BY <1>2

LEMMA CallKeeps ==
  ASSUME NEW d \in Direct, NEW n \in 1 .. Len(d.calls), NEW r, BuiltBy(d, n - 1, r)
  PROVE  BuiltBy(d, n, Call(r, d.calls[n]))
<1> DEFINE calls == d.calls
           c == calls[n]
           new == Call(r, c)
<1>1. calls \in Seq(BuilderCalls)
  BY DirectAssumption
<1>2. n \in Nat \ {0} /\ c \in BuilderCalls
  BY <1>1
<1>3. /\ DOMAIN r = RecordKeys \cup {"priority", "category", "message", "extra_categories"}
      /\ r.priority = PriorityOf(d)
      /\ IsSeq(r.extra_categories) /\ ToSet(r.extra_categories) = Tabs(calls, n - 1)
      /\ \A name \in RecordKeys :
           /\ Setting(calls, n - 1, name) = {} => r[name] = None
           /\ \A i \in Setting(calls, n - 1, name) :
                (\A j \in Setting(calls, n - 1, name) : j <= i) => r[name] = calls[i].to
  BY Zenon DEF BuiltBy
<1> HIDE DEF calls, c, new
<1>4. \A name : Setting(calls, n, name) =
                  Setting(calls, n - 1, name) \cup (IF c.set = name THEN {n} ELSE {})
  BY <1>2, SettingNext DEF c
<1>5. \A name : n \notin Setting(calls, n - 1, name)
  BY <1>2 DEF Setting
<1>6. ASSUME NEW name \in RecordKeys, c.set # name, new[name] = r[name]
      PROVE  /\ Setting(calls, n, name) = {} => new[name] = None
             /\ \A i \in Setting(calls, n, name) :
                  (\A j \in Setting(calls, n, name) : j <= i) => new[name] = calls[i].to
  <2>1. Setting(calls, n, name) = Setting(calls, n - 1, name)
    BY <1>4, <1>6
  <2> QED BY <1>3, <1>6, <2>1, Zenon
<1>7. CASE c.set = "extra_category"
  <2>1. new = [r EXCEPT !.extra_categories = Append(@, c.to)]
    BY <1>7 DEF Call, new
  <2> DEFINE tabs == Append(r.extra_categories, c.to)
  <2>2. IsSeq(tabs) /\ ToSet(tabs) = Tabs(calls, n - 1) \cup {c.to}
    BY <1>3, AppendFacts, ToSetAppend
  <2>3. new = [r EXCEPT !.extra_categories = tabs]
    BY <2>1
  <2> HIDE DEF tabs
  <2>4. /\ DOMAIN new = DOMAIN r /\ new.priority = r.priority /\ new.extra_categories = tabs
        /\ \A name \in RecordKeys : new[name] = r[name]
    BY <1>3, <2>3 DEF RecordKeys
  <2>5. Tabs(calls, n) = Tabs(calls, n - 1) \cup {c.to}
    <3>1. /\ Setting(calls, n, "extra_category") = Setting(calls, n - 1, "extra_category") \cup {n}
          /\ Setting(calls, n, "extra_categories") = Setting(calls, n - 1, "extra_categories")
      BY <1>4, <1>7
    <3> QED BY <3>1 DEF Tabs, c
  <2>6. \A name \in RecordKeys : c.set # name
    BY <1>7 DEF RecordKeys
  <2>7. BuiltBy(d, n, new)
    BY <1>3, <1>6, <2>2, <2>4, <2>5, <2>6, Zenon DEF BuiltBy, calls
  <2> QED BY <2>7 DEF new, c, calls
<1>8. CASE c.set = "extra_categories"
  <2>1. new = [r EXCEPT !.extra_categories = @ \o c.to]
    BY <1>8 DEF Call, new
  <2> DEFINE tabs == r.extra_categories \o c.to
  <2>2. IsSeq(tabs) /\ ToSet(tabs) = Tabs(calls, n - 1) \cup ToSet(c.to)
    <3>1. c.to \in Seq(Words)
      BY <1>2, <1>8 DEF BuilderCalls
    <3>2. IsSeq(c.to)
      BY <3>1, Zenon DEF IsSeq
    <3> QED BY <1>3, <3>2, ToSetConcat
  <2>3. new = [r EXCEPT !.extra_categories = tabs]
    BY <2>1
  <2> HIDE DEF tabs
  <2>4. /\ DOMAIN new = DOMAIN r /\ new.priority = r.priority /\ new.extra_categories = tabs
        /\ \A name \in RecordKeys : new[name] = r[name]
    BY <1>3, <2>3 DEF RecordKeys
  <2>5. Tabs(calls, n) = Tabs(calls, n - 1) \cup ToSet(c.to)
    <3>1. /\ Setting(calls, n, "extra_category") = Setting(calls, n - 1, "extra_category")
          /\ Setting(calls, n, "extra_categories")
               = Setting(calls, n - 1, "extra_categories") \cup {n}
      BY <1>4, <1>8
    <3>2. Listed(calls, Setting(calls, n, "extra_categories"))
            = Listed(calls, Setting(calls, n - 1, "extra_categories")) \cup ToSet(c.to)
      BY <3>1, ListedGrows, Zenon DEF c
    <3> QED BY <3>1, <3>2 DEF Tabs
  <2>6. \A name \in RecordKeys : c.set # name
    BY <1>8 DEF RecordKeys
  <2>7. BuiltBy(d, n, new)
    BY <1>3, <1>6, <2>2, <2>4, <2>5, <2>6, Zenon DEF BuiltBy, calls
  <2> QED BY <2>7 DEF new, c, calls
<1>9. CASE c.set \in RecordKeys
  <2>1. new = [r EXCEPT ![c.set] = c.to]
    <3>1. c.set # "extra_category" /\ c.set # "extra_categories"
      BY <1>9 DEF RecordKeys
    <3> QED BY <3>1 DEF Call, new
  <2>2. /\ DOMAIN new = DOMAIN r /\ new.priority = r.priority
        /\ new.extra_categories = r.extra_categories /\ new[c.set] = c.to
        /\ \A name \in RecordKeys : name # c.set => new[name] = r[name]
    BY <1>3, <1>9, <2>1 DEF RecordKeys
  <2>3. Tabs(calls, n) = Tabs(calls, n - 1)
    <3>1. /\ Setting(calls, n, "extra_category") = Setting(calls, n - 1, "extra_category")
          /\ Setting(calls, n, "extra_categories") = Setting(calls, n - 1, "extra_categories")
      BY <1>4, <1>9 DEF RecordKeys
    <3> QED BY <3>1, Zenon DEF Tabs
  <2>4. ASSUME NEW i \in Setting(calls, n, c.set), \A j \in Setting(calls, n, c.set) : j <= i
        PROVE  calls[i].to = c.to
    <3>1. n \in Setting(calls, n, c.set)
      BY <1>4
    <3>2. i \in 1 .. n /\ n <= i
      BY <2>4, <3>1 DEF Setting
    <3>3. i = n
      BY <1>2, <3>2
    <3> QED BY <3>3 DEF c
  <2>5. Setting(calls, n, c.set) # {}
    BY <1>4
  <2>6. \A name \in RecordKeys :
          /\ Setting(calls, n, name) = {} => new[name] = None
          /\ \A i \in Setting(calls, n, name) :
               (\A j \in Setting(calls, n, name) : j <= i) => new[name] = calls[i].to
    <3> TAKE name \in RecordKeys
    <3>1. CASE name = c.set
      BY <2>2, <2>4, <2>5, <3>1, Zenon
    <3>2. CASE name # c.set
      BY <1>6, <2>2, <3>2, Zenon
    <3> QED BY <3>1, <3>2
  <2>7. BuiltBy(d, n, new)
    BY <1>3, <2>2, <2>3, <2>6, Zenon DEF BuiltBy, calls
  <2> QED BY <2>7 DEF new, c, calls
<1>10. c.set \in RecordKeys \cup {"extra_category", "extra_categories"}
  BY <1>2 DEF BuilderCalls, RecordKeys
<1> QED BY <1>7, <1>8, <1>9, <1>10

\* What Client::log is given is what all the calls built.
LEMMA BuildFacts ==
  ASSUME NEW d \in Direct
  PROVE  BuiltBy(d, Len(d.calls), BuildRecord(d))
<1> DEFINE len == Len(d.calls)
<1>1. len \in Nat
  <2>1. d.calls \in Seq(BuilderCalls)
    BY DirectAssumption
  <2> QED BY <2>1, LenProperties
<1>2. PICK f : Chain(d, f, len) /\ BuildRecord(d) = f[len]
  BY BuildIsChain, Zenon
<1>3. /\ f[0] = NewRecord(PriorityOf(d), d.category, d.message)
      /\ \A k \in 1 .. len : f[k] = Call(f[k - 1], d.calls[k])
  <2> HIDE DEF len
  <2>1. \A k \in 0 .. len : f[k] = IF k = 0 THEN NewRecord(PriorityOf(d), d.category, d.message)
                                            ELSE Call(f[k - 1], d.calls[k])
    BY <1>2 DEF Chain
  <2> QED BY <1>1, <2>1
<1>4. BuiltBy(d, 0, f[0])
  <2> DEFINE r == NewRecord(PriorityOf(d), d.category, d.message)
  <2>1. /\ DOMAIN r = RecordKeys \cup {"priority", "category", "message", "extra_categories"}
        /\ r.priority = PriorityOf(d) /\ r.extra_categories = <<>>
        /\ \A name \in RecordKeys : r[name] = None
    BY DEF NewRecord, RecordKeys
  <2>2. \A name : Setting(d.calls, 0, name) = {}
    BY DEF Setting
  <2>3. Tabs(d.calls, 0) = {}
    BY <2>2 DEF Tabs, Listed
  <2>4. <<>> \in Seq({}) /\ DOMAIN <<>> = {}
    OBVIOUS
  <2>5. IsSeq(<<>>) /\ ToSet(<<>>) = {}
    BY <2>4 DEF IsSeq, ToSet
  <2> HIDE DEF r
  <2>6. BuiltBy(d, 0, r)
    BY <2>1, <2>2, <2>3, <2>5, Zenon DEF BuiltBy
  <2> QED BY <1>3, <2>6 DEF r
<1> DEFINE Bad == {k \in 0 .. len : ~BuiltBy(d, k, f[k])}
<1>5. SUFFICES ASSUME Bad # {} PROVE FALSE
  BY <1>1, <1>2
<1>6. PICK k \in Bad : \A m \in Bad : k <= m
  <2>1. Bad \in SUBSET Nat
    OBVIOUS
  <2> HIDE DEF Bad
  <2> QED BY <1>5, <2>1, Least
<1>7. k \in 1 .. len
  BY <1>1, <1>4, <1>6
<1>8. k - 1 \in 0 .. len /\ k - 1 \notin Bad
  BY <1>1, <1>6, <1>7
<1>9. BuiltBy(d, k - 1, f[k - 1])
  BY <1>8
<1>10. BuiltBy(d, k, Call(f[k - 1], d.calls[k]))
  BY <1>7, <1>9, CallKeeps
<1> QED BY <1>3, <1>6, <1>7, <1>10

\* An entry that a program built shows the record it built.
LEMMA BuiltFacts ==
  ASSUME EntryInv, Built
  PROVE  \E d \in Direct : entry.of = d /\ entry.read = ReadOf(BuildRecord(d))
<1>1. ~FromEvent
  <2> SUFFICES ASSUME NEW ev, EventOK(ev),
                      entry = [read |-> ReadOf(Entry(ev.of, ev.shown)), of |-> ev]
               PROVE  FALSE
    BY Zenon DEF FromEvent
  <2>1. entry.of = ev
    BY SMT
  <2>2. DOMAIN ev = {"of", "around", "shown", "from"}
    BY Zenon DEF EventOK
  <2> QED BY <2>1, <2>2 DEF Built
<1>2. PICK d \in Direct : entry = [read |-> ReadOf(BuildRecord(d)), of |-> d]
  BY <1>1, Zenon DEF EntryInv, FromProgram, Built
<1> QED BY <1>2

\* The tabs of an entry are all those the program named, in however many calls
\* of whichever kind, and the rest is what it set last: Record's builder, from
\* its calls to the keys of the JSON object.
THEOREM BuiltIsRead == TracingSpec => []ReadAsBuilt
<1>1. TracingInv => ReadAsBuilt
  <2> SUFFICES ASSUME TracingInv, Built PROVE ReadAsBuilt
    BY Zenon DEF ReadAsBuilt
  <2>1. PICK d \in Direct : entry.of = d /\ entry.read = ReadOf(BuildRecord(d))
    BY BuiltFacts, Zenon DEF TracingInv
  <2> DEFINE calls == entry.of.calls
             r == BuildRecord(d)
             setting(name) == {i \in DOMAIN calls : calls[i].set = name}
  <2>2. DOMAIN calls = 1 .. Len(calls)
    <3>1. calls \in Seq(BuilderCalls)
      BY <2>1, DirectAssumption
    <3> QED BY <3>1, LenProperties
  <2>3. \A name : setting(name) = Setting(calls, Len(calls), name)
    BY <2>2 DEF Setting
  <2>4. /\ ToSet(r.extra_categories) = Tabs(calls, Len(calls))
        /\ \A name \in RecordKeys :
             /\ Setting(calls, Len(calls), name) = {} => r[name] = None
             /\ \A i \in Setting(calls, Len(calls), name) :
                  (\A j \in Setting(calls, Len(calls), name) : j <= i) => r[name] = calls[i].to
    BY <2>1, BuildFacts, Zenon DEF BuiltBy
  <2>5. /\ entry.read.extra_categories = r.extra_categories
        /\ entry.read.source = r.source /\ entry.read.original_category = r.original_category
        /\ entry.read.color = r.color /\ entry.read.bgcolor = r.bg_color
    BY <2>1, ReadRecord, Zenon
  <2> HIDE DEF r, setting
  <2>6. ToSet(entry.read.extra_categories) =
          {calls[i].to : i \in setting("extra_category")}
            \cup UNION {ToSet(calls[i].to) : i \in setting("extra_categories")}
    BY <2>3, <2>4, <2>5, Zenon DEF Tabs, Listed
  <2>7. \A key \in OptionalText :
          LET set == setting(IF key = "bgcolor" THEN "bg_color" ELSE key)
          IN  /\ set = {} => entry.read[key] = None
              /\ \A i \in set : (\A j \in set : j <= i) => entry.read[key] = calls[i].to
    <3> TAKE key \in OptionalText
    <3> DEFINE name == IF key = "bgcolor" THEN "bg_color" ELSE key
    <3>1. name \in RecordKeys /\ entry.read[key] = r[name]
      BY <2>5 DEF OptionalText, RecordKeys
    <3> HIDE DEF name
    <3>2. /\ setting(name) = {} => entry.read[key] = None
          /\ \A i \in setting(name) :
               (\A j \in setting(name) : j <= i) => entry.read[key] = calls[i].to
      BY <2>3, <2>4, <3>1, Zenon
    <3> QED BY <3>2 DEF name
  <2> QED BY <2>6, <2>7, Zenon DEF ReadAsBuilt, setting
<1> QED BY <1>1, TracingInvHolds, PTL

\* A level parsed in whatever spelling puts an entry in the ERROR tab just when
\* it names an error or a warning, and just when is_error_or_warning says so.
THEOREM ErrorTabIsForeseen == TracingSpec => []ErrorTabForeseen
<1>1. TracingInv => ErrorTabForeseen
  <2> SUFFICES ASSUME TracingInv, Built, ~entry.of.custom PROVE ErrorTabForeseen
    BY Zenon DEF ErrorTabForeseen
  <2>1. PICK d \in Direct : entry.of = d /\ entry.read = ReadOf(BuildRecord(d))
    BY BuiltFacts, Zenon DEF TracingInv
  <2>2. BuildRecord(d).priority = PriorityOf(d)
    BY BuildFacts, Zenon DEF BuiltBy
  <2>3. PriorityOf(d) = FromStr(d.level)
    BY <2>1, Zenon DEF PriorityOf
  <2>4. entry.read.priority = FromStr(d.level).text
    <3>1. entry.read.priority = BuildRecord(d).priority.text
      BY <2>1, ReadRecord, Zenon
    <3> QED BY <2>2, <2>3, <3>1
  <2>5. d.level \in DOMAIN Upper
    BY DirectAssumption
  <2> DEFINE word == d.level
             error == Errors \cup {"WARNING"}
  <2>6. error \subseteq Protocol
    BY DEF Protocol
  <2>7. CASE Upper[word] \in Protocol
    <3>1. FromStr(word).text = Upper[word] /\ FromStr(word).custom = FALSE
      BY <2>7 DEF FromStr, Named
    <3> QED
      BY <2>1, <2>4, <2>3, <3>1, Zenon DEF ErrorTabForeseen, IsErrorOrWarning, InErrorTab
  <2>8. CASE Upper[word] \notin Protocol
    <3>1. FromStr(word).text = word /\ FromStr(word).custom = TRUE
      BY <2>8 DEF FromStr, Custom
    <3>2. word \notin Protocol
      BY <2>5, <2>8, UpperAssumption
    <3>3. word \notin error /\ Upper[word] \notin error
      BY <2>6, <2>8, <3>2
    <3> QED
      BY <2>1, <2>4, <2>3, <3>1, <3>3, Zenon DEF ErrorTabForeseen, IsErrorOrWarning, InErrorTab
  <2> QED BY <2>7, <2>8
<1> QED BY <1>1, TracingInvHolds, PTL
=============================================================================
