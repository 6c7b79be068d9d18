------------------------------ MODULE Tracing ------------------------------
(***************************************************************************)
(* The tracing adapter (src/src/adapter_tracing.rs): what a span keeps of  *)
(* the fields recorded on it, what an event shows of its own fields and of *)
(* the spans around it, and what becomes of a record of the log facade     *)
(* that arrives over tracing-log's bridge, against what the log adapter    *)
(* (src/src/adapter_log.rs) makes of the same record.                      *)
(*                                                                         *)
(* Threads open spans, record on them and emit events at the same time.    *)
(* A span's fields are behind a lock of their own, so an event reads its   *)
(* spans one after the other, and fields change in between.  An event      *)
(* changes nothing another one reads: one of them at a time is enough.     *)
(*                                                                         *)
(* What is given to the client is shown as the GUI reads it (module         *)
(* Payload); records that a program builds itself go there too.            *)
(*                                                                         *)
(* Text is a string out of Texts; a value of any other kind (a number, a   *)
(* Boolean, an error) is a string out of Others.  A key that is left out   *)
(* of the JSON because it would be empty is None, or the empty function.   *)
(***************************************************************************)
EXTENDS Integers, Payload

CONSTANTS
  Configs,                 \* configurations of the layer
  MaxSpans,                \* bound on the spans opened in a behaviour
  MaxChanges,              \* bound on what is opened and recorded, together
  Texts, Others,           \* the values of fields
  SpanFields,              \* what a span may be opened with, or record
  Events,                  \* tracing's events: metadata and fields
  LogRecords,              \* records of the log facade
  Words,                   \* the words a program builds its own records of
  Direct,                  \* what it builds with Record's own calls, of a
                           \* priority it parses or of Priority::Custom
  FixedCategory,
  CategoryFn               \* the application's function, of the target

ASSUME ValueAssumption == Texts \cap Others = {}
ASSUME ConfigAssumption ==
  Configs \subseteq [level : 1 .. 5, category : {"target", "fixed", "custom"},
                     spans : BOOLEAN, callSite : BOOLEAN]
ASSUME SpanAssumption == MaxSpans \in Nat /\ MaxChanges \in Nat
\* An event the bridge made has the record it was made of.
ASSUME EventAssumption == \A ev \in Events : ev.record = None
ASSUME LogAssumption == None \notin LogRecords /\ \A r \in LogRecords : r.message \in Texts

BuilderCalls ==
  [set : {"source", "original_category", "color", "bg_color"}, to : Words \cup {None}]
    \cup [set : {"extra_category"}, to : Words]
    \cup [set : {"extra_categories"}, to : Seq(Words)]

ASSUME DirectAssumption ==
  Direct \subseteq [custom : BOOLEAN, level : DOMAIN Upper, category : Words,
                    message : Words, calls : Seq(BuilderCalls)]

Spans == 1 .. MaxSpans
NoFields == <<>>

VARIABLES
  config,    \* the layer's configuration
  parent,    \* the spans opened so far, each with its parent, 0 for none
  slot,      \* what the layer keeps with a span, where it keeps something
  event,     \* the event being handled, or None
  entry,     \* what the GUI has just read, and of what, or None
  past       \* history: the fields of each span, as the program has set them

tracingVars == <<config, parent, slot, event, entry, past>>

Init ==
  /\ config \in Configs
  /\ parent = <<>> /\ slot = NoFields /\ past = <<>>
  /\ event = None /\ entry = None

-----------------------------------------------------------------------------
(* The visitor: it sorts a set of values into the message and the fields.  *)

LogFields == {"log.target", "log.module_path", "log.file", "log.line"}

\* Only text is taken for the message: a number named `message` is a field.
IsMessage(vals, name) == name = "message" /\ vals[name] \in Texts

MessageOf(vals) ==
  IF \E name \in DOMAIN vals : IsMessage(vals, name) THEN vals["message"] ELSE None

\* mutant: skips the fields of the bridge in every event
KeptSkipping(vals, facade) ==
  {name \in DOMAIN vals : ~IsMessage(vals, name) /\ name \notin LogFields}

\* mutant: skips them in none
KeptAll(vals, facade) == {name \in DOMAIN vals : ~IsMessage(vals, name)}

Kept(vals, facade) ==
  {name \in DOMAIN vals :
     /\ ~IsMessage(vals, name)
     /\ ~(facade /\ name \in LogFields)}

\* All of `new`, and what only `old` has.
Over(new, old) ==
  [x \in DOMAIN new \cup DOMAIN old |-> IF x \in DOMAIN new THEN new[x] ELSE old[x]]

\* The fields after a visit.
Visit(fields, vals, facade) == Over(Restrict(vals, Kept(vals, facade)), fields)

-----------------------------------------------------------------------------
(* Spans.                                                                  *)

\* mutant: the text a span is opened with is thrown away
OpenedWithout(vals) == Visit(NoFields, vals, FALSE)

\* The text of a new span is put back among its fields.
Opened(vals) ==
  LET fields == Visit(NoFields, vals, FALSE)
  IN  IF MessageOf(vals) = None THEN fields
                                ELSE Over([message |-> MessageOf(vals)], fields)

\* How often something was opened or recorded.
Changes == FoldSeq(LAMBDA states, n : Len(states) + n, 0, past)

\* span!(parent: p, ...); the new span's number is not known to anyone before
\* on_new_span has returned.
NewSpan(p, vals) ==
  LET s == Len(parent) + 1
  IN  /\ s \in Spans /\ Changes < MaxChanges
      /\ parent' = Append(parent, p)
      /\ past' = Append(past, <<vals>>)
      /\ slot' = IF config.spans THEN Over([t \in {s} |-> Opened(vals)], slot) ELSE slot
      /\ entry' = None
      /\ UNCHANGED <<config, event>>

\* mutant: takes the last record for all there is
OnRecordAfresh(s, vals) ==
  slot' = IF s \in DOMAIN slot
          THEN [slot EXCEPT ![s] = Visit(NoFields, vals, FALSE)] ELSE slot

\* mutant: keeps what is recorded on spans it did not take notice of
OnRecordAnyway(s, vals) ==
  slot' = Over([t \in {s} |-> Visit(IF s \in DOMAIN slot THEN slot[s] ELSE NoFields,
                                    vals, FALSE)], slot)

\* The text of a record ends in a local of on_record.
OnRecord(s, vals) ==
  slot' = IF s \in DOMAIN slot
          THEN [slot EXCEPT ![s] = Visit(slot[s], vals, FALSE)] ELSE slot

\* span.record(...)
RecordOn(s, vals) ==
  /\ Changes < MaxChanges
  /\ past' = [past EXCEPT ![s] = Append(@, Over(vals, Last(@)))]
  /\ OnRecord(s, vals)
  /\ entry' = None
  /\ UNCHANGED <<config, parent, event>>

\* The spans around an event, the outermost first.
Ancestors[s \in 0 .. Len(parent)] ==
  IF s = 0 THEN <<>> ELSE Append(Ancestors[parent[s]], s)

-----------------------------------------------------------------------------
(* Entries.                                                                *)

PriorityFor(level) ==
  Named(<<"ERROR", "WARNING", "INFORMATION", "DEBUG", "TRACE">>[level])

CategoryFor(target) ==
  CASE config.category = "target" -> target
    [] config.category = "fixed"  -> FixedCategory
    [] config.category = "custom" -> CategoryFn[target]

\* The module path, where the category does not tell it already.
Original(module, category) == IF module = category THEN None ELSE module

CallSite(file, line) ==
  IF file = None THEN None ELSE IF line = None THEN <<file>> ELSE <<file, line>>

\* What LogLogger::log gives the client for a record.
LogEntry(r) ==
  [NewRecord(PriorityFor(r.level), CategoryFor(r.target), r.message) EXCEPT
     !.source = CallSite(r.file, r.line),
     !.original_category = Original(r.module, CategoryFor(r.target))]

\* What the bridge makes of a record: one metadata for each level, and the
\* record's own, as far as it has them, in fields.
Bridged(r) ==
  LET own == [name \in LogFields |->
                CASE name = "log.target"      -> r.target
                  [] name = "log.module_path" -> r.module
                  [] name = "log.file"        -> r.file
                  [] name = "log.line"        -> r.line]
  IN  [level |-> r.level, target |-> "log", module |-> None, file |-> None,
       line |-> None, record |-> r,
       fields |-> Over([message |-> r.message],
                       Restrict(own, {name \in LogFields : own[name] # None}))]

FromFacade(ev) == ev.record # None

\* normalized_metadata, or the event's own.
Metadata(ev) ==
  LET field(name) == IF name \in DOMAIN ev.fields THEN ev.fields[name] ELSE None
  IN  IF FromFacade(ev)
      THEN [level |-> ev.level, target |-> field("log.target"),
            module |-> field("log.module_path"), file |-> field("log.file"),
            line |-> field("log.line")]
      ELSE ev

Empty == [at |-> None, fields |-> NoFields, spans |-> <<>>]

\* What on_event gives the client, having read the spans.
Entry(ev, shown) ==
  LET meta == Metadata(ev)
      category == CategoryFor(meta.target)
      source == [at     |-> IF config.callSite THEN CallSite(meta.file, meta.line)
                                               ELSE None,
                 fields |-> Visit(NoFields, ev.fields, FromFacade(ev)),
                 spans  |-> shown]
  IN  [NewRecord(PriorityFor(meta.level), category, MessageOf(ev.fields)) EXCEPT
         !.original_category = Original(meta.module, category),
         !.source = IF source = Empty THEN None ELSE source]

-----------------------------------------------------------------------------
(* Events.                                                                 *)

Enabled(level) == level <= config.level

\* An event inside span s, or outside all of them.
EventBegin(ev, s) ==
  /\ event = None /\ Enabled(ev.level)
  /\ event' = [of |-> ev, around |-> Ancestors[s], shown |-> <<>>,
               from |-> [p \in DOMAIN past |-> Len(past[p])]]
  /\ entry' = None
  /\ UNCHANGED <<config, parent, slot, past>>

\* The next span's name and fields, under the span's lock.
EventRead ==
  /\ event # None /\ config.spans
  /\ LET i == Len(event.shown) + 1
     IN  /\ i <= Len(event.around)
         /\ event' = [event EXCEPT !.shown =
              Append(@, [name |-> event.around[i], fields |-> slot[event.around[i]]])]
  /\ entry' = None
  /\ UNCHANGED <<config, parent, slot, past>>

EventLog ==
  /\ event # None
  /\ config.spans => Len(event.shown) = Len(event.around)
  /\ entry' = [read |-> ReadBack(FromRecord(Entry(event.of, event.shown))), of |-> event]
  /\ event' = None
  /\ UNCHANGED <<config, parent, slot, past>>

\* Record::new takes any Priority: the variant Custom is as good as the others,
\* whatever it spells.
PriorityOf(d) == IF d.custom THEN Custom(d.level) ELSE FromStr(d.level)

\* Client::log, of a record built call by call.
BuildRecord(d) ==
  LET after[n \in 0 .. Len(d.calls)] ==
        IF n = 0 THEN NewRecord(PriorityOf(d), d.category, d.message)
                 ELSE Call(after[n - 1], d.calls[n])
  IN  after[Len(d.calls)]

\* An application that has no spans open logs on its own.
DirectLog(d) ==
  /\ event = None /\ parent = <<>>
  /\ entry' = [read |-> ReadBack(FromRecord(BuildRecord(d))), of |-> d]
  /\ UNCHANGED <<config, parent, slot, event, past>>

Next ==
  \/ \E d \in Direct : DirectLog(d)
  \/ \E p \in 0 .. Len(parent), vals \in SpanFields : NewSpan(p, vals)
  \/ \E s \in DOMAIN parent, vals \in SpanFields : RecordOn(s, vals)
  \/ \E ev \in Events \cup {Bridged(r) : r \in LogRecords}, s \in 0 .. Len(parent) :
       EventBegin(ev, s)
  \/ EventRead \/ EventLog

TracingSpec == Init /\ [][Next]_tracingVars

-----------------------------------------------------------------------------
\* Everything opened has its history, and only a layer that includes spans
\* keeps anything with them.
TracingTypeOK ==
  /\ config \in Configs
  /\ DOMAIN past = DOMAIN parent
  /\ \A s \in DOMAIN parent : parent[s] \in 0 .. s - 1
  /\ DOMAIN slot = IF config.spans THEN DOMAIN parent ELSE {}
  /\ event = None \/ Len(event.shown) <= Len(event.around)

\* What was handled: an event, or what a program built itself.
Handled == entry # None /\ "around" \in DOMAIN entry.of
Built == entry # None /\ "calls" \in DOMAIN entry.of

\* The details of the entry, and the spans among them.
Details == IF entry.read.source = None THEN Empty ELSE entry.read.source
Shown == IF Handled THEN Details.spans ELSE <<>>

NoMessage(fields) == Restrict(fields, DOMAIN fields \ {"message"})

\* fields is what span s had at some moment of the event, through f.
HadDuring(s, fields, f(_)) ==
  \E k \in entry.of.from[s] .. Len(past[s]) : f(fields) = f(past[s][k])

\* An entry shows every span around its event, the outermost first, and of
\* each one state of its fields while the event was being handled: none from
\* before it began, none with one field new and another old.  The span's
\* message apart: one that is recorded later never shows (adapter_tracing.rs:247).
SpansCurrent ==
  Handled /\ config.spans =>
    /\ Len(Shown) = Len(entry.of.around)
    /\ \A i \in DOMAIN Shown :
         /\ Shown[i].name = entry.of.around[i]
         /\ HadDuring(Shown[i].name, Shown[i].fields, NoMessage)

\* The text a span was opened with is shown for as long as no other message is
\* recorded on it, whatever else is (adapter_tracing.rs:232).
OpeningTextKept ==
  \A i \in DOMAIN Shown :
    LET text == MessageOf(past[Shown[i].name][1])
    IN  text # None /\ (\A k \in DOMAIN past[Shown[i].name] :
                          past[Shown[i].name][k]["message"] = text)
          => MessageOf(Shown[i].fields) = text

\* A record of the log facade comes to the same tab, priority, message and
\* original category over the bridge as through the log adapter, with the same
\* call site, and shows no field the program did not write.
SameEitherWay ==
  Handled /\ FromFacade(entry.of.of) =>
    LET other == ReadBack(FromRecord(LogEntry(entry.of.of.record)))
    IN  /\ \A key \in DOMAIN other \ {"source"} : entry.read[key] = other[key]
        /\ config.callSite => Details.at = other.source
        /\ Details.fields = NoFields

\* Everything a program put in an event of its own is there to be read, as its
\* message or among its fields, whatever it named them (adapter_tracing.rs:344).
UserFieldsKept ==
  Handled /\ ~FromFacade(entry.of.of) =>
    LET given == entry.of.of.fields
    IN  \A name \in DOMAIN given :
          \/ name = "message" /\ entry.read.message = given[name]
          \/ name \in DOMAIN Details.fields /\ Details.fields[name] = given[name]

\* The tabs an entry is filed under are the ones the program named: all of
\* them, whichever way and in however many calls it named them.  Of anything
\* else it set, the GUI shows what it set last, and nothing it did not set.
ReadAsBuilt ==
  Built =>
    LET calls == entry.of.calls
        setting(name) == {i \in DOMAIN calls : calls[i].set = name}
    IN  /\ ToSet(entry.read.extra_categories) =
             {calls[i].to : i \in setting("extra_category")}
               \cup UNION {ToSet(calls[i].to) : i \in setting("extra_categories")}
        /\ \A key \in OptionalText :
             LET set == setting(IF key = "bgcolor" THEN "bg_color" ELSE key)
             IN  /\ set = {} => entry.read[key] = None
                 /\ \A i \in set : (\A j \in set : j <= i) => entry.read[key] = calls[i].to

\* A level that is parsed, spelt in whatever case, puts an entry in the GUI's
\* ERROR tab just when it names an error or a warning, and just when the client
\* says it would (priority.rs:61-62, 97-99).
ErrorTabForeseen ==
  Built /\ ~entry.of.custom =>
    LET foreseen == IsErrorOrWarning(PriorityOf(entry.of))
    IN  /\ InErrorTab(entry.read.priority) <=> foreseen
        /\ InErrorTab(Upper[entry.of.level]) <=> foreseen

\* What the code says of the others: "a [`Priority::Custom`] value never does,
\* whatever it spells" reach the ERROR tab (priority.rs:69-70).
CustomNeverInErrorTab ==
  Built /\ entry.of.custom => ~InErrorTab(entry.read.priority)
=============================================================================
