------------------------------ MODULE Payload ------------------------------
(***************************************************************************)
(* An entry on its way to the GUI: the Record a program builds             *)
(* (src/src/record.rs), its Priority (src/src/priority.rs), the JSON       *)
(* object made of it (src/src/proto.rs), as a function of its keys, and    *)
(* what the other side reads out of that (src/examples/mock_server.rs).    *)
(* The time is in module Timestamp.                                        *)
(***************************************************************************)
EXTENDS SequencesExt

CONSTANTS
  Upper,  \* str::to_ascii_uppercase, of the words a program parses
  None    \* the empty string

-----------------------------------------------------------------------------
(* Priorities: one of the eight with a name, or Custom.                    *)

Errors == {"FATAL", "CRITICAL", "ERROR"}
Protocol == Errors \cup {"TRACE", "DEBUG", "INFORMATION", "NOTICE", "WARNING"}

Named(name) == [custom |-> FALSE, text |-> name]
Custom(word) == [custom |-> TRUE, text |-> word]

IsErrorOrWarning(priority) ==
  ~priority.custom /\ priority.text \in Errors \cup {"WARNING"}

\* mutant: knows the names in capitals only
FromStrCaseSensitive(word) == IF word \in Protocol THEN Named(word) ELSE Custom(word)

FromStr(word) == IF Upper[word] \in Protocol THEN Named(Upper[word]) ELSE Custom(word)

\* The GUI knows a priority by its text alone.
InErrorTab(text) == text \in Errors \cup {"WARNING"}

\* What is in capitals stays as it is.
ASSUME UpperAssumption == \A word \in DOMAIN Upper : word \in Protocol => Upper[word] = word

-----------------------------------------------------------------------------
(* Records, and the calls that build them.                                 *)

NewRecord(priority, category, message) ==
  [priority |-> priority, category |-> category, message |-> message,
   source |-> None, original_category |-> None, extra_categories |-> <<>>,
   color |-> None, bg_color |-> None]

\* mutant: the tabs of extra_categories replace the ones there are
CallReplaces(record, call) ==
  CASE call.set = "extra_category" -> [record EXCEPT !.extra_categories = Append(@, call.to)]
    [] OTHER -> [record EXCEPT ![call.set] = call.to]

Call(record, call) ==
  CASE call.set = "extra_category" -> [record EXCEPT !.extra_categories = Append(@, call.to)]
    [] call.set = "extra_categories" -> [record EXCEPT !.extra_categories = @ \o call.to]
    [] OTHER -> [record EXCEPT ![call.set] = call.to]

-----------------------------------------------------------------------------
(* The JSON object, and what is read out of it.                            *)

OptionalText == {"source", "original_category", "color", "bgcolor"}

Emitted(record) ==
  {"priority", "category", "message"}
    \cup {key \in OptionalText :
            record[IF key = "bgcolor" THEN "bg_color" ELSE key] # None}
    \cup {key \in {"extra_categories"} : record[key] # <<>>}

FromRecord(record) ==
  [key \in Emitted(record) |->
     CASE key = "priority" -> record.priority.text
       [] key = "bgcolor"  -> record.bg_color
       [] OTHER            -> record[key]]

\* A key that is not there is read as empty.
ReadBack(json) ==
  [key \in OptionalText \cup {"priority", "category", "message", "extra_categories"} |->
     IF key \in DOMAIN json THEN json[key]
     ELSE IF key = "extra_categories" THEN <<>> ELSE None]
=============================================================================
