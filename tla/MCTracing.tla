----------------------------- MODULE MCTracing -----------------------------
(***************************************************************************)
(* Tracing for TLC: fields named like the layer's own keys and like the    *)
(* bridge's, messages that are text and messages that are not, and log     *)
(* records with and without a module path and a call site.                 *)
(***************************************************************************)
EXTENDS Tracing

MCConfigs ==
  {[level |-> 5, category |-> "target", spans |-> TRUE, callSite |-> TRUE],
   [level |-> 5, category |-> "custom", spans |-> TRUE, callSite |-> FALSE],
   [level |-> 4, category |-> "fixed", spans |-> FALSE, callSite |-> TRUE]}

MCTexts == {"hello", "bye", "text"}
MCOthers == {"1", "2"}

MCSpanFields ==
  {[message |-> "hello", id |-> "1"], [id |-> "2", user |-> "2"],
   [message |-> "bye", user |-> "1"]}

Event(fields) ==
  [level |-> 3, target |-> "app::http", module |-> "app::http", file |-> "http.rs",
   line |-> "41", record |-> None, fields |-> fields]

MCEvents ==
  {Event([message |-> "hello", at |-> "1"]),
   Event([message |-> "1", spans |-> "text"]),
   Event(("log.file" :> "text") @@ ("log.target" :> "1"))}

MCLogRecords ==
  {[level |-> 2, target |-> "dep::net", module |-> "dep::net", file |-> "net.rs",
    line |-> "7", message |-> "text"],
   [level |-> 4, target |-> "dep::net", module |-> "dep::db", file |-> "db.rs",
    line |-> None, message |-> "hello"],
   [level |-> 5, target |-> "app", module |-> None, file |-> None, line |-> None,
    message |-> "bye"]}

Set(key, value) == [set |-> key, to |-> value]

MCWords == {"app", "hello", "red", "blue", "green", "db", "net", "io", "text", "app::http"}

MCDirect ==
  [custom : BOOLEAN, level : {"error", "Warning", "ERROR", "FATAL", "severe"},
   category : {"app"}, message : {"hello"},
   calls : {<<>>,
            <<Set("color", "red"), Set("bg_color", "blue"), Set("color", "green")>>,
            <<Set("extra_category", "db"), Set("extra_categories", <<"net", "io">>),
              Set("source", "text")>>,
            <<Set("source", "text"), Set("source", None),
              Set("original_category", "app::http")>>}]

MCUpper ==
  ("error" :> "ERROR") @@ ("Warning" :> "WARNING") @@ ("ERROR" :> "ERROR") @@
  ("FATAL" :> "FATAL") @@ ("severe" :> "SEVERE")

MCCategoryFn ==
  [target \in {"app::http", "dep::net", "app", "log"} |->
     IF target \in {"dep::net"} THEN "dep" ELSE "app"]
=============================================================================
