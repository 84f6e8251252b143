----------------------------- MODULE SettingsFetch -----------------------------
(* EspIdfSettingsFetcher and EspIdfSettingsParser: a task of its own asks    *)
(* the API for the settings, over TLS and then, for one host, in the clear,  *)
(* with retries; its callback parses the answer. Another task may cancel,    *)
(* the network and the clock come and go meanwhile.                          *)
EXTENDS Naturals, FiniteSets

CONSTANTS
  MaxAttempts, \* SettingsFetchRequest::max_attempts
  BodyCap,     \* max_body_bytes, in chunks
  MaxFetches,  \* bound on fetches
  MaxObjects   \* bound on broker objects in a document

ASSUME FetchAssumption ==
  MaxAttempts \in Nat \ {0} /\ BodyCap \in Nat /\ MaxFetches \in Nat /\ MaxObjects \in Nat

VARIABLES
  fetchTask,    \* where the task is; "none" when there is none
  fetchRunning, \* _running
  fetchCancel,  \* _cancel
  url,          \* of the request: "api" and "other" are https, "plain" is not
  turn,         \* phase and attempt
  lastErr, httpStatus,
  body,         \* the attempts the chunks in _body come from, and their number
  heard,        \* the status the last TLS exchange of this fetch got; None
                \* also when there was no exchange yet
  result,       \* the result handed to the callback
  parsed,       \* what the parser made of it
  online, clockSet,
  fetches

fetchVars == <<fetchTask, fetchRunning, fetchCancel, url, turn, lastErr, httpStatus,
               body, heard, result, parsed, online, clockSet, fetches>>
taskVars == <<turn, lastErr, httpStatus, body, heard>>
surroundings == <<fetchRunning, fetchCancel, url, online, clockSet, fetches, parsed>>

None == "none"
NoBody == [from |-> {}, size |-> 0]
NoSettings == [ok |-> FALSE, brokers |-> {}]
NoResult == [err |-> "none", status |-> None, cancelled |-> FALSE]

FetchInit ==
  /\ fetchTask = "none" /\ fetchRunning = FALSE /\ fetchCancel = FALSE
  /\ url = "other"
  /\ turn = [phase |-> 0, attempt |-> 0]
  /\ lastErr = "fail" /\ httpStatus = None
  /\ body = NoBody /\ heard = None
  /\ result = NoResult /\ parsed = NoSettings
  /\ online = TRUE /\ clockSet = FALSE
  /\ fetches = MaxFetches

-----------------------------------------------------------------------------
(* The callers' tasks and the surroundings *)

\* start(): refused while one runs, and without memory for body or task.
FetchStart ==
  /\ fetches > 0 /\ fetches' = fetches - 1
  /\ ~fetchRunning
  /\ url' \in {"api", "other", "plain"}
  /\ fetchCancel' = FALSE /\ body' = NoBody
  /\ \E created \in BOOLEAN :
       fetchRunning' = created /\ fetchTask' = IF created THEN "created" ELSE "none"
  /\ UNCHANGED <<turn, lastErr, httpStatus, heard, result, parsed, online, clockSet>>

FetchCancel ==
  /\ fetchCancel' = TRUE
  /\ UNCHANGED <<fetchTask, fetchRunning, url, taskVars, result, parsed, online, clockSet, fetches>>

\* The network comes and goes; time is set once, by SNTP.
Surroundings ==
  /\ fetchTask # "none"
  /\ \/ online' = ~online /\ UNCHANGED clockSet
     \/ clockSet' = TRUE /\ UNCHANGED online
  /\ UNCHANGED <<fetchTask, fetchRunning, fetchCancel, url, taskVars, result, parsed, fetches>>

-----------------------------------------------------------------------------
(* The task *)

Tls == url # "plain" /\ turn.phase = 0

\* finishAndCallback. The callback runs before _running is cleared.
FinishAndCallback(err, status, cancelled) ==
  /\ fetchTask' = "callback"
  /\ result' = [err |-> err, status |-> status, cancelled |-> cancelled]

TaskEntry ==
  /\ fetchTask = "created"
  /\ fetchTask' = "attempt"
  /\ turn' = [phase |-> 0, attempt |-> 1]
  /\ lastErr' = "fail" /\ httpStatus' = None /\ heard' = None
  /\ UNCHANGED <<body, result, surroundings>>

\* The top of the attempt loop, up to the wait for the time of day.
Attempt ==
  /\ fetchTask = "attempt"
  /\ \/ ~online /\ FinishAndCallback("network_down", None, FALSE) /\ UNCHANGED body
     \/ online /\ fetchCancel /\ FinishAndCallback("invalid_state", None, TRUE) /\ UNCHANGED body
     \/ /\ online /\ ~fetchCancel
        /\ body' = NoBody
        /\ fetchTask' = IF Tls THEN "wait_for_time" ELSE "air"
        /\ UNCHANGED result
  /\ UNCHANGED <<turn, lastErr, httpStatus, heard, surroundings>>

\* buildHttpFallbackUrl: one host has another URL, in the clear.
HasFallbackUrl == url = "api"

ShouldRetry(err, status) ==
  /\ turn.attempt < MaxAttempts /\ ~fetchCancel
  /\ err # "ok" \/ status \in {"5xx", "408"}

FallbackOnAnyFailure(err, status) ==
  turn.phase = 0 /\ url = "api" /\ ~fetchCancel /\ err \notin {"ok", "no_memory"}
ShouldUseHttpFallback(err, status) ==
  /\ turn.phase = 0 /\ HasFallbackUrl
  /\ ~fetchCancel /\ err \notin {"ok", "no_memory"} /\ status = None

\* From the return of performOnce to the end of the loop's body.
Performed(err, status) ==
  /\ lastErr' = err /\ httpStatus' = status
  /\ \/ fetchCancel /\ FinishAndCallback("invalid_state", status, TRUE) /\ UNCHANGED turn
     \/ ~fetchCancel /\ err = "ok" /\ status = "2xx" /\ FinishAndCallback("ok", status, FALSE) /\ UNCHANGED turn
     \/ /\ ~fetchCancel /\ ~(err = "ok" /\ status = "2xx")
        /\ CASE ShouldRetry(err, status) ->
                  fetchTask' = "backoff" /\ UNCHANGED <<turn, result>>
             [] ~ShouldRetry(err, status) /\ ShouldUseHttpFallback(err, status) ->
                  IF online
                  THEN /\ fetchTask' = "attempt" /\ turn' = [phase |-> 1, attempt |-> 1]
                       /\ UNCHANGED result
                  ELSE FinishAndCallback("network_down", None, FALSE) /\ UNCHANGED turn
             [] OTHER ->
                  FinishAndCallback(IF err = "ok" THEN "unknown" ELSE err, status, FALSE) /\ UNCHANGED turn

\* The clock is not set within the budget: the status is that of the attempt before.
WaitForTime ==
  /\ fetchTask = "wait_for_time"
  /\ \/ clockSet /\ fetchTask' = "air" /\ UNCHANGED <<turn, lastErr, httpStatus, result>>
     \/ ~clockSet /\ Performed("timeout", httpStatus)
  /\ UNCHANGED <<body, heard, surroundings>>

\* A chunk beyond the limit is dropped; a cancelled fetch takes none.
AppendBody ==
  /\ fetchTask = "air" /\ ~fetchCancel /\ body.size < BodyCap
  /\ body' = [from |-> body.from \cup {turn}, size |-> body.size + 1]
  /\ UNCHANGED <<fetchTask, turn, lastErr, httpStatus, heard, result, surroundings>>

\* What esp_http_client_perform may return, as map_esp_err and performOnce
\* tell it apart.
FetchAnswers ==
  [err : {"ok"}, status : {"2xx", "408", "4xx", "5xx"}]
    \cup [err : {"transport", "timeout"}, status : {None}]
    \cup [err : {"transport"}, status : {"5xx"}]

\* No memory for a client: there is no exchange, and the status stays.
NoClient ==
  /\ fetchTask = "air"
  /\ Performed("no_memory", httpStatus)
  /\ UNCHANGED <<body, heard, surroundings>>

PerformOnce ==
  /\ fetchTask = "air"
  /\ \E answer \in FetchAnswers :
       /\ Performed(answer.err, answer.status)
       /\ heard' = IF Tls THEN answer.status ELSE heard
  /\ UNCHANGED <<body, surroundings>>

Backoff ==
  /\ fetchTask = "backoff"
  /\ fetchTask' = "attempt"
  /\ turn' = [turn EXCEPT !.attempt = @ + 1]
  /\ UNCHANGED <<lastErr, httpStatus, body, heard, result, surroundings>>

-----------------------------------------------------------------------------
(* The parser. A document holds broker objects; one without a port in range  *)
(* is unusable.                                                              *)

Objects == {"mqtt", "mqtt.primary", "mqtt.secondary", "mqtt.tertiary",
            "primary", "secondary", "tertiary"}
Documents ==
  [brokers : {d \in [Objects -> {"absent", "usable", "unusable"}] :
                Cardinality({o \in Objects : d[o] # "absent"}) <= MaxObjects},
   autoWithoutUrl : BOOLEAN]

Backups(first) ==
  CASE first = "mqtt.primary" -> {"mqtt.secondary", "mqtt.tertiary"}
    [] first = "primary" -> {"secondary", "tertiary"}
    [] OTHER -> {}

\* parseMqtt: the first shape whose main object is usable is taken for good,
\* a backup of it that is unusable included.
ParseMqtt(d) ==
  LET usable == {o \in {"mqtt.primary", "mqtt", "primary", "secondary"} : d[o] = "usable"}
      first == CASE "mqtt.primary" \in usable -> "mqtt.primary"
                 [] usable \cap {"mqtt.primary", "mqtt"} = {"mqtt"} -> "mqtt"
                 [] "primary" \in usable -> "primary"
                 [] OTHER -> "secondary"
      sent == {o \in Backups(first) : d[o] # "absent"}
  IN  IF usable = {} \/ \E o \in sent : d[o] = "unusable" THEN NoSettings
      ELSE [ok |-> TRUE, brokers |-> {first} \cup sent]

\* parse: a firmware section it refuses costs the brokers too.
Parse(document) ==
  IF document.autoWithoutUrl THEN NoSettings ELSE ParseMqtt(document.brokers)

\* The callback, then the end of taskEntry.
Callback ==
  /\ fetchTask = "callback"
  /\ fetchTask' = "called_back"
  /\ IF result.err = "ok" THEN \E document \in Documents : parsed' = Parse(document)
     ELSE UNCHANGED parsed
  /\ UNCHANGED <<taskVars, result, fetchRunning, fetchCancel, url, online, clockSet, fetches>>

TaskEnds ==
  /\ fetchTask = "called_back"
  /\ fetchTask' = "none" /\ fetchRunning' = FALSE
  /\ parsed' = NoSettings /\ result' = NoResult
  /\ UNCHANGED <<taskVars, fetchCancel, url, online, clockSet, fetches>>

FetchNext ==
  \/ FetchStart \/ FetchCancel \/ Surroundings
  \/ TaskEntry \/ Attempt \/ WaitForTime \/ AppendBody \/ NoClient \/ PerformOnce \/ Backoff
  \/ Callback \/ TaskEnds

FetchSpec == FetchInit /\ [][FetchNext]_fetchVars

-----------------------------------------------------------------------------
(* Properties *)

FetchTypeOK ==
  /\ fetchTask \in {"none", "created", "attempt", "wait_for_time", "air", "backoff",
                    "callback", "called_back"}
  /\ fetchRunning \in BOOLEAN /\ fetchCancel \in BOOLEAN
  /\ url \in {"api", "other", "plain"}
  /\ turn.phase \in {0, 1} /\ turn.attempt \in 0..MaxAttempts
  /\ httpStatus \in {None, "2xx", "408", "4xx", "5xx"} /\ heard \in {None, "2xx", "408", "4xx", "5xx"}
  /\ body.size \in 0..BodyCap
  /\ online \in BOOLEAN /\ clockSet \in BOOLEAN
  /\ fetches \in 0..MaxFetches

\* The fetcher goes over to plain HTTP, credentials in its headers, for the
\* one host that allows it and never right after a TLS exchange that got a
\* status, be it an error. This is all run() ensures: without the time of day
\* there is no TLS exchange at all and the clear text is the first the server
\* hears, and an exchange before the last may have been answered.
NotPlainAfterAnswer ==
  (fetchTask \in {"attempt", "air"} /\ turn.phase = 1) => (url = "api" /\ heard = None)

\* The callback of a fetch that succeeded gets the body of the attempt that
\* succeeded and nothing that an attempt before it left in the buffer.
BodyOfOneAttempt ==
  (fetchTask = "callback" /\ result.err = "ok") => body.from \subseteq {turn}

\* One fetch at a time: while a task is alive, callback included, start()
\* finds it running, so no second task writes the request and the buffer.
OneFetchTask == fetchTask # "none" => fetchRunning

FetchSound == NotPlainAfterAnswer /\ BodyOfOneAttempt /\ OneFetchTask
=============================================================================
