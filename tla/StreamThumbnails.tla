-------------------------- MODULE StreamThumbnails --------------------------
(* The thumbnails of rules and drafts (VstStreamThumbnail.tsx) and the cache    *)
(* of the sensor list they share (fetchSensorMap in vstSensorList.ts): one       *)
(* request serves every row for a minute, a failed one serves nobody again.      *)
EXTENDS Naturals

CONSTANTS
    Rows,         \* table rows
    Sensors,      \* sensor names typed into them
    MaxRequests   \* bound: requests for the sensor list

ASSUME ThumbnailConstants == MaxRequests \in Nat

VARIABLES
    asksSent,    \* requests for the list so far
    answers,     \* the answer of each: "none", "failed", or the sensors it lists
    cached,      \* the request whose promise the cache holds, 0 for none
    expired,     \* it is older than SENSOR_LIST_TTL_MS
    sensorName,  \* the sensor of each row
    effect,      \* the request that the effect of each row waits for, 0 for none
    state,       \* what the row shows
    pictures     \* pictureUrlCache

sensorVars == <<asksSent, answers, cached, expired>>
rowVars == <<sensorName, effect, state, pictures>>
thumbnailVars == <<sensorVars, rowVars>>

NoName == "none"
Requests == 1 .. MaxRequests
Unanswered == [at |-> "none", sensors |-> {}]

ThumbnailTypeOK ==
    /\ asksSent \in 0 .. MaxRequests /\ cached \in 0 .. asksSent /\ expired \in BOOLEAN
    /\ answers \in [Requests -> [at : {"none", "failed", "ok"}, sensors : SUBSET Sensors]]
    /\ sensorName \in [Rows -> Sensors \cup {NoName}] /\ effect \in [Rows -> 0 .. MaxRequests]
    /\ state \in [Rows -> [kind : {"idle", "loading", "ready", "unavailable"}, of : Sensors \cup {NoName}]]
    /\ pictures \subseteq Sensors

Shows(kind, s) == [kind |-> kind, of |-> s]

ThumbnailInit ==
    /\ asksSent = 0 /\ answers = [q \in Requests |-> Unanswered] /\ cached = 0 /\ expired = FALSE
    /\ sensorName = [r \in Rows |-> NoName] /\ effect = [r \in Rows |-> 0]
    /\ state = [r \in Rows |-> Shows("idle", NoName)] /\ pictures = {}

-----------------------------------------------------------------------------

\* fetchSensorMap: the entry of the cache, or a request of its own.
FetchSensorMap(r) ==
    IF cached # 0 /\ ~expired
    THEN effect' = [effect EXCEPT ![r] = cached] /\ UNCHANGED sensorVars
    ELSE /\ asksSent < MaxRequests
         /\ asksSent' = asksSent + 1 /\ cached' = asksSent' /\ expired' = FALSE
         /\ effect' = [effect EXCEPT ![r] = asksSent']
         /\ UNCHANGED answers

\* The sensor of a row is typed: its effect runs again, the one before is cancelled.
NameChanges(r, s) ==
    /\ sensorName[r] # s
    /\ sensorName' = [sensorName EXCEPT ![r] = s]
    /\ IF s = NoName
       THEN /\ state' = [state EXCEPT ![r] = Shows("idle", NoName)]
            /\ effect' = [effect EXCEPT ![r] = 0]
            /\ UNCHANGED sensorVars
       ELSE /\ state' = [state EXCEPT ![r] = Shows(IF s \in pictures THEN "ready" ELSE "loading", s)]
            /\ FetchSensorMap(r)
    /\ UNCHANGED pictures

CacheExpires ==
    /\ cached # 0 /\ ~expired
    /\ expired' = TRUE
    /\ UNCHANGED <<asksSent, answers, cached, rowVars>>

\* Mutant: a failed request empties the cache, whoever's entry it holds.
EvictsAnybody(q) == 0

Evicted(q) == IF cached = q THEN 0 ELSE cached

SensorListAnswered(q) ==
    /\ q <= asksSent /\ answers[q].at = "none"
    /\ \/ \E online \in SUBSET Sensors : answers' = [answers EXCEPT ![q] = [at |-> "ok", sensors |-> online]]
          /\ UNCHANGED cached
       \/ /\ answers' = [answers EXCEPT ![q].at = "failed"]
          /\ cached' = Evicted(q)
    /\ UNCHANGED <<asksSent, expired, rowVars>>

\* The row still has the name the effect ran for.
StillShown(r, s) == sensorName[r] = s

\* The promise of the list is settled: the row shows the picture of its sensor,
\* which is remembered for the other rows, or that there is none.
EffectRuns(r, s) ==
    /\ effect[r] # 0 /\ answers[effect[r]].at # "none" /\ StillShown(r, s)
    /\ effect' = [effect EXCEPT ![r] = 0]
    /\ IF s \in answers[effect[r]].sensors
       THEN state' = [state EXCEPT ![r] = Shows("ready", s)] /\ pictures' = pictures \cup {s}
       ELSE state' = [state EXCEPT ![r] = Shows("unavailable", s)] /\ pictures' = pictures \ {s}
    /\ UNCHANGED <<sensorName, sensorVars>>

ThumbnailNext ==
    \/ \E r \in Rows, s \in Sensors \cup {NoName} : NameChanges(r, s) \/ (s # NoName /\ EffectRuns(r, s))
    \/ CacheExpires
    \/ \E q \in Requests : SensorListAnswered(q)

ThumbnailSpec == ThumbnailInit /\ [][ThumbnailNext]_thumbnailVars

-----------------------------------------------------------------------------

\* The cache never serves a failed list, keeps the newest one that has not failed
\* whatever older requests do, and a row never shows the picture of another
\* sensor or waits for a list nobody asked for.
ThumbnailsAreCurrent ==
    /\ cached # 0 => cached = asksSent /\ answers[cached].at # "failed"
    /\ asksSent # 0 /\ answers[asksSent].at # "failed" => cached = asksSent
    /\ \A r \in Rows :
           /\ state[r].of = sensorName[r]
           /\ state[r].kind = "loading" => effect[r] # 0
=============================================================================
