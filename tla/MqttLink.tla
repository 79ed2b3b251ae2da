------------------------------- MODULE MqttLink -------------------------------
(***************************************************************************)
(* When an anchor tries to reach its broker: mqtt_loop() and               *)
(* mqtt_reconnect_now() of mqttlink.cpp, over a millisecond clock that     *)
(* wraps.  The loop runs far more often than the clock matters here, so    *)
(* that no time passes while an attempt is due.                            *)
(***************************************************************************)
EXTENDS Naturals

CONSTANTS
  Wrap,      \* the clock counts modulo this (2^32)
  RetryMin,  \* MQTT_RETRY_MIN_MS
  RetryMax   \* MQTT_RETRY_MAX_MS, far less than half of Wrap

VARIABLES
  now,        \* millis()
  next,       \* next_attempt_ms
  retry,      \* retry_ms
  connected,  \* client.connected()
  wifi        \* WiFi.status() == WL_CONNECTED

vars == <<now, next, retry, connected, wifi>>

\* From a to b on the clock
Since(a, b) == (b + Wrap - a) % Wrap

\* (int32_t)(now - next_attempt_ms) >= 0
Due == 2 * Since(next, now) < Wrap

Doubled == IF 2 * retry > RetryMax THEN RetryMax ELSE 2 * retry

\* mqtt_begin()
Init ==
  /\ now = 0 /\ next = 0 /\ retry = RetryMin
  /\ connected = FALSE /\ wifi = TRUE

\* mqtt_loop() without a connection: the probe or the connect may fail.
Attempt ==
  /\ ~connected /\ wifi /\ Due
  /\ next' = (now + retry) % Wrap
  /\ \/ connected' = TRUE /\ retry' = RetryMin
     \/ connected' = FALSE /\ retry' = Doubled
  /\ UNCHANGED <<now, wifi>>

\* mqtt_reconnect_now(): other settings were saved on the web page.
ReconnectNow ==
  /\ connected' = FALSE /\ next' = 0 /\ retry' = RetryMin
  /\ UNCHANGED <<now, wifi>>

ConnectionLost ==
  /\ connected /\ connected' = FALSE
  /\ UNCHANGED <<now, next, retry, wifi>>

WifiChanges ==
  /\ wifi' = ~wifi
  /\ connected' = (connected /\ wifi')
  /\ UNCHANGED <<now, next, retry>>

Tick ==
  /\ ~(~connected /\ wifi /\ Due)
  /\ now' = (now + 1) % Wrap
  /\ UNCHANGED <<next, retry, connected, wifi>>

Next == Attempt \/ ReconnectNow \/ ConnectionLost \/ WifiChanges \/ Tick

Spec == Init /\ [][Next]_vars

\* An anchor without its broker tries to reach it before long: at once when it
\* is told to ("retry immediately", mqttlink.cpp), and else within the longest
\* backoff ("back off so the gaps stay short").
TriesSoon == ~connected /\ wifi => Due \/ Since(now, next) <= RetryMax

=============================================================================
