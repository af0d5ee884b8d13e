------------------------------ MODULE LogBuffer -----------------------------
(***************************************************************************)
(* The sizes of the text buffers of main.c: log_entry[128], mqtt_logs[512] *)
(* and json_buf[1024], as lengths.  A round appends six entries; send_data *)
(* builds its reply from the log at any moment.  message[16], which holds  *)
(* one number or the time of day, is left out.                             *)
(***************************************************************************)
EXTENDS Integers

CONSTANTS TimestampLengths,  \* lengths of %ld of esp_log_timestamp
          MsgIdLengths       \* lengths of %d of msg_id

\* Both are 32-bit numbers, printed with a sign from 2^31 on.
ASSUME LengthAssumption ==
  TimestampLengths \subseteq 1..11 /\ MsgIdLengths \subseteq 1..11

EntrySize   == 128
LogsSize    == 512
JsonSize    == 1024

VARIABLES
  entry,  \* how many entries this round has appended
  used,   \* strlen(mqtt_logs)
  uncut,  \* what it would be if nothing had been cut
  reply   \* the length of what the last snprintf of send_data wanted

logVars == <<entry, used, uncut, reply>>

\* The names in the six entries: humidity, temperature, regar, alarmariego,
\* humedadsuelo and current_time.
NameLength == <<8, 11, 5, 11, 12, 12>>

\* I (%ld) INFO_MQTT: sent publish NAME, msg_id=%d<br>
EntryLength(i, t, m) == 42 + NameLength[i] + t + m

\* snprintf writes at most size - 1 characters.
Fitted(n, size) == IF n < size THEN n ELSE size - 1

\* strncat(mqtt_logs, log_entry, sizeof(mqtt_logs) - strlen(mqtt_logs) - 1)
Concatenated(n, m) == IF m <= LogsSize - n - 1 THEN n + m ELSE LogsSize - 1

LogInit == entry = 0 /\ used = 0 /\ uncut = 0 /\ reply = 0

\* Mutant: the previous logs are not cleared.
UsedNotCleared == used

UsedAfterMemset == 0

BeginRound ==
  /\ entry \in {0, 6}
  /\ entry' = 0
  /\ used' = UsedAfterMemset
  /\ uncut' = UsedAfterMemset
  /\ UNCHANGED reply

AppendEntry ==
  /\ entry < 6
  /\ entry' = entry + 1
  /\ \E t \in TimestampLengths, m \in MsgIdLengths :
       LET n == EntryLength(entry + 1, t, m)
       IN  /\ used' = Concatenated(used, Fitted(n, EntrySize))
           /\ uncut' = uncut + n
  /\ UNCHANGED reply

\* Mutant: the log is quoted twice.
ReplyWithLogTwice(n) == 101 + 3 * 11 + 5 + 5 + 8 + 2 * n

\* The fixed text of the document, three numbers, two booleans, the time of
\* eight characters and the log.
ReplyLength(n) == 101 + 3 * 11 + 5 + 5 + 8 + n

SendData ==
  /\ reply' = ReplyLength(used)
  /\ UNCHANGED <<entry, used, uncut>>

LogNext == BeginRound \/ AppendEntry \/ SendData

LogSpec == LogInit /\ [][LogNext]_logVars

-----------------------------------------------------------------------------

LogTypeOK ==
  /\ entry \in 0..6
  /\ used \in 0..(LogsSize - 1)
  /\ uncut \in Nat
  /\ reply \in Nat

\* Whatever the timestamps and the message ids, no entry and no log is cut:
\* the page always shows all six entries of a finished round.
NothingIsCut == used = uncut

\* The reply of send_data always fits its buffer with its closing brace.
ReplyFits == reply < JsonSize
=============================================================================
