---------------------------- MODULE Provisioning ----------------------------
(***************************************************************************)
(* The WiFi credentials of main.c: config_handler receives the form in     *)
(* pieces, save_config_to_file writes a file of the SPIFFS partition, and  *)
(* read_password reads a file of it when the device starts.  The power can *)
(* go at any step; only the files survive.                                 *)
(***************************************************************************)
EXTENDS FormBody

CONSTANTS Forms,     \* what users type: records of red and contrasena
          Junk,      \* what the stack can hold where buf is allocated, and behind
          Flashed    \* the content of data/config2.json

\* The global arrays that read_password fills are zero until then.
Unset == [Red |-> <<>>, Pass |-> <<>>]

ASSUME FormsAssumption == Forms \subseteq [red : Seq(Typed), contrasena : Seq(Typed)]

VARIABLES
  files,      \* what cJSON_Parse finds in each configuration file: at most
              \* one record, none if the file is absent, empty or cut
  global,     \* global_ssid and global_password
  pc,         \* where the device is: starting, or its HTTP server task
  form,       \* history: what the user typed into the form being handled
  remaining,  \* the part of the body not yet received
  buf, ssid, password,   \* the locals of config_handler
  exact       \* history: the body came in one piece into a cleared buffer

handlerVars == <<form, remaining, buf, ssid, password, exact>>
credsVars == <<files, global, pc, handlerVars>>

FileNames == {"config.json", "config2.json"}

NoForm == [red |-> <<>>, contrasena |-> <<>>]

\* isprint of a byte.
IsPrint(c) == c # "DEL"

\* The image flashed with the program holds config2.json and no config.json.
CredsInit ==
  /\ files = [f \in FileNames |-> IF f = "config2.json" THEN {Flashed} ELSE {}]
  /\ global = Unset
  /\ pc = "read_password"
  /\ form = NoForm
  /\ remaining = <<>>
  /\ buf = <<>>
  /\ ssid = <<>>
  /\ password = <<>>
  /\ exact = FALSE

\* The locals of config_handler go with it.
HandlerReturns ==
  /\ form' = NoForm
  /\ remaining' = <<>>
  /\ buf' = <<>>
  /\ ssid' = <<>>
  /\ password' = <<>>
  /\ exact' = FALSE

-----------------------------------------------------------------------------

\* The file that read_password opens.
ReadFrom == "config2.json"

\* The file that save_config_to_file opens.
SavedTo == "config.json"

\* The file may be absent or cut, or there may be no memory for its text or its
\* items; app_main ignores the failure, which leaves the globals as they are.
ReadPassword ==
  /\ pc = "read_password"
  /\ global' \in {Unset} \cup files[ReadFrom]
  /\ pc' = "idle"
  /\ UNCHANGED <<files, handlerVars>>

\* RAM is lost and the device starts again.
Restart ==
  /\ pc' = "read_password"
  /\ global' = Unset
  /\ HandlerReturns
  /\ UNCHANGED files

PowerLoss == pc # "read_password" /\ Restart

\* POST /guardar.  Neither buf nor the stack behind it is initialised.
Guardar ==
  /\ pc = "idle"
  /\ form' \in Forms
  /\ remaining' = Body(form')
  /\ \E c, d \in Junk :
       buf' = [i \in 1..StackSize |-> IF i <= BufSize THEN c ELSE d]
  /\ exact' = FALSE
  /\ pc' = "recv"
  /\ UNCHANGED <<files, global, ssid, password>>

\* Mutant: remaining is not reduced.
NothingLess(n) == remaining

StillRemaining(n) == SubSeq(remaining, n + 1, Len(remaining))

\* What httpd_req_recv can deliver: up to a full buffer of the body, cut
\* wherever the network pleases.
Deliveries ==
  {[buf  |-> Received(buf, SubSeq(remaining, 1, n)),
    rest |-> StillRemaining(n)] :
      n \in {k \in 1..BufSize : k <= Len(remaining)}}

Recv(delivery) ==
  /\ pc = "recv"
  /\ LET fields == Parsed(delivery.buf, ssid, password)
     IN  /\ fields.expect = <<>>
         /\ ssid' = fields.ssid
         /\ password' = fields.password
  /\ buf' = AfterStrtok(delivery.buf)
  /\ remaining' = delivery.rest
  /\ exact' = (delivery.buf = Received([i \in 1..StackSize |-> "NUL"], Body(form)))
  /\ pc' = IF remaining' = <<>> THEN "fopen" ELSE "recv"
  /\ UNCHANGED <<files, global, form>>

\* strncpy from NULL: the panic handler restarts the device.
RecvPanics(delivery) ==
  /\ pc = "recv"
  /\ Parsed(delivery.buf, ssid, password).expect # <<>>
  /\ Restart

\* A timeout or a closed socket ends the handler with nothing saved.
RecvFails ==
  /\ pc = "recv"
  /\ pc' = "idle"
  /\ HandlerReturns
  /\ UNCHANGED <<files, global>>

\* fopen for writing truncates the file ...
SaveOpens ==
  /\ pc = "fopen"
  /\ files' = [files EXCEPT ![SavedTo] = {}]
  /\ pc' = "fprintf"
  /\ UNCHANGED <<global, handlerVars>>

\* ... unless there is no descriptor for it, or was no memory for the text to
\* write, which config_handler ignores.
SaveFails ==
  /\ pc = "fopen"
  /\ pc' = "idle"
  /\ HandlerReturns
  /\ UNCHANGED <<files, global>>

\* Only the password is cleaned.
SaveWrites ==
  /\ pc = "fprintf"
  /\ files' = [files EXCEPT ![SavedTo] =
                 {[Red |-> ssid, Pass |-> SelectSeq(password, IsPrint)]}]
  /\ pc' = "idle"
  /\ HandlerReturns
  /\ UNCHANGED global

\* The results of fprintf, fclose and cJSON_AddStringToObject are ignored: the
\* partition may be full, or one of the items may be missing from what is written.
SaveRunsOut ==
  /\ pc = "fprintf"
  /\ pc' = "idle"
  /\ HandlerReturns
  /\ UNCHANGED <<files, global>>

HttpTask ==
  \/ RecvFails
  \/ \E delivery \in Deliveries : Recv(delivery) \/ RecvPanics(delivery)
  \/ SaveOpens
  \/ SaveFails
  \/ SaveWrites
  \/ SaveRunsOut

CredsNext == ReadPassword \/ Guardar \/ HttpTask \/ PowerLoss

CredsSpec == CredsInit /\ [][CredsNext]_credsVars

\* app_main and the HTTP server task are scheduled; httpd_req_recv times out.
CredsFairSpec == CredsSpec /\ WF_credsVars(ReadPassword) /\ WF_credsVars(HttpTask)

-----------------------------------------------------------------------------
(* Properties.                                                             *)

\* Type invariant.
CredsTypeOK ==
  /\ DOMAIN files = FileNames
  /\ pc \in {"read_password", "idle", "recv", "fopen", "fprintf"}
  /\ form \in Forms \cup {NoForm}
  /\ Len(ssid) < SsidSize
  /\ Len(password) < PasswordSize
  /\ Len(buf) \in {0, StackSize}
  /\ pc = "recv" <=> remaining # <<>>

Fits(red, contrasena) ==
  Len(red) \in 1..(SsidSize - 1) /\ Len(contrasena) \in 1..(PasswordSize - 1)

\* A form that arrives in one piece into a cleared buffer, with both fields
\* filled in and short enough as they are posted, reaches save_config_to_file as
\* it was posted: what was escaped stays escaped.
FormIsKeptAsPosted ==
  pc = "fopen" /\ exact
    /\ Fits(UrlEncoded(form.red), UrlEncoded(form.contrasena))
    => ssid = UrlEncoded(form.red) /\ password = UrlEncoded(form.contrasena)

\* If none of its characters has to be escaped it is saved as it was typed.
Plain == Chars \ DOMAIN Escape

PlainFormIsKept ==
  pc = "fopen" /\ exact
    /\ form.red \in Seq(Plain) /\ form.contrasena \in Seq(Plain)
    /\ Fits(form.red, form.contrasena)
    => ssid = form.red /\ password = form.contrasena

\* Every request is handled to its end, whatever the network does.
RequestsEnd ==
  (pc = "recv") ~> (pc = "idle")

\* "Call save_config_to_file with the values received".
SavedIsReceived ==
  pc = "fopen" => ssid = form.red /\ password = form.contrasena

\* The same of a form in which any character was typed: config_handler never
\* decodes what it receives, so this does not hold.
AnyFormIsKept ==
  pc = "fopen" /\ exact
    /\ Fits(UrlEncoded(form.red), UrlEncoded(form.contrasena))
    => ssid = form.red /\ password = form.contrasena

\* The page of the access point configures the network: a device that has saved
\* what it received and starts with credentials starts with those.
SavedIsUsed ==
  [][pc = "read_password" /\ files["config.json"] # {} /\ global' # Unset
       => global' \in files["config.json"]]_credsVars

\* A save that fails, or is cut short, leaves what was saved before: fopen
\* truncates the file first, so this does not hold.
SavedIsKept ==
  [][files["config.json"] # {} => files'["config.json"] # {}]_credsVars
=============================================================================
