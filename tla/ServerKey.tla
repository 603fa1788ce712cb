------------------------------ MODULE ServerKey ------------------------------
(***************************************************************************)
(* The server URL and the API key, from a form or a browser sign-in        *)
(* through config.toml and the system's secret store to the uploads of     *)
(* the tray (src/src/config.rs, src/src/ui/sign_in.rs,                     *)
(* src/src/ui/settings.rs, src/src/ui/first_run.rs, src/src/api/oauth.rs,  *)
(* src/src/app.rs, src/src/platform/encryption.rs and its macOS twin).     *)
(*                                                                         *)
(* Every window is a process of its own, which reads and writes the file;  *)
(* the tray hears of a change when a thread of it that waited for the      *)
(* window's exit has loaded the file again.  On macOS the key is in the    *)
(* Keychain and the file holds a marker, on Windows a sealed blob is in    *)
(* the file.  Opening the secret store can block for as long as a prompt   *)
(* is up, and fail.  The other settings are left out.                      *)
(***************************************************************************)
EXTENDS Naturals, FiniteSets

CONSTANTS
  Url, Key,           \* servers, and keys for them
  NoUrl, NoKey,       \* ""
  Pasted,             \* keys a user has at hand; sign-ins mint the others
  Malformed,          \* pasted ones that no HTTP header can carry
  Window,             \* processes of windows
  Thread, NoSender,   \* Retry's reload threads
  MaxEvents           \* bound: starts, edits, sign-ins, and failures and crashes

ASSUME KeyAssumption ==
  /\ NoUrl \notin Url /\ NoKey \notin Key
  /\ Malformed \subseteq Pasted /\ Pasted \subseteq Key
  /\ Window \cap Thread = {} /\ NoSender \notin Window \cup Thread
  /\ MaxEvents \in Nat

VARIABLES
  mac,           \* which of the two platforms
  env,           \* IMMICHSYNC_API_KEY
  file,          \* config.toml
  tmp,           \* config.toml.tmp, or NoFile
  keychain,      \* the item's value
  at,            \* what the tray does: off, load, wizard, load2, run
  config,        \* its configuration
  client,        \* its client
  pipeline,      \* the client its pipeline has
  offered,       \* Retry Keychain Access is enabled
  settings_open, \* window_open.settings
  rx,            \* settings_rx: whose channel it is
  inbox,         \* and what is in the channel
  thread,        \* Retry's threads: none, read, open
  read,          \* what such a thread has read
  win,           \* the windows
  events,        \* those of the bound so far
  made,          \* ghost: keys minted
  gone,          \* ghost: minted keys given up, for a known reason
  cleared,       \* ghost: a user emptied the key field
  overlapped,    \* ghost: two windows were open at once
  unread,        \* ghost: a save could not read the file for the key in it
  strayed        \* ghost: the file changed and nobody had to tell the tray

fixed    == <<mac, env>>
diskVars == <<file, tmp, keychain>>
appVars  == <<config, client, pipeline>>
rxVars   == <<rx, inbox>>
trayVars == <<at, appVars, offered, settings_open, rxVars>>
ghosts   == <<made, gone, cleared, overlapped, unread, strayed>>
vars == <<fixed, diskVars, trayVars, thread, read, win, events, ghosts>>

UrlOrNone == Url \cup {NoUrl}
KeyOrNone == Key \cup {NoKey}

\* An api_key as it is in the file.
Stored  == [form : {"none", "plain", "keychain", "blob"}, key : KeyOrNone]
Nothing == [form |-> "none", key |-> NoKey]
Plain(k) == IF k = NoKey THEN Nothing ELSE [form |-> "plain", key |-> k]
Marker   == [form |-> "keychain", key |-> NoKey]
Blob(k)  == [form |-> "blob", key |-> k]

File   == [url : UrlOrNone, key : Stored]
Config == [url : UrlOrNone, key : KeyOrNone, unreadable : Stored]
Empty   == [url |-> NoUrl, key |-> Nothing]
NoFile  == [url |-> NoUrl, key |-> Blob(NoKey)] \* no save writes this
Default == [url |-> NoUrl, key |-> NoKey, unreadable |-> Nothing]
Server  == [url : UrlOrNone, key : KeyOrNone]
NoServer == [url |-> NoUrl, key |-> NoKey]
NoMessage == [state |-> "empty", config |-> Default]

NoFlow == [at |-> "idle", key |-> NoKey]
Flow == [at : {"idle", "browser", "exchange", "create", "result"}, key : KeyOrNone]

\* A window: the load, its form, the steps of a save, and, once it has
\* exited, those of the tray's thread that waited for it.
NoWin == [at |-> "none", wizard |-> FALSE, orphan |-> FALSE, url |-> NoUrl, key |-> NoKey,
          unreadable |-> Nothing, out |-> Empty, closes |-> FALSE, flow |-> NoFlow]
Win == [at : {"none", "load", "form", "seal", "write", "rename", "closing", "exited", "sent"},
        wizard : BOOLEAN, orphan : BOOLEAN, url : UrlOrNone, key : KeyOrNone,
        unreadable : Stored, out : File, closes : BOOLEAN, flow : Flow]

Alive(w) == win[w].at \in {"load", "form", "seal", "write", "rename", "closing"}

TypeOK ==
  /\ mac \in BOOLEAN /\ env \in KeyOrNone
  /\ file \in File /\ tmp \in File /\ keychain \in KeyOrNone
  /\ at \in {"off", "load", "wizard", "load2", "run"}
  /\ config \in Config /\ client \in Server /\ pipeline \in Server
  /\ offered \in BOOLEAN /\ settings_open \in BOOLEAN
  /\ rx \in Window \cup Thread \cup {NoSender}
  /\ inbox \in [state : {"empty", "sent", "closed"}, config : Config]
  /\ thread \in [Thread -> {"none", "read", "open"}]
  /\ read \in [Thread -> File]
  /\ win \in [Window -> Win]
  /\ events \in 0..MaxEvents
  /\ made \subseteq Key /\ gone \subseteq Key
  /\ cleared \in BOOLEAN /\ overlapped \in BOOLEAN /\ unread \in BOOLEAN /\ strayed \in BOOLEAN

\* A first run, a file from before keys were sealed, or one copied from a PC; the
\* file of a user of IMMICHSYNC_API_KEY may have no key.
Init ==
  /\ mac \in BOOLEAN /\ env \in {NoKey} \cup Pasted
  /\ file \in {Empty} \cup
       {[url |-> u, key |-> s] : u \in Url,
                                 s \in {Plain(k) : k \in (Pasted \cup {NoKey}) \ {env}}
                                       \cup (IF mac THEN {Blob(k) : k \in Pasted \ {env}} ELSE {})}
  /\ tmp = NoFile
  /\ keychain = NoKey
  /\ at = "off" /\ config = Default /\ client = NoServer /\ pipeline = NoServer
  /\ offered = FALSE /\ settings_open = FALSE
  /\ rx = NoSender /\ inbox = NoMessage
  /\ thread = [t \in Thread |-> "none"]
  /\ read = [t \in Thread |-> Empty]
  /\ win = [w \in Window |-> NoWin]
  /\ events = 0
  /\ made = {} /\ gone = {}
  /\ cleared = FALSE /\ overlapped = FALSE /\ unread = FALSE /\ strayed = FALSE

Event == events < MaxEvents /\ events' = events + 1

----------------------------------------------------------------------------
(* Config::load: the file is read, then the stored key is opened.          *)

\* Only the Windows account that sealed a blob can open it.
dpapi_unprotect(s) == IF mac THEN {} ELSE {s.key}

decrypt_api_key(s) ==
  IF s.form = "blob" THEN dpapi_unprotect(s) ELSE {keychain} \ {NoKey}

\* A key that is sealed and cannot be opened leaves its marker.
open_stored_key(s) ==
  IF s.form \in {"none", "plain"} THEN {[key |-> s.key, unreadable |-> Nothing]}
  ELSE {[key |-> NoKey, unreadable |-> s]}
         \cup {[key |-> k, unreadable |-> Nothing] : k \in decrypt_api_key(s)}

\* The configurations a load that has read f can end with.
Loaded(f) ==
  {[url |-> f.url, key |-> IF env # NoKey THEN env ELSE o.key, unreadable |-> o.unreadable] :
     o \in open_stored_key(f.key)}

\* A load in one step: who could write between its two is a window the tray
\* knows nothing of.  Retry's, which a window can overtake, takes two.
Load == Loaded(file)

----------------------------------------------------------------------------
(* The tray.                                                               *)

\* The client main() and apply_new_config build, if there is enough for one.
Client(c) ==
  IF c.url # NoUrl /\ c.key \notin Malformed \cup {NoKey}
  THEN [url |-> c.url, key |-> c.key] ELSE NoServer

\* App::new and App::init.
init(c) ==
  /\ at' = "run"
  /\ config' = c /\ client' = Client(c) /\ pipeline' = Client(c)
  /\ offered' = (Client(c) = NoServer /\ c.unreadable # Nothing)

Start ==
  /\ at = "off" /\ Event
  /\ at' = "load"
  /\ strayed' = FALSE
  /\ UNCHANGED <<fixed, diskVars, appVars, offered, settings_open, rxVars, thread, read, win,
                 made, gone, cleared, overlapped, unread>>

Spawn(w, wizard) ==
  /\ win' = [win EXCEPT ![w] = IF wizard THEN [NoWin EXCEPT !.at = "form", !.wizard = TRUE]
                               ELSE [NoWin EXCEPT !.at = "load"]]
  /\ overlapped' = (overlapped \/ \E v \in Window : Alive(v))

\* No URL: the first-run wizard runs as a child process, and main() waits.
MainLoads ==
  /\ \E c \in Load :
       IF at = "load" /\ c.url = NoUrl
       THEN /\ at' = "wizard" /\ config' = c
            /\ \E w \in Window : win[w].at = "none" /\ Spawn(w, TRUE)
            /\ UNCHANGED <<client, pipeline, offered>>
       ELSE init(c) /\ UNCHANGED <<win, overlapped>>
  /\ at \in {"load", "load2"}
  /\ UNCHANGED <<fixed, diskVars, settings_open, rxVars, thread, read, events,
                 made, gone, cleared, unread, strayed>>

\* A load of main() that fails ends the process.
MainFails ==
  /\ at \in {"load", "load2"} /\ Event
  /\ at' = "off"
  /\ UNCHANGED <<fixed, diskVars, appVars, offered, settings_open, rxVars, thread, read,
                 win, ghosts>>

\* apply_new_config.
apply_new_config(c) ==
  LET server_changed == c.url # config.url \/ c.key # config.key
  IN /\ config' = c
     /\ client' = IF server_changed THEN Client(c) ELSE client
     /\ pipeline' = IF server_changed \/ pipeline = NoServer THEN client' ELSE pipeline
     /\ offered' = (c.unreadable # Nothing)

\* The main loop's poll of settings_rx.
Poll ==
  /\ at = "run" /\ rx # NoSender /\ inbox.state # "empty"
  /\ rx' = NoSender /\ inbox' = NoMessage
  /\ IF inbox.state = "sent" THEN apply_new_config(inbox.config)
     ELSE offered' = (config.unreadable # Nothing) /\ UNCHANGED appVars
  /\ UNCHANGED <<fixed, diskVars, at, settings_open, thread, read, win, events, ghosts>>

\* The menu's Settings: a channel for the new window replaces any other.  A
\* window that cannot be spawned closes it, and a reload not yet polled is lost.
OpenSettings ==
  /\ at = "run" /\ ~settings_open
  /\ \E w \in Window :
       /\ win[w].at = "none"
       /\ rx' = w
       /\ \/ /\ Spawn(w, FALSE) /\ settings_open' = TRUE /\ inbox' = NoMessage
             /\ UNCHANGED <<events, strayed>>
          \/ /\ Event /\ inbox' = [NoMessage EXCEPT !.state = "closed"]
             /\ strayed' = (strayed \/ inbox.state = "sent")
             /\ UNCHANGED <<win, overlapped, settings_open>>
  /\ UNCHANGED <<fixed, diskVars, at, appVars, offered, thread, read,
                 made, gone, cleared, unread>>

\* Mutant: whether or not Settings is open.
RetryRegardless ==
  /\ at = "run" /\ offered
  /\ \E t \in Thread :
       /\ thread[t] = "none"
       /\ thread' = [thread EXCEPT ![t] = "read"]
       /\ rx' = t /\ inbox' = NoMessage
  /\ offered' = FALSE
  /\ UNCHANGED <<fixed, diskVars, at, appVars, settings_open, read, win, events, ghosts>>

\* The menu's Retry Keychain Access, greyed out until its reload has landed.
RetryKeychain ==
  /\ at = "run" /\ offered /\ ~settings_open /\ rx = NoSender
  /\ \E t \in Thread :
       /\ thread[t] = "none"
       /\ thread' = [thread EXCEPT ![t] = "read"]
       /\ rx' = t /\ inbox' = NoMessage
  /\ offered' = FALSE
  /\ UNCHANGED <<fixed, diskVars, at, appVars, settings_open, read, win, events, ghosts>>

\* What a sender says is lost once settings_rx is another's.
Sends(s, m) == inbox' = IF rx = s THEN m ELSE inbox
Sent(c) == [state |-> "sent", config |-> c]
Closed  == [NoMessage EXCEPT !.state = "closed"]

RetryReads(t) ==
  /\ thread[t] = "read"
  /\ thread' = [thread EXCEPT ![t] = "open"]
  /\ read' = [read EXCEPT ![t] = file]
  /\ UNCHANGED <<fixed, diskVars, trayVars, win, events, ghosts>>

RetryOpens(t) ==
  /\ thread[t] = "open"
  /\ thread' = [thread EXCEPT ![t] = "none"]
  /\ read' = [read EXCEPT ![t] = Empty]
  /\ \/ \E c \in Loaded(read[t]) : Sends(t, Sent(c)) /\ UNCHANGED events
     \/ Sends(t, Closed) /\ Event
  /\ UNCHANGED <<fixed, diskVars, at, appVars, offered, settings_open, rx, win, ghosts>>

\* shutdown_and_exit: threads end with the process, windows do not.
Quit ==
  /\ at = "run" /\ events < MaxEvents \* it may start again
  /\ at' = "off"
  /\ settings_open' = FALSE /\ rx' = NoSender /\ inbox' = NoMessage /\ offered' = FALSE
  /\ config' = Default /\ client' = NoServer /\ pipeline' = NoServer
  /\ thread' = [t \in Thread |-> "none"]
  /\ read' = [t \in Thread |-> Empty]
  /\ win' = [w \in Window |-> IF Alive(w) THEN [win[w] EXCEPT !.orphan = TRUE] ELSE NoWin]
  /\ UNCHANGED <<fixed, diskVars, events, ghosts>>

----------------------------------------------------------------------------
(* The window's form.                                                      *)

winOnly == UNCHANGED <<fixed, diskVars, trayVars, thread>>

\* main() of a Settings subprocess loads the file, show_settings fills the form.
show_settings(w) ==
  /\ win[w].at = "load"
  /\ \E c \in Load :
       win' = [win EXCEPT ![w].at = "form", ![w].url = c.url, ![w].key = c.key,
                          ![w].unreadable = c.unreadable]
  /\ winOnly /\ UNCHANGED <<read, events, ghosts>>

EditUrl(w) ==
  /\ win[w].at = "form" /\ Event
  /\ \E u \in UrlOrNone \ {win[w].url} : win' = [win EXCEPT ![w].url = u]
  /\ winOnly /\ UNCHANGED <<read, ghosts>>

\* A key is pasted, or the field is emptied: who does so gives up what is
\* stored, or shown.
EditKey(w) ==
  /\ win[w].at = "form" /\ Event
  /\ \E k \in (Pasted \cup {NoKey}) \ {win[w].key} :
       /\ win' = [win EXCEPT ![w].key = k]
       /\ cleared' = (cleared \/ k = NoKey)
  /\ gone' = made
  /\ winOnly /\ UNCHANGED <<read, made, overlapped, unread, strayed>>

----------------------------------------------------------------------------
(* Signing in: SignIn of the window and the thread of sign_in_with.        *)

FlowAt(w, s)   == win[w].flow.at = s
FlowTo(w, f) == win' = [win EXCEPT ![w].flow = f]
Result(k) == [at |-> "result", key |-> k]
flowOnly == winOnly /\ UNCHANGED <<read, events, ghosts>>

\* One sign-in can hold the port.
bind_callback == \A v \in Window : Alive(v) => ~FlowAt(v, "browser")

\* The browser opens, unless the port is taken or the server has no page for it.
start(w) ==
  /\ win[w].at = "form" /\ FlowAt(w, "idle") /\ win[w].url # NoUrl /\ Event
  /\ \/ /\ bind_callback
        /\ FlowTo(w, [NoFlow EXCEPT !.at = "browser"])
     \/ FlowTo(w, Result(NoKey))
  /\ winOnly /\ UNCHANGED <<read, ghosts>>

\* wait_for_callback: the redirect, or an error, Cancel, the timeout.
wait_for_callback(w) ==
  /\ Alive(w) /\ FlowAt(w, "browser")
  /\ FlowTo(w, [NoFlow EXCEPT !.at = "exchange"]) \/ FlowTo(w, Result(NoKey))
  /\ flowOnly

exchange(w) ==
  /\ Alive(w) /\ FlowAt(w, "exchange")
  /\ FlowTo(w, [NoFlow EXCEPT !.at = "create"]) \/ FlowTo(w, Result(NoKey))
  /\ flowOnly

\* The server mints a key, refuses, or mints one and the answer is lost; the
\* session is logged out whatever came of it.
create_api_key(w) ==
  /\ Alive(w) /\ FlowAt(w, "create")
  /\ \/ FlowTo(w, Result(NoKey)) /\ UNCHANGED <<made, gone, events>>
     \/ \E k \in Key \ (Pasted \cup made) :
          /\ made' = made \cup {k}
          /\ \/ FlowTo(w, Result(k)) /\ UNCHANGED <<gone, events>>
             \/ FlowTo(w, Result(NoKey)) /\ gone' = gone \cup {k} /\ Event
  /\ winOnly /\ UNCHANGED <<read, cleared, overlapped, unread, strayed>>

\* Mutant: the key waits in the field for the window's Save.
poll_flow_to_field(w) ==
  /\ win[w].at = "form" /\ FlowAt(w, "result")
  /\ win' = [win EXCEPT ![w].flow = NoFlow,
                        ![w].key = IF win[w].flow.key = NoKey THEN @ ELSE win[w].flow.key]
  /\ flowOnly

\* The key is saved at once, with the form's URL, and takes an earlier one's place.
persist_signed_in_key(w, k) ==
  /\ win' = [win EXCEPT ![w].flow = NoFlow, ![w].key = k, ![w].unreadable = Nothing,
                        ![w].at = "seal", ![w].closes = FALSE]
  /\ gone' = made \ {k}

\* Only a window that shows the sign-in polls.
poll_flow(w) ==
  LET k == win[w].flow.key
  IN /\ win[w].at = "form" /\ FlowAt(w, "result")
     /\ IF k = NoKey THEN FlowTo(w, NoFlow) /\ UNCHANGED gone
        ELSE persist_signed_in_key(w, k)
     /\ winOnly /\ UNCHANGED <<read, events, made, cleared, overlapped, unread, strayed>>

----------------------------------------------------------------------------
(* Config::save.                                                           *)

\* Settings' Save.
save_config(w) ==
  /\ win[w].at = "form" /\ ~win[w].wizard
  /\ win' = [win EXCEPT ![w].at = "seal", ![w].closes = TRUE]
  /\ flowOnly

\* The wizard goes past its server page with both fields filled only.
can_proceed(w) == win[w].url # NoUrl /\ win[w].key # NoKey

\* Start ImmichSync, on the wizard's last page.
show_done(w) ==
  /\ win[w].at = "form" /\ win[w].wizard /\ can_proceed(w)
  /\ win' = [win EXCEPT ![w].at = "seal", ![w].closes = TRUE]
  /\ flowOnly

\* Mutant: the field is written as it is.
key_of_field(c) == Plain(c.key)

\* An empty field over a key that could not be opened keeps the marker.
key_to_persist(c) ==
  IF c.unreadable # Nothing /\ c.key = NoKey THEN c.unreadable ELSE Plain(c.key)

\* A key that is the environment's is not written: what the file has stays.
FromEnv(c) == env # NoKey /\ key_to_persist(c) = Plain(env)
ToStore(c) == IF FromEnv(c) THEN file.key ELSE key_to_persist(c)

\* stored_api_key: a file that cannot be read, or parsed, counts as one without
\* a key, and the save puts that in its place.
stored_api_key_fails(c) ==
  /\ FromEnv(c) /\ Event
  /\ unread' = TRUE /\ gone' = made

saveOnly(w) ==
  /\ strayed' = (strayed \/ win[w].orphan)
  /\ UNCHANGED <<fixed, trayVars, thread, read, made, cleared, overlapped>>

\* seal_api_key: macOS refuses the save if the Keychain does, Windows falls
\* back to the plain text.
seal_api_key(w) ==
  LET c == win[w]
      s == ToStore(c)
      Out(k) == win' = [win EXCEPT ![w].at = "write", ![w].out = [url |-> c.url, key |-> k]]
  IN /\ win[w].at = "seal"
     /\ \/ /\ IF s.form # "plain" THEN Out(s) /\ UNCHANGED keychain
              ELSE IF mac THEN Out(Marker) /\ keychain' = s.key
              ELSE (Out(Blob(s.key)) \/ Out(s)) /\ UNCHANGED keychain
           /\ UNCHANGED <<gone, events, unread>>
        \/ stored_api_key_fails(c) /\ Out(Nothing) /\ UNCHANGED keychain
     /\ saveOnly(w)
     /\ UNCHANGED <<file, tmp>>

write_tmp(w) ==
  /\ win[w].at = "write"
  /\ tmp' = win[w].out
  /\ win' = [win EXCEPT ![w].at = "rename", ![w].out = Empty]
  /\ saveOnly(w)
  /\ UNCHANGED <<file, keychain, gone, events, unread>>

rename_tmp(w) ==
  /\ win[w].at = "rename" /\ tmp # NoFile
  /\ file' = tmp /\ tmp' = NoFile
  /\ win' = [win EXCEPT ![w].at = IF win[w].closes THEN "closing" ELSE "form"]
  /\ saveOnly(w)
  /\ UNCHANGED <<keychain, gone, events, unread>>

\* Any of the three fails, the last also if another process took the file.
\* After a sign-in, and in the wizard, the form stays; Settings closes.
save_fails(w) ==
  /\ win[w].at \in {"seal", "write", "rename"}
  /\ IF win[w].at = "rename" /\ tmp = NoFile THEN UNCHANGED events ELSE Event
  /\ win' = [win EXCEPT ![w].at = IF win[w].closes /\ ~win[w].wizard THEN "closing" ELSE "form"]
  /\ gone' = gone \cup (made \cap {win[w].key})
  /\ saveOnly(w)
  /\ UNCHANGED <<diskVars, unread>>

----------------------------------------------------------------------------
(* The window's end.                                                       *)

exitOnly == UNCHANGED <<fixed, diskVars, settings_open, rxVars, thread, read,
                        made, cleared, overlapped, unread>>

\* The process is over, with its sign-in.  main() goes on from the wizard; the
\* thread that waits for Settings goes on if its tray is there.
Ended(w) ==
  win' = [win EXCEPT ![w] = IF win[w].orphan \/ win[w].wizard THEN NoWin
                            ELSE [NoWin EXCEPT !.at = "exited"]]

Close(w) ==
  /\ win[w].at \in {"form", "closing"}
  /\ Ended(w)
  /\ IF win[w].wizard THEN at' = "load2" ELSE UNCHANGED at
  /\ gone' = gone \cup (made \cap {win[w].flow.key})
  /\ exitOnly /\ UNCHANGED <<appVars, offered, events, strayed>>

\* A wizard that fails is not followed by a load.
Crash(w) ==
  /\ Alive(w) /\ Event
  /\ Ended(w)
  /\ IF win[w].wizard THEN init(config) ELSE UNCHANGED <<at, appVars, offered>>
  /\ strayed' = (strayed \/ win[w].wizard)
  /\ gone' = gone \cup (made \cap {win[w].flow.key, win[w].key})
  /\ exitOnly

\* spawn_window_subprocess, after the exit: load, send, clear the flag.
WaiterLoads(w) ==
  /\ win[w].at = "exited"
  /\ win' = [win EXCEPT ![w].at = "sent"]
  /\ \/ \E c \in Load : Sends(w, Sent(c)) /\ UNCHANGED <<events, strayed>>
     \/ Sends(w, Closed) /\ Event /\ strayed' = TRUE
  /\ UNCHANGED <<fixed, diskVars, at, appVars, offered, settings_open, rx, thread, read,
                 made, gone, cleared, overlapped, unread>>

WaiterEnds(w) ==
  /\ win[w].at = "sent"
  /\ win' = [win EXCEPT ![w] = NoWin]
  /\ settings_open' = FALSE
  /\ UNCHANGED <<fixed, diskVars, at, appVars, offered, rxVars, thread, read,
                 events, ghosts>>

FormStep(w) == EditUrl(w) \/ EditKey(w) \/ save_config(w) \/ show_done(w) \/ Close(w)
FlowStep(w) == \/ start(w) \/ wait_for_callback(w) \/ exchange(w) \/ create_api_key(w)
               \/ poll_flow(w)
SaveStep(w) == seal_api_key(w) \/ write_tmp(w) \/ rename_tmp(w) \/ save_fails(w)
LoadStep(w) == show_settings(w) \/ WaiterLoads(w) \/ WaiterEnds(w)

Next ==
  \/ Start \/ MainLoads \/ MainFails
  \/ Poll \/ OpenSettings \/ RetryKeychain \/ Quit
  \/ \E t \in Thread : RetryReads(t) \/ RetryOpens(t)
  \/ \E w \in Window : FormStep(w) \/ FlowStep(w) \/ SaveStep(w) \/ LoadStep(w) \/ Crash(w)

Spec == Init /\ [][Next]_vars

----------------------------------------------------------------------------
(* Properties.                                                             *)

\* A stored key is not forgotten: no save, of whichever window, takes the key
\* out of the file unless somebody emptied a key field, two windows were open,
\* or, with the key from the environment, the save could not read the file; a
\* key that could not be opened is no reason (#114).
KeyIsNotForgotten ==
  [][ (file.key # Nothing /\ ~cleared' /\ ~overlapped' /\ ~unread')
        => file'.key # Nothing ]_vars

Holds(k) == IF file.key = Marker THEN keychain = k ELSE file.key.key = k
InHand(w, k) == \/ win[w].flow.key = k
                \/ win[w].at \in {"seal", "write", "rename"} /\ win[w].key = k

\* A key the server has minted is stored on this computer, or on its way into
\* the file, unless the sign-in was broken off, the save failed, or the user
\* or another sign-in has put a key in its place (#144), or a save forgot it
\* as above: also if the window is closed without Save.
MintedIsKept ==
  ~overlapped => \A k \in made \ gone : Holds(k) \/ \E w \in Window : InHand(w, k)

\* Once no window, no thread that waited for one and no reload is left, the
\* tray's configuration is the file's, and its uploads use its server and key
\* (#143) - unless the file changed behind its back: by a window an earlier
\* tray has left, a failed wizard, or a file that could not be read.
TrayIsCurrent ==
  (at = "run" /\ rx = NoSender /\ ~settings_open /\ ~strayed) =>
    /\ config \in Loaded(file)
    /\ pipeline = Client(config)

=============================================================================
