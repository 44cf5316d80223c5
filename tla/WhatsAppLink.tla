---------------------------- MODULE WhatsAppLink ----------------------------
(***************************************************************************)
(* BaileysProvider's link to WhatsApp, inside a process that starts,       *)
(* crashes, is started again and is stopped by a signal (index.js).        *)
(*                                                                         *)
(* Every pairing of the device by QR code makes new credentials: they are  *)
(* the numbers 1, 2, ...; 0 stands for none.  WhatsApp accepts at most     *)
(* one, "linked"; the customer of a removed device must pair it again.     *)
(* Baileys is taken from how the provider uses it: a socket shows a QR     *)
(* code when it has no credentials, opens when WhatsApp accepts its own,   *)
(* and says once that it closed, with the reason "logged out" or another.  *)
(*                                                                         *)
(* A definition named X_Y is X with a fault, for the runs that show that a *)
(* property notices it; no specification uses it.                          *)
(***************************************************************************)
EXTENDS Naturals, Sequences, SequencesExt

CONSTANTS
  Pairings,  \* bound on the QR codes scanned
  MaxDrops   \* bound on the times the network drops a socket

ASSUME LinkAssumption == Pairings \in Nat /\ MaxDrops \in Nat

Creds == 0..Pairings

VARIABLES
  process,  \* "starting" until main's connect() returns; "closing" on a signal,
            \* "leaving" once disconnect logged the socket out
  status,   \* getStatus()
  sockets,  \* the sockets that have not closed; #socket is the last one made
  calls,    \* connect and resetAuthAndReconnect under way
  gaveUp,   \* a connect failed while running: it is logged, nothing else
  disk,     \* the credentials in authDir
  saving,   \* the credentials a saveCreds under way writes
  linked,   \* the credentials WhatsApp accepts
  paired,   \* how many QR codes were scanned
  drops     \* how often the network dropped a socket

memory == <<status, sockets, calls, gaveUp, saving>>
outside == <<linked, paired, drops>>
vars == <<process, memory, disk, outside>>

Running == process \in {"starting", "up", "closing", "leaving"}
Accepted(creds) == creds # 0 /\ creds = linked

TypeOK ==
  /\ process \in {"starting", "up", "closing", "leaving", "down"}
  /\ status \in {"DISCONNECTED", "CONNECTING", "CONNECTED"}
  /\ sockets \in Seq([at: {"new", "qr", "pairing", "open"}, creds: Creds])
  /\ calls \in Seq([at: {"rm", "auth", "version"}, creds: Creds])
  /\ gaveUp \in BOOLEAN
  /\ {disk, saving, linked, paired} \subseteq Creds
  /\ drops \in 0..MaxDrops

Forgotten ==
  /\ status' = "DISCONNECTED"
  /\ sockets' = <<>> /\ calls' = <<>> /\ gaveUp' = FALSE /\ saving' = 0

Init ==
  /\ process = "down" /\ status = "DISCONNECTED"
  /\ sockets = <<>> /\ calls = <<>> /\ gaveUp = FALSE
  /\ disk = 0 /\ saving = 0 /\ linked = 0 /\ paired = 0 /\ drops = 0

-----------------------------------------------------------------------------
(* connect and resetAuthAndReconnect.                                      *)

Connecting == [at |-> "auth", creds |-> 0]
Resetting == [at |-> "rm", creds |-> 0]

\* main; whoever runs the gateway starts it again after it stopped.
Start ==
  /\ process = "down"
  /\ process' = "starting"
  /\ status' = "CONNECTING"
  /\ calls' = <<Connecting>>
  /\ UNCHANGED <<sockets, gaveUp, saving, disk, outside>>

\* useMultiFileAuthState; Baileys reads a file only when no write of it is
\* under way.
LoadAuth(k) ==
  /\ calls[k].at = "auth"
  /\ saving = 0
  /\ calls' = [calls EXCEPT ![k] = [at |-> "version", creds |-> disk]]
  /\ UNCHANGED <<process, status, sockets, gaveUp, disk, saving, outside>>

\* fetchLatestBaileysVersion, makeWASocket.
MakeSocket(k) ==
  /\ calls[k].at = "version"
  /\ sockets' = Append(sockets, [at |-> "new", creds |-> calls[k].creds])
  /\ calls' = RemoveAt(calls, k)
  /\ process' = IF process = "starting" THEN "up" ELSE process
  /\ UNCHANGED <<status, gaveUp, disk, saving, outside>>

\* connect rejects: fatal to main, afterwards only logged.
ConnectFails(k) ==
  /\ calls[k].at \in {"auth", "version"}
  /\ \/ /\ process = "starting"
        /\ process' = "down"
        /\ Forgotten
     \/ /\ process # "starting"
        /\ calls' = RemoveAt(calls, k)
        /\ gaveUp' = TRUE
        /\ UNCHANGED <<process, status, sockets, saving>>
  /\ UNCHANGED <<disk, outside>>

\* After a reset left these credentials on disk.
Reconnect(k, left) ==
  /\ calls[k].at = "rm"
  /\ disk' = left
  /\ calls' = [calls EXCEPT ![k] = Connecting]
  /\ status' = "CONNECTING"
  /\ UNCHANGED <<process, sockets, gaveUp, saving, outside>>

ResetDone_KeepsCreds(k, removed) == removed \in BOOLEAN /\ Reconnect(k, disk)

\* The credentials are deleted, or that failed and was logged.
ResetDone(k, removed) == Reconnect(k, IF removed THEN 0 ELSE disk)

-----------------------------------------------------------------------------
(* What Baileys reports.                                                   *)

\* Outside the code: WhatsApp asks for a pairing.
ShowQR(s) ==
  /\ sockets[s].at = "new" /\ sockets[s].creds = 0
  /\ sockets' = [sockets EXCEPT ![s].at = "qr"]
  /\ UNCHANGED <<process, status, calls, gaveUp, disk, saving, outside>>

\* Outside the code: the QR code is scanned.  The new credentials are saved,
\* and WhatsApp will close the socket and ask for a restart.
Scan(s) ==
  /\ sockets[s].at = "qr"
  /\ paired < Pairings
  /\ paired' = paired + 1
  /\ linked' = paired'
  /\ saving' = paired'
  /\ sockets' = [sockets EXCEPT ![s] = [at |-> "pairing", creds |-> paired']]
  /\ UNCHANGED <<process, status, calls, gaveUp, disk, drops>>

\* connection.update, "open"
Opened(s) ==
  /\ sockets[s].at = "new" /\ Accepted(sockets[s].creds)
  /\ sockets' = [sockets EXCEPT ![s].at = "open"]
  /\ status' = "CONNECTED"
  /\ UNCHANGED <<process, calls, gaveUp, disk, saving, outside>>

\* creds.update; of several writes of a file the next waits for the last.
SaveCreds(s) ==
  /\ sockets[s].at = "open"
  /\ saving = 0
  /\ saving' = sockets[s].creds
  /\ UNCHANGED <<process, status, sockets, calls, gaveUp, disk, outside>>

Saved ==
  /\ saving # 0
  /\ disk' = saving
  /\ saving' = 0
  /\ UNCHANGED <<process, status, sockets, calls, gaveUp, outside>>

Ended(s, now, begun) ==
  sockets' = RemoveAt(sockets, s) /\ status' = now /\ calls' = calls \o begun

OnClose_NoElse(s, loggedOut) ==
  Ended(s, "CONNECTING", IF loggedOut THEN <<Resetting, Connecting>> ELSE <<Connecting>>)
OnClose_AlwaysResets(s, loggedOut) ==
  loggedOut \in BOOLEAN /\ Ended(s, "DISCONNECTED", <<Resetting>>)
OnClose_StatusLate(s, loggedOut) ==
  IF loggedOut THEN Ended(s, status, <<Resetting>>)
               ELSE Ended(s, "CONNECTING", <<Connecting>>)
OnClose_OtherStatus(s, loggedOut) ==
  IF loggedOut THEN Ended(s, "CLOSED", <<Resetting>>)
               ELSE Ended(s, "CONNECTING", <<Connecting>>)

\* connection.update, "close": reset and then connect after a logout, else
\* connect at once, which begins with another status.
OnClose(s, loggedOut) ==
  IF loggedOut THEN Ended(s, "DISCONNECTED", <<Resetting>>)
               ELSE Ended(s, "CONNECTING", <<Connecting>>)

\* Outside the code: the network fails, or a QR code is not scanned in time.
Drop(s) ==
  /\ sockets[s].at # "pairing" /\ drops < MaxDrops
  /\ drops' = drops + 1
  /\ OnClose(s, FALSE)
  /\ UNCHANGED <<process, gaveUp, disk, saving, linked, paired>>

\* Outside the code: the restart after a pairing.
Restart(s) ==
  /\ sockets[s].at = "pairing"
  /\ OnClose(s, FALSE)
  /\ UNCHANGED <<process, gaveUp, disk, saving, outside>>

\* Outside the code: WhatsApp refuses credentials it does not accept (401).
Refuse(s) ==
  /\ sockets[s].at \in {"new", "open"}
  /\ sockets[s].creds # 0 /\ ~Accepted(sockets[s].creds)
  /\ OnClose(s, TRUE)
  /\ UNCHANGED <<process, gaveUp, disk, saving, outside>>

\* Outside the code: the device is removed on the reseller's telephone.
RemoveDevice ==
  /\ linked # 0
  /\ linked' = 0
  /\ UNCHANGED <<process, memory, disk, paired, drops>>

-----------------------------------------------------------------------------
(* The process stops.                                                      *)

\* Outside the code: a crash at any point; a saveCreds that fails is one, nobody catches it.
Crash ==
  /\ Running
  /\ process' = "down"
  /\ Forgotten
  /\ UNCHANGED <<disk, outside>>

\* SIGINT or SIGTERM: shutdown closes the two stores first.
Shutdown ==
  /\ process = "up"
  /\ process' = "closing"
  /\ UNCHANGED <<memory, disk, outside>>

\* disconnect logs the socket out.  It fails and that is ignored, or the socket
\* closes as logged out, which starts a reset; the logout may not have reached
\* WhatsApp then.
LogOut ==
  /\ process = "closing"
  /\ process' = "leaving"
  /\ \/ UNCHANGED <<memory, linked>>
     \/ /\ sockets # <<>>
        /\ OnClose(Len(sockets), TRUE)
        /\ linked' \in {linked} \cup (IF Accepted(Last(sockets).creds) THEN {0} ELSE {})
        /\ UNCHANGED <<gaveUp, saving>>
  /\ UNCHANGED <<disk, paired, drops>>

\* The rest of disconnect and process.exit: the reset that the logout started
\* may have come to its end before, or not.
Exit ==
  /\ process = "leaving"
  /\ process' = "down"
  /\ Forgotten
  /\ UNCHANGED <<disk, outside>>

Next ==
  \/ Start \/ Saved \/ RemoveDevice \/ Crash \/ Shutdown \/ LogOut \/ Exit
  \/ \E k \in DOMAIN calls :
       \/ LoadAuth(k) \/ MakeSocket(k) \/ ConnectFails(k)
       \/ \E removed \in BOOLEAN : ResetDone(k, removed)
  \/ \E s \in DOMAIN sockets :
       \/ ShowQR(s) \/ Scan(s) \/ Opened(s) \/ SaveCreds(s)
       \/ Drop(s) \/ Restart(s) \/ Refuse(s)

\* What a running process and a reachable WhatsApp do in the end; that a
\* deletion succeeds in the end is what a repeated reset needs.
Fairness ==
  /\ WF_vars(Saved)
  /\ WF_vars(\E k \in DOMAIN calls : LoadAuth(k) \/ MakeSocket(k))
  /\ SF_vars(\E k \in DOMAIN calls : ResetDone(k, TRUE))
  /\ WF_vars(\E k \in DOMAIN calls : ResetDone(k, FALSE))
  /\ WF_vars(\E s \in DOMAIN sockets : ShowQR(s) \/ Opened(s) \/ Restart(s) \/ Refuse(s))

Spec == Init /\ [][Next]_vars /\ Fairness

-----------------------------------------------------------------------------
(* Properties.                                                             *)

\* A running process holds exactly one link: an open socket, one connect or
\* reset under way, or a connect that failed and is never repeated.  So no
\* close event starts two sockets, and none is lost.
OneLink ==
  Running => Len(sockets) + Len(calls) + (IF gaveUp THEN 1 ELSE 0) = 1

\* sendText goes by the status: it says CONNECTED exactly while a socket is
\* open, and DISCONNECTED only while old credentials are being deleted.
StatusTrue ==
  Running =>
    /\ status = "CONNECTED" <=> \E s \in DOMAIN sockets : sockets[s].at = "open"
    /\ status = "DISCONNECTED" => \E k \in DOMAIN calls : calls[k].at = "rm"

\* Credentials that WhatsApp accepts stay on disk whatever fails: only the
\* reset that a shutdown's own logout starts deletes them.
CredsKept ==
  [][Accepted(disk) /\ linked' = linked /\ process # "leaving" => disk' = disk]_vars

QRShown == \E s \in DOMAIN sockets : sockets[s].at = "qr"

\* A link that is down comes back, or shows a QR code - also after the device
\* was removed, although its old credentials are on disk - unless a connect
\* fails or the process stops.
LinkReturns ==
  (process = "up" /\ status # "CONNECTED") ~>
    (status = "CONNECTED" \/ QRShown \/ gaveUp \/ process # "up")
=============================================================================
