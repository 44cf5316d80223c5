------------------------- MODULE WhatsAppLink_proofs -------------------------
(***************************************************************************)
(* Proofs about WhatsAppLink, for any number of pairings, drops, crashes   *)
(* and restarts: the types; that the gateway holds exactly one link; that  *)
(* its status is true; and that credentials WhatsApp accepts stay on disk. *)
(*                                                                         *)
(* The link has a few shapes: the process is down, or it holds one socket, *)
(* or one call of connect or resetAuthAndReconnect, or has given up.  One  *)
(* invariant, Good, names them and says of each what the next step relies  *)
(* on: which credentials a socket has, and which ones a reset may delete.  *)
(***************************************************************************)
EXTENDS WhatsAppLink, SequenceTheorems, TLAPS

Socket == [at: {"new", "qr", "pairing", "open"}, creds: Creds]
Call == [at: {"rm", "auth", "version"}, creds: Creds]

Down ==
  /\ process = "down" /\ status = "DISCONNECTED"
  /\ sockets = <<>> /\ calls = <<>> /\ ~gaveUp /\ saving = 0

\* A socket's credentials are the ones on disk until it opens, and nothing is
\* written before; an open socket's are those of the last pairing.
AtSocket(x) ==
  /\ process \in {"up", "closing", "leaving"} /\ sockets = <<x>> /\ calls = <<>> /\ ~gaveUp
  /\ status = IF x.at = "open" THEN "CONNECTED" ELSE "CONNECTING"
  /\ x.at = "new" => x.creds = disk /\ saving = 0
  /\ x.at = "open" => x.creds = paired

\* Unless the process is leaving, a reset is only begun when WhatsApp accepts
\* neither the credentials on disk nor the ones that are being written there.
AtCall(c) ==
  /\ Running /\ sockets = <<>> /\ calls = <<c>> /\ ~gaveUp
  /\ status = IF c.at = "rm" THEN "DISCONNECTED" ELSE "CONNECTING"
  /\ c.at = "version" => c.creds = disk /\ saving = 0
  /\ c.at = "rm" => /\ process # "starting"
                    /\ \/ process = "leaving"
                       \/ ~Accepted(disk) /\ ~Accepted(saving)

Lost ==
  /\ process \in {"up", "closing", "leaving"} /\ status = "CONNECTING"
  /\ sockets = <<>> /\ calls = <<>> /\ gaveUp = TRUE

\* WhatsApp accepts the credentials of the last pairing or none, and no older
\* ones are ever written.
Around ==
  /\ {disk, saving, linked, paired} \subseteq Creds /\ drops \in 0..MaxDrops
  /\ gaveUp \in BOOLEAN
  /\ linked \in {0, paired} /\ saving \in {0, paired}

Shape ==
  \/ Down \/ Lost
  \/ \E x \in Socket : AtSocket(x)
  \/ \E c \in Call : AtCall(c)

Good == Around /\ Shape

-----------------------------------------------------------------------------
(* Lists of one.                                                           *)

LEMMA OneFacts ==
  ASSUME NEW x
  PROVE  /\ DOMAIN <<x>> = {1} /\ <<x>>[1] = x /\ Len(<<x>>) = 1 /\ <<x>> # <<>>
         /\ RemoveAt(<<x>>, 1) = <<>> /\ Last(<<x>>) = x
         /\ \A y : [<<x>> EXCEPT ![1] = y] = <<y>>
         /\ \A y : Append(<<>>, y) = <<y>> /\ <<>> \o <<y>> = <<y>>
         /\ DOMAIN <<>> = {} /\ Len(<<>>) = 0
BY DEF RemoveAt, Last

LEMMA GoodTypes == Good => TypeOK
<1> SUFFICES ASSUME Good PROVE TypeOK
  OBVIOUS
<1>1. sockets \in Seq(Socket) /\ calls \in Seq(Call)
  <2>1. <<>> \in Seq(Socket) /\ <<>> \in Seq(Call)
    BY EmptySeq
  <2>2. \A x \in Socket : <<x>> \in Seq(Socket)
    OBVIOUS
  <2>3. \A c \in Call : <<c>> \in Seq(Call)
    OBVIOUS
  <2> QED
    BY <2>1, <2>2, <2>3 DEF Good, Shape, Down, Lost, AtSocket, AtCall
<1>2. process \in {"starting", "up", "closing", "leaving", "down"}
  BY DEF Good, Shape, Down, Lost, AtSocket, AtCall, Running
<1>3. status \in {"DISCONNECTED", "CONNECTING", "CONNECTED"}
  BY DEF Good, Shape, Down, Lost, AtSocket, AtCall
<1> QED
  BY <1>1, <1>2, <1>3 DEF Good, Around, TypeOK, Socket, Call

LEMMA GoodLink == Good => OneLink /\ StatusTrue
<1> SUFFICES ASSUME Good PROVE OneLink /\ StatusTrue
  OBVIOUS
<1>1. CASE Down
  BY <1>1 DEF Down, OneLink, StatusTrue, Running
<1>2. CASE Lost
  BY <1>2, OneFacts DEF Lost, OneLink, StatusTrue
<1>3. ASSUME NEW x \in Socket, AtSocket(x) PROVE OneLink /\ StatusTrue
  BY <1>3, OneFacts DEF AtSocket, OneLink, StatusTrue
<1>4. ASSUME NEW c \in Call, AtCall(c) PROVE OneLink /\ StatusTrue
  BY <1>4, OneFacts DEF AtCall, OneLink, StatusTrue
<1> QED
  BY <1>1, <1>2, <1>3, <1>4 DEF Good, Shape

-----------------------------------------------------------------------------
(* Steps of the one call.                                                  *)

\* A call of a good state is the only one.
LEMMA OneCall ==
  ASSUME Good, NEW k \in DOMAIN calls
  PROVE  k = 1 /\ calls[1] \in Call /\ AtCall(calls[1]) /\ calls = <<calls[1]>>
<1>1. calls # <<>>
  BY OneFacts
<1>2. PICK c \in Call : AtCall(c)
  BY <1>1 DEF Good, Shape, Down, Lost, AtSocket
<1>3. calls = <<c>>
  BY <1>2 DEF AtCall
<1> QED
  BY <1>2, <1>3, OneFacts

LEMMA LoadAuthGood ==
  ASSUME Good, NEW k \in DOMAIN calls, LoadAuth(k)
  PROVE  Good'
<1>1. PICK c \in Call : AtCall(c) /\ c.at = "auth" /\ k = 1 /\ calls = <<c>>
  BY OneCall DEF LoadAuth
<1>2. PICK d : d = [at |-> "version", creds |-> disk]
  OBVIOUS
<1>3. d \in Call /\ d.at = "version" /\ d.creds = disk
  BY <1>2 DEF Good, Around, Call
<1>4. /\ saving = 0 /\ calls' = <<d>>
      /\ UNCHANGED <<process, status, sockets, gaveUp, disk, saving, outside>>
  BY <1>1, <1>2, OneFacts DEF LoadAuth
<1>5. AtCall(d)'
  BY <1>1, <1>3, <1>4 DEF AtCall, Running
<1>6. Around'
  BY <1>4 DEF Good, Around, outside
<1> QED
  BY <1>3, <1>5, <1>6 DEF Good, Shape

LEMMA MakeSocketGood ==
  ASSUME Good, NEW k \in DOMAIN calls, MakeSocket(k)
  PROVE  Good'
<1>1. PICK c \in Call : AtCall(c) /\ c.at = "version" /\ k = 1 /\ calls = <<c>>
  BY OneCall DEF MakeSocket
<1>2. PICK x : x = [at |-> "new", creds |-> c.creds]
  OBVIOUS
<1>3. x \in Socket /\ x.at = "new" /\ x.creds = c.creds
  BY <1>2 DEF Call, Socket
<1>4. /\ sockets' = <<x>> /\ calls' = <<>>
      /\ process' = IF process = "starting" THEN "up" ELSE process
      /\ UNCHANGED <<status, gaveUp, disk, saving, outside>>
  BY <1>1, <1>2, OneFacts DEF MakeSocket, AtCall
<1>5. AtSocket(x)'
  BY <1>1, <1>3, <1>4 DEF AtCall, AtSocket, Running
<1>6. Around'
  BY <1>4 DEF Good, Around, outside
<1> QED
  BY <1>3, <1>5, <1>6 DEF Good, Shape

LEMMA ForgottenGood ==
  ASSUME Good, process' = "down", Forgotten, disk' \in Creds,
         linked' \in {0, linked}, UNCHANGED <<paired, drops>>
  PROVE  Good'
<1>1. Down'
  BY DEF Down, Forgotten
<1>2. 0 \in Creds
  BY LinkAssumption DEF Creds
<1>3. Around'
  BY <1>2 DEF Good, Around, Forgotten
<1> QED
  BY <1>1, <1>3 DEF Good, Shape

LEMMA ConnectFailsGood ==
  ASSUME Good, NEW k \in DOMAIN calls, ConnectFails(k)
  PROVE  Good'
<1>1. PICK c \in Call : AtCall(c) /\ c.at # "rm" /\ k = 1 /\ calls = <<c>>
  BY OneCall DEF ConnectFails
<1>2. UNCHANGED <<disk, linked, paired, drops>>
  BY DEF ConnectFails, outside
<1>3. CASE process = "starting"
  <2>1. process' = "down" /\ Forgotten
    BY <1>3 DEF ConnectFails
  <2> QED
    BY <1>2, <2>1, ForgottenGood DEF Good, Around
<1>4. CASE process # "starting"
  <2>1. calls' = <<>> /\ gaveUp' = TRUE /\ UNCHANGED <<process, status, sockets, saving>>
    BY <1>1, <1>4, OneFacts DEF ConnectFails
  <2>2. Lost'
    BY <1>1, <1>4, <2>1 DEF AtCall, Lost, Running
  <2>3. Around'
    BY <1>2, <2>1 DEF Good, Around
  <2> QED
    BY <2>2, <2>3 DEF Good, Shape
<1> QED
  BY <1>3, <1>4

LEMMA ResetDoneGood ==
  ASSUME Good, NEW k \in DOMAIN calls, NEW removed \in BOOLEAN, ResetDone(k, removed)
  PROVE  Good'
<1>1. PICK c \in Call : AtCall(c) /\ c.at = "rm" /\ k = 1 /\ calls = <<c>>
  BY OneCall DEF ResetDone, Reconnect
<1>2. 0 \in Creds
  BY LinkAssumption DEF Creds
<1>3. Connecting \in Call /\ Connecting.at = "auth"
  BY <1>2 DEF Connecting, Call
<1>4. /\ disk' \in {0, disk} /\ calls' = <<Connecting>> /\ status' = "CONNECTING"
      /\ UNCHANGED <<process, sockets, gaveUp, saving, outside>>
  BY <1>1, OneFacts DEF ResetDone, Reconnect
<1>5. AtCall(Connecting)'
  BY <1>1, <1>3, <1>4 DEF AtCall, Running
<1>6. Around'
  BY <1>2, <1>4 DEF Good, Around, outside
<1> QED
  BY <1>3, <1>5, <1>6 DEF Good, Shape

-----------------------------------------------------------------------------
(* Steps of the one socket.                                                *)

LEMMA OneSocket ==
  ASSUME Good, NEW s \in DOMAIN sockets
  PROVE  /\ s = 1 /\ sockets[1] \in Socket /\ AtSocket(sockets[1])
         /\ sockets = <<sockets[1]>>
<1>1. sockets # <<>>
  BY OneFacts
<1>2. PICK x \in Socket : AtSocket(x)
  BY <1>1 DEF Good, Shape, Down, Lost, AtCall
<1>3. sockets = <<x>>
  BY <1>2 DEF AtSocket
<1> QED
  BY <1>2, <1>3, OneFacts

LEMMA ShowQRGood ==
  ASSUME Good, NEW s \in DOMAIN sockets, ShowQR(s)
  PROVE  Good'
<1>1. PICK x \in Socket : AtSocket(x) /\ x.at = "new" /\ s = 1 /\ sockets = <<x>>
  BY OneSocket DEF ShowQR
<1>2. PICK y : y = [x EXCEPT !.at = "qr"]
  OBVIOUS
<1>3. y \in Socket /\ y.at = "qr"
  BY <1>2 DEF Socket
<1>4. /\ sockets' = <<y>>
      /\ UNCHANGED <<process, status, calls, gaveUp, disk, saving, outside>>
  BY <1>1, <1>2, OneFacts DEF ShowQR
<1>5. AtSocket(y)'
  BY <1>1, <1>3, <1>4 DEF AtSocket
<1>6. Around'
  BY <1>4 DEF Good, Around, outside
<1> QED
  BY <1>3, <1>5, <1>6 DEF Good, Shape

LEMMA ScanGood ==
  ASSUME Good, NEW s \in DOMAIN sockets, Scan(s)
  PROVE  Good'
<1>1. PICK x \in Socket : AtSocket(x) /\ x.at = "qr" /\ s = 1 /\ sockets = <<x>>
  BY OneSocket DEF Scan
<1>2. PICK y : y = [at |-> "pairing", creds |-> paired']
  OBVIOUS
<1>3. paired' \in Creds
  BY LinkAssumption DEF Scan, Good, Around, Creds
<1>4. y \in Socket /\ y.at = "pairing"
  BY <1>2, <1>3 DEF Socket
<1>5. /\ sockets' = <<y>> /\ linked' = paired' /\ saving' = paired'
      /\ UNCHANGED <<process, status, calls, gaveUp, disk, drops>>
  BY <1>1, <1>2, OneFacts DEF Scan
<1>6. AtSocket(y)'
  BY <1>1, <1>4, <1>5 DEF AtSocket
<1>7. Around'
  BY <1>3, <1>5 DEF Good, Around
<1> QED
  BY <1>4, <1>6, <1>7 DEF Good, Shape

LEMMA OpenedGood ==
  ASSUME Good, NEW s \in DOMAIN sockets, Opened(s)
  PROVE  Good'
<1>1. PICK x \in Socket : /\ AtSocket(x) /\ x.at = "new" /\ s = 1 /\ sockets = <<x>>
                          /\ Accepted(x.creds)
  BY OneSocket DEF Opened
<1>2. PICK y : y = [x EXCEPT !.at = "open"]
  OBVIOUS
<1>3. y \in Socket /\ y.at = "open" /\ y.creds = x.creds
  BY <1>2 DEF Socket
<1>4. /\ sockets' = <<y>> /\ status' = "CONNECTED"
      /\ UNCHANGED <<process, calls, gaveUp, disk, saving, outside>>
  BY <1>1, <1>2, OneFacts DEF Opened
<1>5. y.creds = paired
  BY <1>1, <1>3 DEF Accepted, Good, Around
<1>6. AtSocket(y)'
  BY <1>1, <1>3, <1>4, <1>5 DEF AtSocket, outside
<1>7. Around'
  BY <1>4 DEF Good, Around, outside
<1> QED
  BY <1>3, <1>6, <1>7 DEF Good, Shape

LEMMA SaveCredsGood ==
  ASSUME Good, NEW s \in DOMAIN sockets, SaveCreds(s)
  PROVE  Good'
<1>1. PICK x \in Socket : AtSocket(x) /\ x.at = "open" /\ s = 1 /\ sockets = <<x>>
  BY OneSocket DEF SaveCreds
<1>2. /\ saving' = x.creds
      /\ UNCHANGED <<process, status, sockets, calls, gaveUp, disk, outside>>
  BY <1>1, OneFacts DEF SaveCreds
<1>3. x.creds = paired
  BY <1>1 DEF AtSocket
<1>4. AtSocket(x)'
  BY <1>1, <1>2 DEF AtSocket, outside
<1>5. Around'
  BY <1>2, <1>3 DEF Good, Around, outside
<1> QED
  BY <1>4, <1>5 DEF Good, Shape

\* A close event begins a reset only if nothing WhatsApp accepts can be lost,
\* or the process is leaving.
LEMMA OnCloseGood ==
  ASSUME Good, NEW x \in Socket, AtSocket(x), sockets = <<x>>, NEW loggedOut \in BOOLEAN,
         OnClose(1, loggedOut), process' \in {process, "leaving"}, linked' \in {linked, 0},
         loggedOut => (process' = "leaving" \/ (~Accepted(disk) /\ ~Accepted(saving))),
         UNCHANGED <<gaveUp, disk, saving, paired>>, drops' \in 0..MaxDrops
  PROVE  Good'
<1>1. 0 \in Creds
  BY LinkAssumption DEF Creds
<1>2. /\ Connecting \in Call /\ Connecting.at = "auth"
      /\ Resetting \in Call /\ Resetting.at = "rm"
  BY <1>1 DEF Connecting, Resetting, Call
<1>3. calls = <<>>
  BY DEF AtSocket
<1>4. Around'
  BY <1>1 DEF Good, Around
<1>5. CASE loggedOut
  <2>1. sockets' = <<>> /\ status' = "DISCONNECTED" /\ calls' = <<Resetting>>
    BY <1>3, <1>5, OneFacts DEF OnClose, Ended
  <2>2. AtCall(Resetting)'
    BY <1>2, <1>5, <2>1 DEF AtSocket, AtCall, Running, Accepted
  <2> QED
    BY <1>2, <1>4, <2>2 DEF Good, Shape
<1>6. CASE ~loggedOut
  <2>1. sockets' = <<>> /\ status' = "CONNECTING" /\ calls' = <<Connecting>>
    BY <1>3, <1>6, OneFacts DEF OnClose, Ended
  <2>2. AtCall(Connecting)'
    BY <1>2, <2>1 DEF AtSocket, AtCall, Running
  <2> QED
    BY <1>2, <1>4, <2>2 DEF Good, Shape
<1> QED
  BY <1>5, <1>6

LEMMA CloseGood ==
  ASSUME Good, NEW s \in DOMAIN sockets, Drop(s) \/ Restart(s) \/ Refuse(s)
  PROVE  Good'
<1>1. PICK x \in Socket : AtSocket(x) /\ s = 1 /\ sockets = <<x>> /\ x = sockets[1]
  BY OneSocket
<1>2. CASE Drop(s)
  <2>1. drops' \in 0..MaxDrops
    BY <1>2, LinkAssumption DEF Drop, Good, Around
  <2> QED
    BY <1>1, <1>2, <2>1, OnCloseGood DEF Drop
<1>3. CASE Restart(s)
  <2>1. /\ OnClose(1, FALSE) /\ process' = process /\ linked' = linked
        /\ UNCHANGED <<gaveUp, disk, saving, paired>> /\ drops' \in 0..MaxDrops
    BY <1>1, <1>3 DEF Restart, outside, Good, Around
  <2> QED
    BY <1>1, <2>1, OnCloseGood
<1>4. CASE Refuse(s)
  <2>1. x.at \in {"new", "open"} /\ x.creds # 0 /\ ~Accepted(x.creds)
    BY <1>1, <1>4 DEF Refuse
  <2>2. ~Accepted(disk) /\ ~Accepted(saving)
    <3>1. CASE x.at = "new"
      BY <1>1, <2>1, <3>1 DEF AtSocket, Accepted
    <3>2. CASE x.at = "open"
      BY <1>1, <2>1, <3>2 DEF AtSocket, Accepted, Good, Around
    <3> QED
      BY <2>1, <3>1, <3>2
  <2> QED
    BY <1>1, <1>4, <2>2, OnCloseGood DEF Refuse, outside, Good, Around
<1> QED
  BY <1>2, <1>3, <1>4

-----------------------------------------------------------------------------
(* Steps of the process, of a write, and of WhatsApp.                      *)

LEMMA StartGood == ASSUME Good, Start PROVE Good'
<1>1. Down
  BY DEF Start, Good, Shape, Lost, AtSocket, AtCall, Running
<1>2. Connecting \in Call /\ Connecting.at = "auth"
  BY LinkAssumption DEF Connecting, Call, Creds
<1>3. AtCall(Connecting)'
  BY <1>1, <1>2 DEF Start, Down, AtCall, Running
<1>4. Around'
  BY DEF Start, Good, Around, outside
<1> QED
  BY <1>2, <1>3, <1>4 DEF Good, Shape

LEMMA SavedGood == ASSUME Good, Saved PROVE Good'
<1>1. /\ saving # 0 /\ disk' = saving /\ saving' = 0
      /\ UNCHANGED <<process, status, sockets, calls, gaveUp, linked, paired, drops>>
  BY DEF Saved, outside
<1>2. Around'
  BY <1>1, LinkAssumption DEF Good, Around, Creds
<1>3. ASSUME NEW x \in Socket, AtSocket(x) PROVE AtSocket(x)'
  BY <1>1, <1>3 DEF AtSocket
<1>4. ASSUME NEW c \in Call, AtCall(c) PROVE AtCall(c)'
  BY <1>1, <1>4 DEF AtCall, Accepted, Running
<1>5. Lost => Lost'
  BY <1>1 DEF Lost
<1>6. ~Down
  BY <1>1 DEF Down
<1> QED
  BY <1>2, <1>3, <1>4, <1>5, <1>6 DEF Good, Shape

LEMMA StillGood ==
  ASSUME Good, UNCHANGED <<memory, disk, paired, drops>>,
         linked' = linked \/ linked' = 0,
         \/ process' = process
         \/ process = "up" /\ process' = "closing"
         \/ process = "closing" /\ process' = "leaving"
  PROVE  Good'
<1>1. Around'
  BY LinkAssumption DEF Good, Around, memory, Creds
<1>2. ASSUME NEW x \in Socket, AtSocket(x) PROVE AtSocket(x)'
  BY <1>2 DEF AtSocket, memory
<1>3. ASSUME NEW c \in Call, AtCall(c) PROVE AtCall(c)'
  BY <1>3 DEF AtCall, Accepted, Running, memory
<1>4. (Lost => Lost') /\ (Down => Down')
  BY DEF Lost, Down, memory
<1> QED
  BY <1>1, <1>2, <1>3, <1>4 DEF Good, Shape

LEMMA LogOutGood == ASSUME Good, LogOut PROVE Good'
<1>1. CASE UNCHANGED <<memory, linked>>
  BY <1>1, StillGood DEF LogOut
<1>2. CASE /\ sockets # <<>>
           /\ OnClose(Len(sockets), TRUE)
           /\ linked' \in {linked} \cup (IF Accepted(Last(sockets).creds) THEN {0} ELSE {})
           /\ UNCHANGED <<gaveUp, saving>>
  <2>1. PICK x \in Socket : AtSocket(x) /\ sockets = <<x>>
    BY <1>2 DEF Good, Shape, Down, Lost, AtSocket, AtCall
  <2>2. OnClose(1, TRUE) /\ process' = "leaving" /\ linked' \in {linked, 0}
    BY <1>2, <2>1, OneFacts DEF LogOut
  <2>3. UNCHANGED <<gaveUp, disk, saving, paired>> /\ drops' \in 0..MaxDrops
    BY <1>2 DEF LogOut, Good, Around
  <2> QED
    BY <2>1, <2>2, <2>3, OnCloseGood, Zenon
<1> QED
  BY <1>1, <1>2 DEF LogOut

LEMMA StopGood ==
  ASSUME Good, Crash \/ Exit
  PROVE  Good'
BY ForgottenGood DEF Crash, Exit, Good, Around, outside

LEMMA GoodInvariant == Spec => []Good
<1>1. Init => Good
  <2> SUFFICES ASSUME Init PROVE Good
    OBVIOUS
  <2>1. 0 \in Creds /\ 0 \in 0..MaxDrops
    BY LinkAssumption DEF Creds
  <2>2. Around
    BY <2>1 DEF Init, Around
  <2>3. Down
    BY DEF Init, Down
  <2> QED
    BY <2>2, <2>3 DEF Good, Shape
<1>2. Good /\ [Next]_vars => Good'
  <2> SUFFICES ASSUME Good, [Next]_vars PROVE Good'
    OBVIOUS
  <2>1. CASE UNCHANGED vars
    BY <2>1, StillGood DEF vars, outside
  <2>2. CASE RemoveDevice \/ Shutdown
    BY <2>2, StillGood DEF RemoveDevice, Shutdown, outside
  <2>3. ASSUME NEW k \in DOMAIN calls,
               \/ LoadAuth(k) \/ MakeSocket(k) \/ ConnectFails(k)
               \/ \E removed \in BOOLEAN : ResetDone(k, removed)
        PROVE  Good'
    BY <2>3, LoadAuthGood, MakeSocketGood, ConnectFailsGood, ResetDoneGood
  <2>4. ASSUME NEW s \in DOMAIN sockets,
               \/ ShowQR(s) \/ Scan(s) \/ Opened(s) \/ SaveCreds(s)
               \/ Drop(s) \/ Restart(s) \/ Refuse(s)
        PROVE  Good'
    BY <2>4, ShowQRGood, ScanGood, OpenedGood, SaveCredsGood, CloseGood
  <2> QED
    BY <2>1, <2>2, <2>3, <2>4, StartGood, SavedGood, LogOutGood, StopGood DEF Next
<1> QED
  BY <1>1, <1>2, PTL DEF Spec

\* The link keeps its types (BaileysProvider, index.js).
THEOREM LinkTypeCorrect == Spec => []TypeOK
  BY GoodTypes, GoodInvariant, PTL

\* However close events, resets, failing connects, crashes and signals follow
\* each other, a running gateway holds one link (connect, connection.update).
THEOREM LinkIsOne == Spec => []OneLink
  BY GoodLink, GoodInvariant, PTL

\* The status sendText goes by is the state of the link (getStatus).
THEOREM StatusIsTrue == Spec => []StatusTrue
  BY GoodLink, GoodInvariant, PTL

\* No step but a reset begun by a shutdown's own logout takes credentials off the disk that
\* WhatsApp accepts: not a reset begun on a close event, and not an older
\* write that ends late (resetAuthAndReconnect, saveCreds).
THEOREM CredentialsKept == Spec => CredsKept
<1>1. ASSUME Good, [Next]_vars, Accepted(disk), linked' = linked, process # "leaving"
      PROVE  disk' = disk
  <2>1. CASE UNCHANGED vars
    BY <2>1 DEF vars
  <2>2. CASE Saved
    BY <1>1, <2>2 DEF Saved, Accepted, Good, Around
  <2>3. ASSUME NEW k \in DOMAIN calls,
               \/ LoadAuth(k) \/ MakeSocket(k) \/ ConnectFails(k)
               \/ \E removed \in BOOLEAN : ResetDone(k, removed)
        PROVE  disk' = disk
    <3>1. calls[k].at # "rm"
      BY <1>1, OneCall DEF AtCall
    <3> QED
      BY <2>3, <3>1 DEF LoadAuth, MakeSocket, ConnectFails, ResetDone, Reconnect
  <2>4. ASSUME NEW s \in DOMAIN sockets,
               \/ ShowQR(s) \/ Scan(s) \/ Opened(s) \/ SaveCreds(s)
               \/ Drop(s) \/ Restart(s) \/ Refuse(s)
        PROVE  disk' = disk
    BY <2>4 DEF ShowQR, Scan, Opened, SaveCreds, Drop, Restart, Refuse
  <2>5. CASE Start \/ RemoveDevice \/ Crash \/ Shutdown \/ LogOut \/ Exit
    BY <2>5 DEF Start, RemoveDevice, Crash, Shutdown, LogOut, Exit
  <2> QED
    BY <1>1, <2>1, <2>2, <2>3, <2>4, <2>5 DEF Next
<1>2. Good /\ [Next]_vars =>
        [Accepted(disk) /\ linked' = linked /\ process # "leaving" => disk' = disk]_vars
  BY <1>1
<1> QED
  BY <1>2, GoodInvariant, PTL DEF Spec, CredsKept
=============================================================================
