------------------------------ MODULE MediaRelay -------------------------------
(***************************************************************************)
(* The relay of photos and voice messages: the bot's handlers              *)
(* (bot/internal/handlers/photo.go, voice.go, bot/internal/fileutil) and   *)
(* the part of relayMessage they reach (backend/internal/api/messages.go). *)
(*                                                                         *)
(* A file lives on disk under the id the handler invents, the message      *)
(* lives in a table of another process, and HTTP lies between them: the    *)
(* bot gives up after ten seconds, whatever the backend is doing.  The     *)
(* conversation is one session seen from a sender: whether it is active    *)
(* and whether the other side is bound may change at any time.             *)
(***************************************************************************)
EXTENDS Integers, FiniteSets

CONSTANTS
  Photos, Voices,   \* updates that carry a photo or a voice message
  MaxChanges        \* bound on the changes of the session

ASSUME MediaRelayAssumption ==
  /\ Photos \cap Voices = {}
  /\ MaxChanges \in Nat

Media == Photos \cup Voices

VARIABLES
  handler,    \* where the bot's handler of each update is
  original,   \* photos whose <id>_orig.jpg is on disk
  file,       \* media whose <id>.jpg or <id>.ogg is on disk
  request,    \* where the backend's handler of each relay is
  reply,      \* what the backend answered
  active,     \* sessions.status = 'active'
  bound,      \* whether the other side is bound
  recipient,  \* media whose relay read a bound recipient
  row,        \* rows of the table messages
  delivered,  \* media Telegram took for the recipient
  told,       \* what the sender was told
  changes,    \* counter for the bound
  failed      \* history: what failed for the files of each update ("answer":
              \* Telegram took the file and the bot got an error)

diskVars    == <<original, file, failed>>
backendVars == <<request, reply, recipient, row>>
sessionVars == <<active, bound, changes>>
outsideVars == <<delivered, told>>
vars == <<handler, diskVars, backendVars, sessionVars, outsideVars>>

HandlerStates == {"idle", "download", "strip", "removeOriginal", "stripFailed", "relay", "waiting",
                  "send", "removeSent", "ended", "killed"}
Ended == {m \in Media : handler[m] \in {"ended", "killed"}}
Replies == {"error", "unavailable", "counterparty_not_bound_yet", "relayed"}

TypeOK ==
  /\ handler \in [Media -> HandlerStates]
  /\ original \subseteq Photos /\ file \subseteq Media
  /\ request \in [Media -> {"none", "check", "insert", "lookup", "done"}]
  /\ reply \in [Media -> Replies \cup {"none"}]
  /\ active \in BOOLEAN /\ bound \in BOOLEAN
  /\ recipient \subseteq Media /\ row \subseteq Media /\ delivered \subseteq Media
  /\ told \in [Media -> {"nothing", "error", "blocked", "later"}]
  /\ changes \in 0..MaxChanges
  /\ failed \in [Media -> SUBSET {"download", "strip", "remove", "answer"}]

Init ==
  /\ handler = [m \in Media |-> "idle"]
  /\ original = {} /\ file = {}
  /\ request = [m \in Media |-> "none"]
  /\ reply = [m \in Media |-> "none"]
  /\ active = TRUE /\ bound \in BOOLEAN
  /\ recipient = {} /\ row = {} /\ delivered = {}
  /\ told = [m \in Media |-> "nothing"]
  /\ changes = 0
  /\ failed = [m \in Media |-> {}]

At(m, pc) == handler[m] = pc
Goto(m, pc) == handler' = [handler EXCEPT ![m] = pc]
Tell(m, what) == told' = [told EXCEPT ![m] = what]
Failing(m, what) == failed' = [failed EXCEPT ![m] = @ \cup {what}]

(***************************************************************************)
(* The bot: download, strip, remove the original.                          *)
(***************************************************************************)
Handle(m) ==
  /\ At(m, "idle")
  /\ Goto(m, "download")
  /\ UNCHANGED <<diskVars, backendVars, sessionVars, outsideVars>>

(* downloadTelegramFile creates the destination and copies the body into it:
   when it fails, nothing or a part of the file is left, and the handler
   returns at once. *)
Downloads(m) ==
  /\ At(m, "download")
  /\ IF m \in Photos
     THEN Goto(m, "strip") /\ original' = original \cup {m} /\ UNCHANGED file
     ELSE Goto(m, "relay") /\ file' = file \cup {m} /\ UNCHANGED original
  /\ UNCHANGED <<failed, backendVars, sessionVars, outsideVars>>

DownloadFails(m) ==
  /\ At(m, "download") /\ Failing(m, "download")
  /\ Goto(m, "ended") /\ Tell(m, "error")
  /\ \E partial \in BOOLEAN :
       /\ original' = IF partial /\ m \in Photos THEN original \cup {m} ELSE original
       /\ file' = IF partial /\ m \in Voices THEN file \cup {m} ELSE file
  /\ UNCHANGED <<backendVars, sessionVars, delivered>>

(* convert -strip; what it leaves when it fails is its own business. *)
StripMetadata(m) ==
  /\ At(m, "strip")
  /\ \/ Goto(m, "removeOriginal") /\ file' = file \cup {m} /\ UNCHANGED failed
     \/ /\ Goto(m, "stripFailed") /\ Failing(m, "strip")
        /\ file' \in {file, file \cup {m}}
  /\ UNCHANGED <<original, backendVars, sessionVars, outsideVars>>

(* RemoveFile ignores a missing file, its callers any other error. *)
RemoveFile(files, m) ==
  \/ files' = files \ {m} /\ UNCHANGED failed
  \/ m \in files /\ UNCHANGED files /\ Failing(m, "remove")

RemoveOriginalOnSuccess(m) ==  \* mutant
  /\ \/ At(m, "removeOriginal") /\ Goto(m, "relay") /\ original' = original \ {m} /\ UNCHANGED told
     \/ At(m, "stripFailed") /\ Goto(m, "ended") /\ original' = original /\ Tell(m, "error")
  /\ UNCHANGED <<file, failed, backendVars, sessionVars, delivered>>

(* The original goes first, and only then is the error of convert looked at. *)
RemoveOriginal(m) ==
  /\ RemoveFile(original, m)
  /\ \/ At(m, "removeOriginal") /\ Goto(m, "relay") /\ UNCHANGED told
     \/ At(m, "stripFailed") /\ Goto(m, "ended") /\ Tell(m, "error")
  /\ UNCHANGED <<file, backendVars, sessionVars, delivered>>

(***************************************************************************)
(* The relay of the message, one action per statement of the backend.      *)
(***************************************************************************)
RelayMessage(m) ==
  /\ At(m, "relay")
  /\ Goto(m, "waiting")
  /\ request' = [request EXCEPT ![m] = "check"]
  /\ UNCHANGED <<diskVars, reply, recipient, row, sessionVars, outsideVars>>

Answer(m, what) ==
  /\ request' = [request EXCEPT ![m] = "done"]
  /\ reply' = [reply EXCEPT ![m] = what]

CheckSessionTypo(m) ==  \* mutant
  /\ request[m] = "check"
  /\ IF active
     THEN /\ request' = [request EXCEPT ![m] = "insert"]
          /\ recipient' = IF bound THEN recipient \cup {m} ELSE recipient
          /\ UNCHANGED reply
     ELSE Answer(m, "session_not_active") /\ UNCHANGED recipient
  /\ UNCHANGED <<handler, diskVars, row, sessionVars, outsideVars>>

(* The sender, the session and the two sides are read; "unavailable" is any
   of no_active_session, session_not_active and sender_not_in_session. *)
CheckSession(m) ==
  /\ request[m] = "check"
  /\ IF active
     THEN /\ request' = [request EXCEPT ![m] = "insert"]
          /\ recipient' = IF bound THEN recipient \cup {m} ELSE recipient
          /\ UNCHANGED reply
     ELSE Answer(m, "unavailable") /\ UNCHANGED recipient
  /\ UNCHANGED <<handler, diskVars, row, sessionVars, outsideVars>>

InsertMessageLater(m) ==  \* mutant
  /\ request[m] = "insert"
  /\ IF m \in recipient
     THEN row' = row \cup {m} /\ request' = [request EXCEPT ![m] = "lookup"] /\ UNCHANGED reply
     ELSE row' = row /\ Answer(m, "counterparty_not_bound_yet")
  /\ UNCHANGED <<handler, diskVars, recipient, sessionVars, outsideVars>>

InsertMessage(m) ==
  /\ request[m] = "insert"
  /\ row' = row \cup {m}
  /\ IF m \in recipient
     THEN request' = [request EXCEPT ![m] = "lookup"] /\ UNCHANGED reply
     ELSE Answer(m, "counterparty_not_bound_yet")
  /\ UNCHANGED <<handler, diskVars, recipient, sessionVars, outsideVars>>

LookUpRecipient(m) ==
  /\ request[m] = "lookup"
  /\ Answer(m, "relayed")
  /\ UNCHANGED <<handler, diskVars, recipient, row, sessionVars, outsideVars>>

(* A statement fails, or its context is cancelled with the connection of a
   bot that no longer waits. *)
StatementFails(m) ==
  /\ request[m] \in {"check", "insert", "lookup"}
  /\ Answer(m, "error")
  /\ UNCHANGED <<handler, diskVars, recipient, row, sessionVars, outsideVars>>

GiveUpKeepsFile(m) ==  \* mutant
  /\ Goto(m, "ended") /\ Tell(m, "error")
  /\ UNCHANGED <<diskVars, backendVars, sessionVars, delivered>>

(***************************************************************************)
(* The bot again: what it does with the answer.                            *)
(***************************************************************************)
GiveUp(m) ==
  /\ Goto(m, "ended") /\ Tell(m, "error")
  /\ RemoveFile(file, m)
  /\ UNCHANGED <<original, backendVars, sessionVars, delivered>>

RelayTimesOut(m) ==
  /\ At(m, "waiting") /\ GiveUp(m)

RelayFails(m) ==
  /\ At(m, "waiting") /\ reply[m] = "error" /\ GiveUp(m)

RelayBlocked(m) ==
  /\ At(m, "waiting") /\ reply[m] = "unavailable"
  /\ Goto(m, "ended") /\ Tell(m, "blocked")
  /\ RemoveFile(file, m)
  /\ UNCHANGED <<original, backendVars, sessionVars, delivered>>

(* The file is kept for the time the other side connects. *)
RelayKept(m) ==
  /\ At(m, "waiting") /\ reply[m] = "counterparty_not_bound_yet"
  /\ Goto(m, "ended") /\ Tell(m, "later")
  /\ UNCHANGED <<diskVars, backendVars, sessionVars, delivered>>

Relayed(m) ==
  /\ At(m, "waiting") /\ reply[m] = "relayed"
  /\ Goto(m, "send")
  /\ UNCHANGED <<diskVars, backendVars, sessionVars, outsideVars>>

SendOnly(m) ==  \* mutant
  /\ At(m, "send")
  /\ Goto(m, "ended")
  /\ delivered' = delivered \cup {m}
  /\ UNCHANGED <<diskVars, backendVars, sessionVars, told>>

(* deliverPhoto, deliverVoice: Telegram takes the file, or refuses it, or takes it
   and its answer is lost; after an error the file stays on disk. *)
Send(m) ==
  /\ At(m, "send")
  /\ \/ Goto(m, "removeSent") /\ delivered' = delivered \cup {m} /\ UNCHANGED failed
     \/ Goto(m, "ended") /\ UNCHANGED <<delivered, failed>>
     \/ Goto(m, "ended") /\ delivered' = delivered \cup {m} /\ Failing(m, "answer")
  /\ UNCHANGED <<original, file, backendVars, sessionVars, told>>

RemoveSent(m) ==
  /\ At(m, "removeSent")
  /\ Goto(m, "ended")
  /\ RemoveFile(file, m)
  /\ UNCHANGED <<original, backendVars, sessionVars, outsideVars>>

(* The bot's process dies with all its handlers; Telegram does not send their
   updates again. *)
Crash ==
  /\ \E m \in Media : handler[m] # "idle" /\ m \notin Ended
  /\ handler' = [m \in Media |-> IF At(m, "idle") \/ m \in Ended THEN handler[m] ELSE "killed"]
  /\ UNCHANGED <<diskVars, backendVars, sessionVars, outsideVars>>

(***************************************************************************)
(* Operators.                                                              *)
(***************************************************************************)
(* Nobody reads the column delivered, which INSERT leaves at its default: a
   side that connects later gets no message, and no file, from before. *)
ChangeSession ==
  /\ changes < MaxChanges
  /\ changes' = changes + 1
  /\ \/ active' = ~active /\ UNCHANGED bound
     \/ ~bound /\ bound' = TRUE /\ UNCHANGED active
  /\ UNCHANGED <<handler, diskVars, backendVars, outsideVars>>

(***************************************************************************)
(* The specification.                                                      *)
(***************************************************************************)
BotStep(m) ==
  \/ Downloads(m) \/ DownloadFails(m) \/ StripMetadata(m) \/ RemoveOriginal(m)
  \/ RelayMessage(m) \/ RelayTimesOut(m) \/ RelayFails(m) \/ RelayBlocked(m)
  \/ RelayKept(m) \/ Relayed(m) \/ Send(m) \/ RemoveSent(m)
BackendStep(m) ==
  CheckSession(m) \/ InsertMessage(m) \/ LookUpRecipient(m) \/ StatementFails(m)

Next ==
  \/ \E m \in Media : Handle(m) \/ BotStep(m) \/ BackendStep(m)
  \/ ChangeSession
  \/ Crash

Spec == Init /\ [][Next]_vars

(* A handler that was started goes on, and so does the backend's. *)
FairSpec == Spec /\ \A m \in Media : WF_vars(BotStep(m)) /\ WF_vars(BackendStep(m))

(***************************************************************************)
(* Properties.                                                             *)
(***************************************************************************)

(* The original with its metadata is removed at once, whether the conversion
   succeeds or not (photo.go): only a download that breaks off, a removal the
   disk refuses or the death of the bot leave one behind. *)
OriginalsAreRemoved ==
  \A m \in original :
    \/ handler[m] \in {"strip", "removeOriginal", "stripFailed", "killed"}
    \/ failed[m] \cap {"download", "remove"} # {}

(* When a handler is over, its file on disk belongs to a stored message, so that
   retention, which starts from the rows, finds it, and the file of a message that
   was delivered is there only because the answer to the send was lost: whichever
   way a relay ends, by an answer, an error or a time-out that the backend does
   not notice, the handler removes what it will not need.  The bot's death, a
   failed download or conversion and a removal the disk refuses are the exceptions. *)
FilesAreAccountedFor ==
  \A m \in file : handler[m] = "ended" /\ failed[m] \subseteq {"answer"} =>
    m \in row /\ (m \in delivered => "answer" \in failed[m])

(* Who is told that his message will be delivered later has his message in
   the table and his file on disk, however slow or broken the answers. *)
PromisedIsKept == \A m \in Media : told[m] = "later" => m \in row \cap file

(* A stored message whose recipient was bound and whose sender was not told of
   an error comes to an end, unless the bot dies or the disk refuses a removal:
   Telegram takes its file and the disk is clean, or the file stays with its row
   because Telegram refused it or the bot did not learn that it was taken. *)
StoredIsSettled ==
  \A m \in Media : (m \in row /\ m \in recipient) ~>
    \/ told[m] = "error" \/ handler[m] = "killed" \/ "remove" \in failed[m]
    \/ m \in delivered /\ m \notin file
    \/ m \in row \cap file \cap Ended /\ (m \in delivered => "answer" \in failed[m])
=============================================================================
