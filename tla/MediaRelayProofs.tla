--------------------------- MODULE MediaRelayProofs ---------------------------
(***************************************************************************)
(* Proofs about MediaRelay, for any number of photos and voice messages.   *)
(*                                                                         *)
(* The disk belongs to the bot and the table to the backend, and nothing   *)
(* makes the two agree: what holds them together is the order in which a   *)
(* handler and its relay go through their steps (InOrder).  Media do not   *)
(* meet, so the invariant is one about each of them.                       *)
(***************************************************************************)
EXTENDS MediaRelay, TLAPS

(* What the step a handler or a relay is at says of the disk, the table and
   what went wrong before. *)
InOrder(m) ==
  /\ handler[m] \in {"removeOriginal", "relay", "waiting", "send", "removeSent"} => m \in file
  /\ handler[m] = "stripFailed" => "strip" \in failed[m]
  /\ handler[m] \in {"idle", "download", "strip", "removeOriginal", "stripFailed", "relay"}
       => request[m] = "none"
  /\ reply[m] # "none" => request[m] = "done"
  /\ handler[m] = "send" => reply[m] = "relayed"
  /\ m \in delivered => handler[m] \in {"removeSent", "ended", "killed"}
  /\ told[m] = "later" => handler[m] = "ended"
  /\ request[m] = "lookup" \/ reply[m] \in {"counterparty_not_bound_yet", "relayed"} => m \in row

(* The properties, for one medium. *)
OriginalIsRemoved(m) ==
  m \in original => \/ handler[m] \in {"strip", "removeOriginal", "stripFailed", "killed"}
                    \/ failed[m] \cap {"download", "remove"} # {}
FileIsAccountedFor(m) ==
  m \in file /\ handler[m] = "ended" /\ failed[m] \subseteq {"answer"} =>
    m \in row /\ (m \in delivered => "answer" \in failed[m])
PromiseIsKept(m) == told[m] = "later" => m \in row \cap file

MediumInv(m) == InOrder(m) /\ OriginalIsRemoved(m) /\ FileIsAccountedFor(m) /\ PromiseIsKept(m)
IInv == TypeOK /\ \A m \in Media : MediumInv(m)

LEMMA InitIInv == Init => IInv
<1> SUFFICES ASSUME Init PROVE IInv OBVIOUS
<1>1. TypeOK BY MediaRelayAssumption DEF Init, TypeOK, HandlerStates
<1>2. ASSUME NEW m \in Media PROVE MediumInv(m)
  BY DEF Init, MediumInv, InOrder, OriginalIsRemoved, FileIsAccountedFor, PromiseIsKept
<1> QED BY <1>1, <1>2 DEF IInv

(* A medium that a step does not touch. *)
Same(x) ==
  /\ UNCHANGED <<handler[x], request[x], reply[x], told[x], failed[x]>>
  /\ x \in original' <=> x \in original
  /\ x \in file' <=> x \in file
  /\ x \in row' <=> x \in row
  /\ x \in delivered' <=> x \in delivered

LEMMA Elsewhere ==
  ASSUME IInv, NEW x \in Media, Same(x)
  PROVE  MediumInv(x)'
BY DEF IInv, Same, MediumInv, InOrder, OriginalIsRemoved, FileIsAccountedFor, PromiseIsKept

-------------------------------------------------------------------------------
(* The bot prepares the files. *)
LEMMA HandleIInv == ASSUME IInv, NEW m \in Media, Handle(m) PROVE IInv'
<1> USE DEF IInv, Handle, At, Goto, diskVars, backendVars, sessionVars, outsideVars
<1>1. TypeOK' BY DEF TypeOK, HandlerStates
<1>2. ASSUME NEW x \in Media, x # m PROVE Same(x) BY <1>2 DEF TypeOK, Same
<1>3. MediumInv(m)'
  <2>1. InOrder(m)' BY DEF TypeOK, MediumInv, InOrder
  <2>2. OriginalIsRemoved(m)' BY DEF TypeOK, MediumInv, OriginalIsRemoved
  <2>3. FileIsAccountedFor(m)' BY DEF TypeOK, MediumInv, InOrder, FileIsAccountedFor
  <2>4. PromiseIsKept(m)' BY DEF TypeOK, MediumInv, InOrder, PromiseIsKept
  <2> QED BY <2>1, <2>2, <2>3, <2>4 DEF MediumInv
<1> QED BY <1>1, <1>2, <1>3, Elsewhere

LEMMA DownloadsIInv == ASSUME IInv, NEW m \in Media, Downloads(m) PROVE IInv'
<1> USE DEF IInv, Downloads, At, Goto, backendVars, sessionVars, outsideVars
<1>1. TypeOK' BY DEF TypeOK, HandlerStates
<1>2. ASSUME NEW x \in Media, x # m PROVE Same(x) BY <1>2 DEF TypeOK, Same
<1>3. MediumInv(m)'
  <2>1. InOrder(m)' BY DEF TypeOK, MediumInv, InOrder
  <2>2. OriginalIsRemoved(m)' BY DEF TypeOK, MediumInv, OriginalIsRemoved
  <2>3. FileIsAccountedFor(m)' BY DEF TypeOK, MediumInv, InOrder, FileIsAccountedFor
  <2>4. PromiseIsKept(m)' BY DEF TypeOK, MediumInv, InOrder, PromiseIsKept
  <2> QED BY <2>1, <2>2, <2>3, <2>4 DEF MediumInv
<1> QED BY <1>1, <1>2, <1>3, Elsewhere

LEMMA DownloadFailsIInv == ASSUME IInv, NEW m \in Media, DownloadFails(m) PROVE IInv'
<1> USE DEF IInv, DownloadFails, At, Goto, Tell, Failing, backendVars, sessionVars
<1>1. TypeOK' BY DEF TypeOK, HandlerStates
<1>2. ASSUME NEW x \in Media, x # m PROVE Same(x) BY <1>2 DEF TypeOK, Same
<1>3. MediumInv(m)'
  <2>1. InOrder(m)' BY DEF TypeOK, MediumInv, InOrder
  <2>2. OriginalIsRemoved(m)' BY DEF TypeOK, MediumInv, OriginalIsRemoved
  <2>3. FileIsAccountedFor(m)' BY DEF TypeOK, MediumInv, InOrder, FileIsAccountedFor
  <2>4. PromiseIsKept(m)' BY DEF TypeOK, MediumInv, InOrder, PromiseIsKept
  <2> QED BY <2>1, <2>2, <2>3, <2>4 DEF MediumInv
<1> QED BY <1>1, <1>2, <1>3, Elsewhere

LEMMA StripMetadataIInv == ASSUME IInv, NEW m \in Media, StripMetadata(m) PROVE IInv'
<1> USE DEF IInv, StripMetadata, At, Goto, Failing, backendVars, sessionVars, outsideVars
<1>1. TypeOK' BY DEF TypeOK, HandlerStates
<1>2. ASSUME NEW x \in Media, x # m PROVE Same(x) BY <1>2 DEF TypeOK, Same
<1>3. MediumInv(m)'
  <2>1. InOrder(m)' BY DEF TypeOK, MediumInv, InOrder
  <2>2. OriginalIsRemoved(m)' BY DEF TypeOK, MediumInv, OriginalIsRemoved
  <2>3. FileIsAccountedFor(m)' BY DEF TypeOK, MediumInv, InOrder, FileIsAccountedFor
  <2>4. PromiseIsKept(m)' BY DEF TypeOK, MediumInv, InOrder, PromiseIsKept
  <2> QED BY <2>1, <2>2, <2>3, <2>4 DEF MediumInv
<1> QED BY <1>1, <1>2, <1>3, Elsewhere

LEMMA RemoveOriginalIInv == ASSUME IInv, NEW m \in Media, RemoveOriginal(m) PROVE IInv'
<1> USE DEF IInv, RemoveOriginal, RemoveFile, At, Goto, Tell, Failing, backendVars, sessionVars
<1>1. TypeOK' BY DEF TypeOK, HandlerStates
<1>2. ASSUME NEW x \in Media, x # m PROVE Same(x) BY <1>2 DEF TypeOK, Same
<1>3. MediumInv(m)'
  <2>1. InOrder(m)' BY DEF TypeOK, MediumInv, InOrder
  <2>2. OriginalIsRemoved(m)' BY DEF TypeOK, MediumInv, OriginalIsRemoved
  <2>3. FileIsAccountedFor(m)' BY DEF TypeOK, MediumInv, InOrder, FileIsAccountedFor
  <2>4. PromiseIsKept(m)' BY DEF TypeOK, MediumInv, InOrder, PromiseIsKept
  <2> QED BY <2>1, <2>2, <2>3, <2>4 DEF MediumInv
<1> QED BY <1>1, <1>2, <1>3, Elsewhere

-------------------------------------------------------------------------------
(* The relay: what it reports as stored is stored. *)
LEMMA RelayMessageIInv == ASSUME IInv, NEW m \in Media, RelayMessage(m) PROVE IInv'
<1> USE DEF IInv, RelayMessage, At, Goto, diskVars, sessionVars, outsideVars
<1>1. TypeOK' BY DEF TypeOK, HandlerStates
<1>2. ASSUME NEW x \in Media, x # m PROVE Same(x) BY <1>2 DEF TypeOK, Same
<1>3. MediumInv(m)'
  <2>1. InOrder(m)' BY DEF TypeOK, MediumInv, InOrder
  <2>2. OriginalIsRemoved(m)' BY DEF TypeOK, MediumInv, OriginalIsRemoved
  <2>3. FileIsAccountedFor(m)' BY DEF TypeOK, MediumInv, InOrder, FileIsAccountedFor
  <2>4. PromiseIsKept(m)' BY DEF TypeOK, MediumInv, InOrder, PromiseIsKept
  <2> QED BY <2>1, <2>2, <2>3, <2>4 DEF MediumInv
<1> QED BY <1>1, <1>2, <1>3, Elsewhere

LEMMA CheckSessionIInv == ASSUME IInv, NEW m \in Media, CheckSession(m) PROVE IInv'
<1> USE DEF IInv, CheckSession, Answer, diskVars, sessionVars, outsideVars
<1>1. TypeOK' BY DEF TypeOK, Replies
<1>2. ASSUME NEW x \in Media, x # m PROVE Same(x) BY <1>2 DEF TypeOK, Same
<1>3. MediumInv(m)'
  <2>1. InOrder(m)' BY DEF TypeOK, MediumInv, InOrder
  <2>2. OriginalIsRemoved(m)' BY DEF TypeOK, MediumInv, OriginalIsRemoved
  <2>3. FileIsAccountedFor(m)' BY DEF TypeOK, MediumInv, InOrder, FileIsAccountedFor
  <2>4. PromiseIsKept(m)' BY DEF TypeOK, MediumInv, InOrder, PromiseIsKept
  <2> QED BY <2>1, <2>2, <2>3, <2>4 DEF MediumInv
<1> QED BY <1>1, <1>2, <1>3, Elsewhere

LEMMA InsertMessageIInv == ASSUME IInv, NEW m \in Media, InsertMessage(m) PROVE IInv'
<1> USE DEF IInv, InsertMessage, Answer, diskVars, sessionVars, outsideVars
<1>1. TypeOK' BY DEF TypeOK, Replies
<1>2. ASSUME NEW x \in Media, x # m PROVE Same(x) BY <1>2 DEF TypeOK, Same
<1>3. MediumInv(m)'
  <2>1. InOrder(m)' BY DEF TypeOK, MediumInv, InOrder
  <2>2. OriginalIsRemoved(m)' BY DEF TypeOK, MediumInv, OriginalIsRemoved
  <2>3. FileIsAccountedFor(m)' BY DEF TypeOK, MediumInv, InOrder, FileIsAccountedFor
  <2>4. PromiseIsKept(m)' BY DEF TypeOK, MediumInv, InOrder, PromiseIsKept
  <2> QED BY <2>1, <2>2, <2>3, <2>4 DEF MediumInv
<1> QED BY <1>1, <1>2, <1>3, Elsewhere

LEMMA AnswerLateIInv == ASSUME IInv, NEW m \in Media,
                            LookUpRecipient(m) \/ StatementFails(m)
                     PROVE IInv'
<1> USE DEF IInv, LookUpRecipient, StatementFails, Answer, diskVars, sessionVars, outsideVars
<1>1. TypeOK' BY DEF TypeOK, Replies
<1>2. ASSUME NEW x \in Media, x # m PROVE Same(x) BY <1>2 DEF TypeOK, Same
<1>3. MediumInv(m)'
  <2>1. InOrder(m)' BY DEF TypeOK, MediumInv, InOrder
  <2>2. OriginalIsRemoved(m)' BY DEF TypeOK, MediumInv, OriginalIsRemoved
  <2>3. FileIsAccountedFor(m)' BY DEF TypeOK, MediumInv, InOrder, FileIsAccountedFor
  <2>4. PromiseIsKept(m)' BY DEF TypeOK, MediumInv, InOrder, PromiseIsKept
  <2> QED BY <2>1, <2>2, <2>3, <2>4 DEF MediumInv
<1> QED BY <1>1, <1>2, <1>3, Elsewhere

-------------------------------------------------------------------------------
(* The bot again: it removes what it does not leave to a row. *)
LEMMA GiveUpIInv ==
  ASSUME IInv, NEW m \in Media, RelayTimesOut(m) \/ RelayFails(m) \/ RelayBlocked(m)
  PROVE  IInv'
<1>1. PICK what \in {"error", "blocked"} :
        /\ handler[m] = "waiting" /\ handler' = [handler EXCEPT ![m] = "ended"]
        /\ told' = [told EXCEPT ![m] = what]
        /\ \/ file' = file \ {m} /\ failed' = failed
           \/ file' = file /\ failed' = [failed EXCEPT ![m] = @ \cup {"remove"}]
        /\ UNCHANGED <<original, request, reply, recipient, row, active, bound, changes, delivered>>
  BY DEF RelayTimesOut, RelayFails, RelayBlocked, GiveUp, RemoveFile, At, Goto, Tell, Failing,
         backendVars, sessionVars
<1>2. TypeOK' BY <1>1 DEF IInv, TypeOK, HandlerStates
<1>3. ASSUME NEW x \in Media, x # m PROVE Same(x) BY <1>1, <1>3 DEF IInv, TypeOK, Same
<1>4. MediumInv(m)'
  <2> USE <1>1 DEF IInv, TypeOK, MediumInv
  <2>1. InOrder(m)' BY DEF InOrder
  <2>2. OriginalIsRemoved(m)' BY DEF OriginalIsRemoved
  <2>3. FileIsAccountedFor(m)'
    <3>1. m \notin file' \/ "remove" \in failed'[m] OBVIOUS
    <3> QED BY <3>1 DEF FileIsAccountedFor
  <2>4. PromiseIsKept(m)' BY DEF PromiseIsKept
  <2> QED BY <2>1, <2>2, <2>3, <2>4
<1> QED BY <1>2, <1>3, <1>4, Elsewhere DEF IInv

LEMMA KeptIInv == ASSUME IInv, NEW m \in Media, RelayKept(m) \/ Relayed(m) PROVE IInv'
<1> USE DEF IInv, RelayKept, Relayed, At, Goto, Tell, diskVars, backendVars, sessionVars, outsideVars
<1>1. TypeOK' BY DEF TypeOK, HandlerStates
<1>2. ASSUME NEW x \in Media, x # m PROVE Same(x) BY <1>2 DEF TypeOK, Same
<1>3. MediumInv(m)'
  <2>1. InOrder(m)' BY DEF TypeOK, MediumInv, InOrder
  <2>2. OriginalIsRemoved(m)' BY DEF TypeOK, MediumInv, OriginalIsRemoved
  <2>3. FileIsAccountedFor(m)' BY DEF TypeOK, MediumInv, InOrder, FileIsAccountedFor
  <2>4. PromiseIsKept(m)' BY DEF TypeOK, MediumInv, InOrder, PromiseIsKept
  <2> QED BY <2>1, <2>2, <2>3, <2>4 DEF MediumInv
<1> QED BY <1>1, <1>2, <1>3, Elsewhere

LEMMA SendIInv == ASSUME IInv, NEW m \in Media, Send(m) PROVE IInv'
<1> USE DEF IInv, Send, At, Goto, Failing, backendVars, sessionVars
<1>1. TypeOK' BY DEF TypeOK, HandlerStates
<1>2. ASSUME NEW x \in Media, x # m PROVE Same(x) BY <1>2 DEF TypeOK, Same
<1>3. MediumInv(m)'
  <2>1. InOrder(m)' BY DEF TypeOK, MediumInv, InOrder
  <2>2. OriginalIsRemoved(m)' BY DEF TypeOK, MediumInv, OriginalIsRemoved
  <2>3. FileIsAccountedFor(m)' BY DEF TypeOK, MediumInv, InOrder, FileIsAccountedFor
  <2>4. PromiseIsKept(m)' BY DEF TypeOK, MediumInv, InOrder, PromiseIsKept
  <2> QED BY <2>1, <2>2, <2>3, <2>4 DEF MediumInv
<1> QED BY <1>1, <1>2, <1>3, Elsewhere

LEMMA RemoveSentIInv == ASSUME IInv, NEW m \in Media, RemoveSent(m) PROVE IInv'
<1> USE DEF IInv, RemoveSent, RemoveFile, At, Goto, Failing, backendVars, sessionVars, outsideVars
<1>1. TypeOK' BY DEF TypeOK, HandlerStates
<1>2. ASSUME NEW x \in Media, x # m PROVE Same(x) BY <1>2 DEF TypeOK, Same
<1>3. MediumInv(m)'
  <2>1. InOrder(m)' BY DEF TypeOK, MediumInv, InOrder
  <2>2. OriginalIsRemoved(m)' BY DEF TypeOK, MediumInv, OriginalIsRemoved
  <2>3. FileIsAccountedFor(m)'
    <3>1. m \notin file' \/ "remove" \in failed'[m] BY DEF TypeOK
    <3> QED BY <3>1 DEF FileIsAccountedFor
  <2>4. PromiseIsKept(m)' BY DEF TypeOK, MediumInv, InOrder, PromiseIsKept
  <2> QED BY <2>1, <2>2, <2>3, <2>4 DEF MediumInv
<1> QED BY <1>1, <1>2, <1>3, Elsewhere

(* The death of the bot excuses what it leaves behind, and harms nothing that
   was over before. *)
LEMMA CrashIInv == IInv /\ Crash => IInv'
<1> SUFFICES ASSUME IInv, Crash PROVE IInv' OBVIOUS
<1> USE DEF IInv, Crash, At, Ended, diskVars, backendVars, sessionVars, outsideVars
<1>1. TypeOK' BY DEF TypeOK, HandlerStates
<1>2. ASSUME NEW x \in Media PROVE MediumInv(x)'
  <2>1. /\ UNCHANGED <<original, file, failed, request, reply, row, delivered, told>>
        /\ handler'[x] = handler[x] \/ (handler'[x] = "killed" /\ handler[x] # "ended")
    OBVIOUS
  <2>2. MediumInv(x) OBVIOUS
  <2> HIDE DEF Crash, IInv
  <2> QED
    BY <2>1, <2>2 DEF MediumInv, InOrder, OriginalIsRemoved, FileIsAccountedFor, PromiseIsKept
<1> QED BY <1>1, <1>2

(* Operators change sessions; for the media nothing happens. *)
LEMMA OperatorsIInv ==
  ASSUME IInv, ChangeSession \/ UNCHANGED vars
  PROVE  IInv'
<1>1. UNCHANGED <<handler, original, file, failed, request, reply, recipient, row, delivered, told>>
  BY DEF ChangeSession, vars, diskVars, backendVars, sessionVars, outsideVars
<1>2. TypeOK'
  <2>1. active' \in BOOLEAN /\ bound' \in BOOLEAN
    <3>1. CASE ChangeSession BY <3>1, Zenon DEF ChangeSession, IInv, TypeOK
    <3>2. CASE UNCHANGED vars BY <3>2 DEF vars, sessionVars, IInv, TypeOK
    <3> QED BY <3>1, <3>2
  <2>2. changes' \in 0..MaxChanges
    BY MediaRelayAssumption DEF ChangeSession, vars, sessionVars, IInv, TypeOK
  <2> QED BY <1>1, <2>1, <2>2 DEF IInv, TypeOK
<1> QED BY <1>1, <1>2, Elsewhere DEF IInv, Same

LEMMA NextIInv == IInv /\ [Next]_vars => IInv'
BY HandleIInv, DownloadsIInv, DownloadFailsIInv, StripMetadataIInv, RemoveOriginalIInv,
   RelayMessageIInv, CheckSessionIInv, InsertMessageIInv, AnswerLateIInv, GiveUpIInv, KeptIInv,
   SendIInv, RemoveSentIInv, CrashIInv, OperatorsIInv
DEF Next, BotStep, BackendStep

-------------------------------------------------------------------------------
(* The invariant of the relay of media. *)
THEOREM MediaInvariant == Spec => []IInv
BY InitIInv, NextIInv, PTL DEF Spec

(* TypeOK: the states of the handlers (photo.go, voice.go) and of their relays
   (messages.go), and originals are photos. *)
THEOREM MediaTypeOK == Spec => []TypeOK
<1>1. IInv => TypeOK BY DEF IInv
<1> QED BY <1>1, MediaInvariant, PTL

(* OriginalsAreRemoved: no original with its metadata outlives the handler that
   downloaded it, but for a broken download, a refused removal or the death of
   the bot (photo.go). *)
THEOREM MediaOriginalsAreRemoved == Spec => []OriginalsAreRemoved
<1>1. IInv => OriginalsAreRemoved
  BY DEF IInv, TypeOK, MediumInv, OriginalIsRemoved, OriginalsAreRemoved, Media
<1> QED BY <1>1, MediaInvariant, PTL

(* FilesAreAccountedFor: a handler that is over leaves only files that a row leads
   to, however its relay ended, and of a delivered message only if the answer to
   the send was lost (photo.go, voice.go). *)
THEOREM MediaFilesAreAccountedFor == Spec => []FilesAreAccountedFor
<1>1. IInv => FilesAreAccountedFor
  BY DEF IInv, TypeOK, MediumInv, FileIsAccountedFor, FilesAreAccountedFor
<1> QED BY <1>1, MediaInvariant, PTL

(* PromisedIsKept: the message of a sender who was told it would be delivered
   later is stored and its file kept (messages.go, photo.go). *)
THEOREM MediaPromisedIsKept == Spec => []PromisedIsKept
<1>1. IInv => PromisedIsKept BY DEF IInv, MediumInv, PromiseIsKept, PromisedIsKept
<1> QED BY <1>1, MediaInvariant, PTL
=============================================================================
