------------------------------ MODULE VoiceBridge ------------------------------
(***************************************************************************)
(* The Telegram voice bridge: it polls for updates, transcribes voice      *)
(* messages and stores each transcript in the brain.  Where it got to is   *)
(* an offset, kept in memory per update and on disk per batch.             *)
(***************************************************************************)
EXTENDS Integers, Sequences

CONSTANTS
  Last,        \* updates are numbered 1..Last (update_id)
  Voice,       \* those that hold a voice message of the bridge's chat
  Silent,      \* voice messages the transcriber finds no text in
  Batch,       \* most updates one getUpdates returns
  MaxFaults, MaxCrashes

BridgeAssumption ==
  /\ Last \in Nat /\ Voice \subseteq 1..Last /\ Silent \subseteq Voice
  /\ Batch \in Nat \ {0} /\ MaxFaults \in Nat /\ MaxCrashes \in Nat

VARIABLES
  arrived,      \* updates sent so far
  forgotten,    \* Telegram no longer holds updates up to this one
  offset, rows, \* the bridge's memory: state.offset, and the batch left to handle
  pc,           \* "poll" | "handle" | "observe" | "ack" | "save" | "down"
  file,         \* the state file: an offset, or -1 when missing or unreadable
  stored,       \* how often each transcript was observed in the brain
  faults, crashes

bridge == <<offset, rows, pc>>
vars   == <<arrived, forgotten, bridge, file, stored, faults, crashes>>

TypeOK ==
  /\ arrived \in 0..Last /\ forgotten \in 0..Last
  /\ offset \in 0..Last /\ rows \in Seq(1..Last) /\ Len(rows) <= Batch
  /\ pc \in {"poll", "handle", "observe", "ack", "save", "down"}
  /\ file \in -1..Last /\ stored \in [Voice -> Nat]
  /\ faults \in 0..MaxFaults /\ crashes \in 0..MaxCrashes

Init ==
  /\ arrived = 0 /\ forgotten = 0
  /\ offset = 0 /\ rows = <<>> /\ pc = "poll" /\ file = -1
  /\ stored = [u \in Voice |-> 0] /\ faults = 0 /\ crashes = 0

\* A tick's catch: the rest of the batch is dropped, the offset stays.
Tick == pc' = "poll" /\ rows' = <<>> /\ UNCHANGED offset
Fault == faults < MaxFaults /\ faults' = faults + 1

Arrive ==
  /\ arrived < Last /\ arrived' = arrived + 1
  /\ UNCHANGED <<forgotten, bridge, file, stored, faults, crashes>>

\* (Slip: every poll confirms what it returns.)
Confirms_All(top) == top
\* What a getUpdates confirms: with an offset, everything before it.
Confirms(top) == IF offset > 0 THEN offset ELSE forgotten

\* The update the answer starts behind.
After == IF offset > forgotten THEN offset ELSE forgotten

\* Telegram drops what is confirmed and returns the oldest it still holds.
Poll ==
  /\ pc = "poll"
  /\ LET top == IF arrived < After + Batch THEN arrived ELSE After + Batch
     IN /\ After < arrived
        /\ rows' = [i \in 1..(top - After) |-> After + i]
        /\ forgotten' = IF Confirms(top) > forgotten THEN Confirms(top) ELSE forgotten
  /\ pc' = "handle"
  /\ UNCHANGED <<arrived, offset, file, stored, faults, crashes>>
PollFails == pc = "poll" /\ Fault /\ UNCHANGED <<arrived, forgotten, bridge, file, stored, crashes>>

\* A row is done: the offset follows it, and the batch goes on or is saved.
Advance ==
  /\ offset' = IF offset > Head(rows) THEN offset ELSE Head(rows)
  /\ rows' = Tail(rows)
  /\ pc' = IF Tail(rows) = <<>> THEN "save" ELSE "handle"

Skip ==
  /\ pc = "handle" /\ Head(rows) \notin Voice /\ Advance
  /\ UNCHANGED <<arrived, forgotten, file, stored, faults, crashes>>
\* getFile, the download and the transcription.
Transcribe ==
  /\ pc = "handle" /\ Head(rows) \in Voice
  /\ \/ /\ Head(rows) \notin Silent /\ pc' = "observe" /\ UNCHANGED <<offset, rows, faults>>
     \/ Head(rows) \in Silent /\ Tick /\ UNCHANGED faults
     \/ Fault /\ Tick
  /\ UNCHANGED <<arrived, forgotten, file, stored, crashes>>
\* mind_observe; its answer may be lost after it was stored.
Observe ==
  /\ pc = "observe"
  /\ \/ /\ stored' = [stored EXCEPT ![Head(rows)] = @ + 1]
        /\ pc' = "ack" /\ UNCHANGED <<offset, rows, faults>>
     \/ /\ Fault /\ Tick
        /\ stored' \in {stored, [stored EXCEPT ![Head(rows)] = @ + 1]}
  /\ UNCHANGED <<arrived, forgotten, file, crashes>>
\* The acknowledgement in the chat; without it the update is not done.
Ack ==
  /\ pc = "ack"
  /\ \/ Advance /\ UNCHANGED faults
     \/ Fault /\ Tick
  /\ UNCHANGED <<arrived, forgotten, file, stored, crashes>>
Save ==
  /\ pc = "save" /\ pc' = "poll"
  /\ \/ file' = offset /\ UNCHANGED faults
     \/ Fault /\ UNCHANGED file
  /\ UNCHANGED <<arrived, forgotten, offset, rows, stored, crashes>>

\* The process ends, perhaps in the middle of writing the file.
Crash ==
  /\ pc # "down" /\ crashes < MaxCrashes /\ crashes' = crashes + 1
  /\ pc' = "down" /\ rows' = <<>>
  /\ file' \in IF pc = "save" THEN {file, -1} ELSE {file}
  /\ UNCHANGED <<arrived, forgotten, offset, stored, faults>>
\* (Slip: an unreadable file is taken for one that has seen everything.)
Loaded_Latest == IF file >= 0 THEN file ELSE arrived
\* loadState.
Loaded == IF file >= 0 THEN file ELSE 0
Restart ==
  /\ pc = "down" /\ pc' = "poll" /\ offset' = Loaded
  /\ UNCHANGED <<arrived, forgotten, rows, file, stored, faults, crashes>>

Bridge == Poll \/ PollFails \/ Skip \/ Transcribe \/ Observe \/ Ack \/ Save \/ Restart
Next == Arrive \/ Bridge \/ Crash
Spec == Init /\ [][Next]_vars
\* The loop never ends and every call answers or times out; people keep sending.
FairSpec == Spec /\ WF_vars(Bridge) /\ WF_vars(Arrive)

------------------------------------------------------------------------------
\* Properties.

\* What Telegram has dropped was stored: nothing said to the bridge is lost.
NothingLost == \A u \in Voice : u <= forgotten => stored[u] > 0

\* The brain hears the messages in the order they were sent.
StoredInOrder == \A u, v \in Voice : u < v /\ stored[v] > 0 => stored[u] > 0

\* A transcript is stored again only for a failed call or a crash.
RepeatsExplained == \A u \in Voice : stored[u] <= 1 + faults + crashes

\* Every voice message is stored in the end.
VoiceStored == \A u \in Voice : <>(stored[u] > 0)

\* Every voice message with something in it is stored in the end.
SpokenStored == \A u \in Voice \ Silent : <>(stored[u] > 0)
==============================================================================
