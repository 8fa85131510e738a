------------------------------ MODULE MapPins -------------------------------
(***************************************************************************)
(* Map pins (server.py, _handle_map_pin, and the tools add_pin, remove_pin *)
(* and clear_pins of tools/actions.py).                                    *)
(*                                                                         *)
(* The bridge remembers which pins each survivor has put on the map, and   *)
(* tells the game about each change.  A call may take several sends, all   *)
(* under _pin_lock.  A send that fails may have arrived; one that succeeds *)
(* may be lost, on a socket nobody reads any more; and the call may be cut *)
(* off (the tool's timeout, the turn's) while it waits for a send.         *)
(*                                                                         *)
(* Labels and places are left out, and so are calls without a requester:   *)
(* every turn has one.                                                     *)
(***************************************************************************)
EXTENDS Naturals, FiniteSets, FiniteSetsExt

CONSTANTS
  Survivors,
  Calls,        \* bound: tool calls, each made once
  NoCall,
  MaxPins       \* bound: pins ever added

ASSUME PinsAssumption == NoCall \notin Calls /\ MaxPins \in Nat \ {0} /\ Survivors # {}

VARIABLES
  mapPins,      \* _map_pins: survivor -> ids of their pins
  pinCounter,   \* _pin_counter
  pinLock,      \* the call that holds _pin_lock
  call,         \* call -> [op, owner, pin], pin being the id it asks to remove
  at,           \* call -> where it is
  todo,         \* ids the call in the lock has yet to send, one at a time
  game,         \* pins on the map: [id, owner, by], by being the call that added it
  unsure        \* history: ids of which a frame failed, was lost or was cut off

pinVars == <<mapPins, pinCounter, pinLock, call, at, todo, game, unsure>>

Ids == 1 .. MaxPins
PinRequests == [op : {"add", "remove", "clear"}, owner : Survivors, pin : Ids]

PinsInit ==
  /\ mapPins = [o \in Survivors |-> {}] /\ pinCounter = 0
  /\ pinLock = NoCall /\ todo = {}
  /\ call = [c \in Calls |-> CHOOSE r \in PinRequests : TRUE]   \* nothing yet
  /\ at = [c \in Calls |-> "none"]
  /\ game = {} /\ unsure = {}

Owned(c) == mapPins[call[c].owner]

\* Only remove_pin is given an id.
Comes(c, r) ==
  /\ at[c] = "none" /\ (r.op # "remove" => r.pin = 1)
  /\ at' = [at EXCEPT ![c] = "queued"]
  /\ call' = [call EXCEPT ![c] = r]
  /\ UNCHANGED <<mapPins, pinCounter, pinLock, todo, game, unsure>>

Enters(c, op) ==
  /\ at[c] = "queued" /\ pinLock = NoCall /\ call[c].op = op
  /\ pinLock' = c /\ at' = [at EXCEPT ![c] = "sending"]

Leaves(c) ==
  /\ pinLock' = NoCall /\ todo' = {}
  /\ at' = [at EXCEPT ![c] = "done"]

\* The counter moves on whatever becomes of the send.
Adds(c) ==
  /\ Enters(c, "add") /\ pinCounter < MaxPins
  /\ pinCounter' = pinCounter + 1
  /\ todo' = {pinCounter'}
  /\ UNCHANGED <<mapPins, call, game, unsure>>

\* Only the creator's own pins.
MayRemove(c) == call[c].pin \in Owned(c)

Removes(c) ==
  /\ Enters(c, "remove") /\ MayRemove(c)
  /\ todo' = {call[c].pin}
  /\ UNCHANGED <<mapPins, pinCounter, call, game, unsure>>

RemovesNothing(c) ==
  /\ at[c] = "queued" /\ pinLock = NoCall /\ call[c].op = "remove" /\ ~ MayRemove(c)
  /\ at' = [at EXCEPT ![c] = "done"]
  /\ UNCHANGED <<mapPins, pinCounter, pinLock, call, todo, game, unsure>>

\* Mutant of Clears: the registry is emptied at once.
ClearsAtOnce(c) ==
  /\ Enters(c, "clear")
  /\ todo' = Owned(c)
  /\ mapPins' = [mapPins EXCEPT ![call[c].owner] = {}]
  /\ UNCHANGED <<pinCounter, call, game, unsure>>

Clears(c) ==
  /\ Enters(c, "clear")
  /\ todo' = Owned(c)
  /\ UNCHANGED <<mapPins, pinCounter, call, game, unsure>>

\* The pin whose frame is being sent: a dict is in order of insertion.
Current == Min(todo)

\* The mod carries out a frame.
Shown(c) ==
  IF call[c].op = "add" THEN game \cup {[id |-> Current, owner |-> call[c].owner, by |-> c]}
  ELSE {p \in game : p.id # Current}

\* The registry follows each frame that is out.
Sends(c, arrives) ==
  /\ pinLock = c /\ todo # {}
  /\ mapPins' = [mapPins EXCEPT ![call[c].owner] =
                   IF call[c].op = "add" THEN @ \cup {Current} ELSE @ \ {Current}]
  /\ game' = IF arrives THEN Shown(c) ELSE game
  /\ unsure' = IF arrives THEN unsure ELSE unsure \cup {Current}
  /\ todo' = todo \ {Current}
  /\ UNCHANGED <<pinCounter, pinLock, call, at>>

\* An exception, or a cancellation: what is registered stays, and so does the rest.
SendBreaks(c, arrives) ==
  /\ pinLock = c /\ todo # {}
  /\ game' = IF arrives THEN Shown(c) ELSE game
  /\ unsure' = unsure \cup {Current}
  /\ Leaves(c)
  /\ UNCHANGED <<mapPins, pinCounter, call>>

Returns(c) ==
  /\ pinLock = c /\ todo = {}
  /\ Leaves(c)
  /\ UNCHANGED <<mapPins, pinCounter, call, game, unsure>>

PinsNext ==
  \E c \in Calls :
    \/ \E r \in PinRequests : Comes(c, r)
    \/ Adds(c) \/ Removes(c) \/ RemovesNothing(c) \/ Clears(c) \/ Returns(c)
    \/ \E arrives \in BOOLEAN : Sends(c, arrives) \/ SendBreaks(c, arrives)

PinsSpec == PinsInit /\ [][PinsNext]_pinVars

-----------------------------------------------------------------------------
(* Properties *)

PinsTypeOK ==
  /\ mapPins \in [Survivors -> SUBSET Ids] /\ pinCounter \in 0 .. MaxPins
  /\ pinLock \in Calls \cup {NoCall} /\ call \in [Calls -> PinRequests]
  /\ at \in [Calls -> {"none", "queued", "sending", "done"}]
  /\ todo \subseteq Ids /\ unsure \subseteq Ids
  /\ game \subseteq [id : Ids, owner : Survivors, by : Calls]

\* An id never stands for two pins, not even after a failed send (M4), and map and
\* registry agree on whose pins there are, also half way through a clear, except for
\* pins of which a frame failed or was lost: nobody's pin is taken by another one.
PinsAgree ==
  /\ \A p, q \in game : p.id = q.id => p = q
  /\ \A o \in Survivors : mapPins[o] \ unsure = {p.id : p \in {q \in game : q.owner = o}} \ unsure
=============================================================================
