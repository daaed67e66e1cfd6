--------------------------- MODULE PortfolioStore ---------------------------
(***************************************************************************)
(* What portfolio-api keeps besides orders and decisions: the latest       *)
(* snapshots, the watchlist, the alert settings with their history, and    *)
(* the switches of the Lab (internal_handler.go, followed_handlers.go,     *)
(* lab_handlers.go and their tables).                                      *)
(*                                                                         *)
(* A handler is a sequence of statements, each its own transaction, and    *)
(* handlers run side by side; one stops at a statement that fails.  The    *)
(* process may crash: then every handler stops where it is, and the next   *)
(* process starts with a synchronization of its own.  Ingest posts         *)
(* snapshots, a second time if no good answer comes in time to the first,  *)
(* which may still be under way then.                                      *)
(***************************************************************************)
EXTENDS Integers, Sequences, FiniteSets, FiniteSetsExt

CONSTANTS
  Calls,        (* calls, each made at most once                            *)
  Symbols, Btc, (* products; the benchmark                                  *)
  Holdings,     (* what the account may hold: sequences of symbols          *)
  Settings,     (* alert settings a user may save                           *)
  Kept,         (* what signal_settings holds of those its columns accept   *)
  FirstSettings,(* the row that comes with the schema                       *)
  Requests,     (* kinds of calls users make                                *)
  None,
  MaxMinute, MaxFaults    (* bounds of the model                            *)

Fits    == DOMAIN Kept
Sources == {"manual", "holding", "benchmark"}
SettingsKinds == {"save", "revert"}
ControlKinds  == {"pause", "resume", "reset"}
Kinds == {"add", "remove", "snapshot", "startup"} \cup SettingsKinds \cup ControlKinds

ASSUME StoreAssumption ==
    /\ Btc \in Symbols /\ None \notin Symbols \cup Sources \cup Calls \cup Kinds
    /\ Holdings \subseteq Seq(Symbols)
    /\ Fits \subseteq Settings
    /\ MaxMinute \in Nat /\ MaxFaults \in Nat
    /\ Requests \subseteq Kinds \ {"snapshot", "startup"}

VARIABLES
  minute,      (* the clock                                                 *)
  snapshots,   (* table snapshots: per minute, what was held                *)
  followed,    (* table followed_symbols: the source of each symbol         *)
  active,      (* table signal_settings                                     *)
  versions,    (* table signal_settings_versions; the index is the id       *)
  control,     (* table lab_control_state                                   *)
  call,        (* of each call: what it is, what is left of it, its answer  *)
  ingest,      (* the snapshot ingest is posting, and with which call       *)
  faults
tables == <<snapshots, followed, active, versions, control>>
vars   == <<minute, tables, call, ingest, faults>>

Fault == faults < MaxFaults /\ faults' = faults + 1
NoFault == UNCHANGED faults
----------------------------------------------------------------------------
(* Statements. *)

Follow(x, source) == [do |-> "follow", symbol |-> x, source |-> source]
Unfollow(x)       == [do |-> "unfollow", symbol |-> x]
Put(snap)         == [do |-> "put", snap |-> snap]
AddVersion(v)     == [do |-> "version", settings |-> v]
Activate(v)       == [do |-> "activate", settings |-> v]
ReadControl       == [do |-> "read"]
WriteControl      == [do |-> "write"]

SyncFollowed_OnlyIfHeld(held) ==
    [i \in DOMAIN held |-> Follow(held[i], "holding")]
        \o (IF Btc \in {held[i] : i \in DOMAIN held} THEN <<Follow(Btc, "benchmark")>> ELSE <<>>)
SyncFollowed_StopsAtBtc(held) ==
    IF Btc \in {held[i] : i \in DOMAIN held} THEN <<Follow(Btc, "benchmark")>>
    ELSE [i \in DOMAIN held |-> Follow(held[i], "holding")] \o <<Follow(Btc, "benchmark")>>
(* syncFollowedSymbolsFromPositions: BTC last. *)
SyncFollowed(held) ==
    [i \in DOMAIN held |-> Follow(held[i], "holding")] \o <<Follow(Btc, "benchmark")>>

Save_ActiveFirst(v) == <<Activate(v), AddVersion(v)>>
(* handleAlertSettingsUpdate and RevertSignalSettings. *)
Save(v) == <<AddVersion(v), Activate(v)>>

(* The handlers: what a request makes portfolio-api do. *)
Statements(req) ==
    CASE req.kind = "add"      -> <<Follow(req.symbol, "manual")>>
      [] req.kind = "remove"   -> <<Unfollow(req.symbol)>>
      [] req.kind = "snapshot" -> <<Put(req.snap)>> \o SyncFollowed(req.snap.held)
      [] req.kind = "startup"  -> SyncFollowed(req.held)
      [] req.kind = "save"     -> Save(req.settings)
      [] req.kind = "revert"   -> Save(versions[req.id])
      [] OTHER                 -> <<ReadControl, WriteControl>>

(* decodeFollowedSymbolRequest, decodeSignalSettingsRequest and the like   *)
(* refuse all other requests before any statement.                         *)
UserRequests ==
    {[kind |-> k, symbol |-> x] : k \in Requests \cap {"add", "remove"}, x \in Symbols}
    \cup {[kind |-> k, settings |-> v] : k \in Requests \cap {"save"}, v \in Settings}
    \cup {[kind |-> k, id |-> i] : k \in Requests \cap {"revert"}, i \in DOMAIN versions}
    \cup {[kind |-> k] : k \in Requests \cap ControlKinds}

NoRequest == [kind |-> None]
(* Two fields are kept for the properties: after, the calls that had ended *)
(* before this one began, and cut, whether it was stopped before its end.  *)
Unused    == [req |-> NoRequest, todo |-> <<>>, read |-> None, answer |-> None,
              after |-> {}, cut |-> FALSE]

Open(c)   == call[c].todo # <<>>
OpenCalls == {c \in Calls : Open(c)}
MadeCalls == {c \in Calls : call[c].req # NoRequest}
EndedCalls == MadeCalls \ OpenCalls

Began(req, after) ==
    [Unused EXCEPT !.req = req, !.todo = Statements(req), !.after = after]

(* Nothing is served during the synchronization of a new process. *)
Begin(c, req) ==
    /\ call[c] = Unused
    /\ \A d \in OpenCalls : call[d].req.kind # "startup"
    /\ call' = [call EXCEPT ![c] = Began(req, EndedCalls)]

UserCall(c) ==
    /\ \E req \in UserRequests : Begin(c, req)
    /\ UNCHANGED <<minute, tables, ingest, faults>>

(* A statement is done, the last one answers the call. *)
Done(c, read) ==
    call' = [call EXCEPT ![c].todo = Tail(@), ![c].read = read,
                         ![c].answer = IF Len(call[c].todo) = 1 THEN "ok" ELSE None]

Does(c, what) == Open(c) /\ Head(call[c].todo).do = what

PutSnapshot(c) ==
    /\ Does(c, "put") /\ Done(c, None)
    /\ LET snap == Head(call[c].todo).snap
       IN  snapshots' = [snapshots EXCEPT ![snap.minute] = snap.held]
    /\ UNCHANGED <<minute, followed, active, versions, control, ingest, faults>>

(* UpsertFollowedSymbol: the last source to come is kept. *)
UpsertFollowed(c) ==
    /\ Does(c, "follow") /\ Done(c, None)
    /\ LET s == Head(call[c].todo)
       IN  followed' = [followed EXCEPT ![s.symbol] = s.source]
    /\ UNCHANGED <<minute, snapshots, active, versions, control, ingest, faults>>

RemoveFollowed(c) ==
    /\ Does(c, "unfollow") /\ Done(c, None)
    /\ followed' = [followed EXCEPT ![Head(call[c].todo).symbol] = None]
    /\ UNCHANGED <<minute, snapshots, active, versions, control, ingest, faults>>

InsertVersion(c) ==
    /\ Does(c, "version") /\ Done(c, None)
    /\ versions' = Append(versions, Head(call[c].todo).settings)
    /\ UNCHANGED <<minute, snapshots, followed, active, control, ingest, faults>>

Stop_GoesOn(c, answer) == call' = [call EXCEPT ![c].answer = answer]
(* A handler returns with the first error. *)
Stop(c, answer) ==
    call' = [call EXCEPT ![c].todo = <<>>, ![c].answer = answer, ![c].cut = TRUE]

UpdateSettings_DoNothing(c) ==
    /\ Does(c, "activate") /\ Done(c, None)
    /\ UNCHANGED <<minute, tables, ingest, faults>>
(* The versions take any duration Go can read; the columns of the active   *)
(* row, an interval and a short decimal, do not.                           *)
UpdateSettings(c) ==
    /\ Does(c, "activate")
    /\ LET v == Head(call[c].todo).settings
       IN  \/ v \in Fits /\ active' = Kept[v] /\ Done(c, None)
           \/ v \notin Fits /\ UNCHANGED active /\ Stop(c, "error")
    /\ UNCHANGED <<minute, snapshots, followed, versions, control, ingest, faults>>

GetControl(c) ==
    /\ Does(c, "read") /\ Done(c, control)
    /\ UNCHANGED <<minute, tables, ingest, faults>>

Mutate_Fresh(kind, state) ==
    CASE kind = "pause"  -> [paused |-> TRUE, circuit |-> FALSE]
      [] kind = "resume" -> [paused |-> FALSE, circuit |-> state.circuit]
      [] kind = "reset"  -> [paused |-> FALSE, circuit |-> FALSE]
(* The changes of handleLabOpenClawPause, ...Resume and ...CircuitReset. *)
Mutate(kind, state) ==
    CASE kind = "pause"  -> [state EXCEPT !.paused = TRUE]
      [] kind = "resume" -> [state EXCEPT !.paused = FALSE]
      [] kind = "reset"  -> [state EXCEPT !.circuit = FALSE]

(* updateLabControl writes the whole row, from what it has read. *)
UpdateControl(c) ==
    /\ Does(c, "write") /\ Done(c, None)
    /\ control' = Mutate(call[c].req.kind, call[c].read)
    /\ UNCHANGED <<minute, snapshots, followed, active, versions, ingest, faults>>

(* Ingest waits for this call no more: its connection is closed, which     *)
(* cancels the statements of the handler.                                  *)
Abandoned(c) == call[c].req.kind = "snapshot" /\ ingest.call # c

(* A failing synchronization is only logged. *)
StatementFails(c) ==
    /\ Open(c)
    /\ Fault \/ (Abandoned(c) /\ NoFault)
    /\ Stop(c, IF Does(c, "follow") /\ call[c].req.kind = "snapshot" THEN "ok" ELSE "error")
    /\ UNCHANGED <<minute, tables, ingest>>
----------------------------------------------------------------------------
(* Ingest: Runner.tick and PostSnapshotRetry. *)

NotPosting == [snap |-> None, call |-> None, again |-> FALSE]

PostSnapshot(c, held) ==
    /\ ingest.call = None
    /\ LET snap == [minute |-> minute, held |-> held]
       IN  /\ Begin(c, [kind |-> "snapshot", snap |-> snap])
           /\ ingest' = [snap |-> snap, call |-> c, again |-> TRUE]
    /\ UNCHANGED <<minute, tables, faults>>

(* An error, no answer in time, or an answer that was lost: once more. *)
PostAgain(c) ==
    /\ ingest.again
    /\ Begin(c, [kind |-> "snapshot", snap |-> ingest.snap])
    /\ ingest' = [ingest EXCEPT !.call = c, !.again = FALSE]
    /\ UNCHANGED <<minute, tables, faults>>

EndPost ==
    /\ ingest.call # None
    /\ call[ingest.call].answer = "ok" \/ ~ingest.again
    /\ ingest' = NotPosting
    /\ UNCHANGED <<minute, tables, call, faults>>

Advance ==
    /\ minute < MaxMinute
    /\ minute' = minute + 1
    /\ UNCHANGED <<tables, call, ingest, faults>>
----------------------------------------------------------------------------
Minutes == 0..MaxMinute
Posted  == {m \in Minutes : snapshots[m] # None}
LatestHeld == snapshots[Max(Posted)]

(* The process crashes, and the next one synchronizes the watchlist with   *)
(* the latest snapshot before it serves.                                   *)
Restart(c) ==
    /\ Fault
    /\ call[c] = Unused
    /\ LET stopped == [d \in Calls |->
              IF Open(d) THEN [call[d] EXCEPT !.todo = <<>>, !.answer = "error", !.cut = TRUE]
              ELSE call[d]]
           startup == Began([kind |-> "startup", held |-> LatestHeld], MadeCalls)
       IN  call' = IF Posted = {} THEN stopped ELSE [stopped EXCEPT ![c] = startup]
    /\ UNCHANGED <<minute, tables, ingest>>

Init ==
    /\ minute = 0
    /\ snapshots = [m \in Minutes |-> None]
    /\ followed = [x \in Symbols |-> None]
    /\ active = FirstSettings /\ versions = <<>>
    /\ control \in [paused : {FALSE}, circuit : BOOLEAN]
    /\ call = [c \in Calls |-> Unused]
    /\ ingest = NotPosting
    /\ faults = 0

Statement(c) == \/ PutSnapshot(c) \/ UpsertFollowed(c) \/ RemoveFollowed(c)
                \/ InsertVersion(c) \/ UpdateSettings(c)
                \/ GetControl(c) \/ UpdateControl(c)
                \/ StatementFails(c)

Next == \/ \E c \in Calls : UserCall(c) \/ Statement(c) \/ PostAgain(c) \/ Restart(c)
        \/ \E c \in Calls, held \in Holdings : PostSnapshot(c, held)
        \/ EndPost \/ Advance

Spec == Init /\ [][Next]_vars
----------------------------------------------------------------------------
TypeOK ==
    /\ minute \in Minutes /\ faults \in 0..MaxFaults
    /\ snapshots \in [Minutes -> Holdings \cup {None}]
    /\ followed \in [Symbols -> Sources \cup {None}]
    /\ active \in {FirstSettings} \cup {Kept[v] : v \in Fits}
    /\ versions \in Seq(Settings)
    /\ control \in [paused : BOOLEAN, circuit : BOOLEAN]
    /\ \A c \in Calls : /\ call[c].answer \in {None, "ok", "error"}
                        /\ call[c].after \subseteq Calls \ {c}
                        /\ call[c].cut \in BOOLEAN
                        /\ Open(c) => call[c].answer = None
    /\ ingest.call \in Calls \cup {None}

Quiet == OpenCalls = {}
Made(kinds) == {c \in Calls : call[c].req.kind \in kinds}

(* One of two calls had ended before the other began. *)
Apart(c, d)   == c \in call[d].after \/ d \in call[c].after
InTurn(kinds) == \A c, d \in Made(kinds) : c = d \/ Apart(c, d)

(* Synchronizations of the watchlist with what is held. *)
Syncs   == Made({"snapshot", "startup"})
Held(c) == IF call[c].req.kind = "startup" THEN call[c].req.held ELSE call[c].req.snap.held
Complete(c) == ~Open(c) /\ ~call[c].cut

(* Whatever the synchronizations of several snapshots, of one posted twice *)
(* and of new processes interleave in: what one of them has held that came *)
(* to its end is followed, unless somebody has removed it since it began   *)
(* (handleInternalSnapshot, syncFollowedSymbolsFromPositions).             *)
HoldingsAreFollowed ==
    \A c \in Syncs : Complete(c) =>
        \A i \in DOMAIN Held(c) :
            \/ followed[Held(c)[i]] # None
            \/ \E d \in Made({"remove"}) \ call[c].after : call[d].req.symbol = Held(c)[i]

(* BTC-USD stays the benchmark even when held, whatever synchronizations   *)
(* interleave in: only one that was cut short, by a failure, a crash or    *)
(* ingest's timeout, leaves it a holding, and only until another comes to  *)
(* its end that began after that (syncFollowedSymbolsFromPositions).       *)
BtcStaysBenchmark ==
    Quiet /\ followed[Btc] = "holding" =>
        \E c \in Syncs : /\ call[c].cut
                         /\ \A d \in Syncs : Complete(d) => c \notin call[d].after

(* The signals service never sees settings that the history does not know: *)
(* whatever fails or crashes, a version is there before it is active, and  *)
(* one that does not fit leaves the ones before it active.                 *)
ActiveIsInHistory ==
    active # FirstSettings =>
        \E i \in DOMAIN versions : versions[i] \in Fits /\ Kept[versions[i]] = active

(* Saved and reverted one after another, without a failure, the latest     *)
(* version that fits is active (handleAlertSettingsUpdate,                 *)
(* RevertSignalSettings).                                                  *)
HistoryEndsActive ==
    Quiet /\ faults = 0 /\ InTurn(SettingsKinds) =>
        LET fitting == {i \in DOMAIN versions : versions[i] \in Fits}
        IN  fitting # {} => active = Kept[versions[Max(fitting)]]

(* Only a call to resume ends a pause of the Lab, and only one to reset    *)
(* closes its circuit, unless two of the calls that change these overlap   *)
(* (updateLabControl).                                                     *)
SwitchesHold ==
    [][ /\ control.paused /\ ~control'.paused =>
              Made({"resume"}) \cap OpenCalls # {} \/ ~InTurn(ControlKinds)
        /\ control.circuit /\ ~control'.circuit =>
              Made({"reset"}) \cap OpenCalls # {} \/ ~InTurn(ControlKinds) ]_vars

(* The synchronization leaves manual symbols untouched (the comment at     *)
(* internal_handler.go:172).                                               *)
ManualSymbolsStay ==
    [][ \A x \in Symbols : followed[x] = "manual" /\ followed'[x] # "manual" =>
            \E c \in Made({"remove"}) : call[c].req.symbol = x ]_vars
=============================================================================
