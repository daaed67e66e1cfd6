------------------------ MODULE PortfolioStore_proofs -----------------------
(***************************************************************************)
(* Proofs about PortfolioStore, for any number of calls, products,         *)
(* settings, minutes and failures.                                         *)
(*                                                                         *)
(* What is left of a call follows from its kind (Planned): a call is about *)
(* to activate only settings that are in the history, and to write the     *)
(* switches only if its last statement read them.  A call begins after     *)
(* those that have ended (AfterOK), so that two that are open at the same  *)
(* time overlap, and what a call has read of the switches is out of date   *)
(* only if it overlaps with another one that changes them (Fresh).         *)
(***************************************************************************)
EXTENDS PortfolioStore, SequenceTheorems, DataTheorems

Controls == [paused : BOOLEAN, circuit : BOOLEAN]
Snaps    == [minute : Minutes, held : Holdings]
Asked    == [kind : {"add", "remove"}, symbol : Symbols]
                \cup [kind : {"save"}, settings : Settings]
                \cup [kind : {"revert"}, id : Nat]
                \cup [kind : ControlKinds]
                \cup [kind : {"snapshot"}, snap : Snaps]
                \cup [kind : {"startup"}, held : Holdings]

(* Statements that touch neither the settings nor the switches. *)
Plain == [do : {"follow"}, symbol : Symbols, source : Sources]
             \cup [do : {"unfollow"}, symbol : Symbols]
             \cup [do : {"put"}, snap : Snaps]

Saving(todo, history) ==
    \/ todo = <<>>
    \/ \E v \in Settings : todo = <<AddVersion(v), Activate(v)>>
    \/ \E i \in DOMAIN history : todo = <<Activate(history[i])>>

Switching(todo) == todo \in {<<>>, <<ReadControl, WriteControl>>, <<WriteControl>>}

Planned(kind, todo, history) ==
    /\ kind \in SettingsKinds => Saving(todo, history)
    /\ kind \in ControlKinds => Switching(todo)
    /\ kind \notin SettingsKinds \cup ControlKinds => todo \in Seq(Plain)

TablesOK == /\ minute \in Minutes /\ faults \in 0..MaxFaults
            /\ snapshots \in [Minutes -> Holdings \cup {None}]
            /\ followed \in [Symbols -> Sources \cup {None}]
            /\ active \in {FirstSettings} \cup {Kept[v] : v \in Fits}
            /\ versions \in Seq(Settings)
            /\ control \in Controls

(* A call as a record, whatever is left of it. *)
CallOK(r) == /\ r = [req |-> r.req, todo |-> r.todo, read |-> r.read, answer |-> r.answer,
                     after |-> r.after, cut |-> r.cut]
             /\ r.answer \in {None, "ok", "error"}
             /\ r.after \subseteq Calls /\ r.cut \in BOOLEAN
             /\ r.todo # <<>> => r.answer = None /\ ~r.cut

CallsOK == /\ call = [c \in Calls |-> call[c]]
           /\ \A c \in Calls : /\ CallOK(call[c])
                               /\ c \notin call[c].after
                               /\ Planned(call[c].req.kind, call[c].todo, versions)

IngestOK == /\ ingest.call \in Calls \cup {None}
            /\ ingest.again => ingest.snap \in Snaps
            /\ ingest = [snap |-> ingest.snap, call |-> ingest.call, again |-> ingest.again]

AfterOK == \A c \in Calls, d \in Calls : d \in call[c].after =>
               call[d].req # NoRequest /\ call[d].todo = <<>>

Fresh == \A c \in Calls :
            /\ call[c].req.kind \in ControlKinds
            /\ call[c].todo = <<WriteControl>>
            => /\ call[c].read \in Controls
               /\ call[c].read = control \/ \E d \in Made(ControlKinds) \ {c} : ~Apart(c, d)

Inv == TablesOK /\ CallsOK /\ IngestOK /\ AfterOK /\ Fresh /\ ActiveIsInHistory
----------------------------------------------------------------------------
(* What single operators return.                                           *)

LEMMA LatestHeldType ==
  ASSUME snapshots \in [Minutes -> Holdings \cup {None}], Posted # {}
  PROVE  LatestHeld \in Holdings
  <1>1. MaxMinute \in Nat /\ Posted \in SUBSET (0..MaxMinute)
    BY StoreAssumption DEF Posted, Minutes
  <1>2. Max(Posted) \in Posted
    BY <1>1, MaxOf
  <1> QED BY <1>2 DEF LatestHeld, Posted

LEMMA SyncType ==
  ASSUME NEW held \in Holdings
  PROVE  SyncFollowed(held) \in Seq(Plain)
  <1>1. held \in Seq(Symbols) /\ Btc \in Symbols
    BY StoreAssumption
  <1>2. \A x \in Symbols, s \in Sources : Follow(x, s) \in Plain
    BY DEF Follow, Plain
  <1>3. Len(held) \in Nat /\ DOMAIN held = 1..Len(held) /\ \A i \in 1..Len(held) : held[i] \in Symbols
    BY <1>1
  <1>4. [i \in DOMAIN held |-> Follow(held[i], "holding")] \in [1..Len(held) -> Plain]
    BY <1>2, <1>3 DEF Sources
  <1>5. [i \in DOMAIN held |-> Follow(held[i], "holding")] \in Seq(Plain)
    BY <1>3, <1>4, SeqDef
  <1>6. <<Follow(Btc, "benchmark")>> \in Seq(Plain)
    BY <1>1, <1>2 DEF Sources
  <1> QED BY <1>5, <1>6, ConcatProperties DEF SyncFollowed

LEMMA AskedKinds ==
  ASSUME NEW req \in Asked PROVE req.kind \in Kinds
  BY DEF Asked, Kinds, SettingsKinds, ControlKinds

LEMMA StatementsPlanned ==
  ASSUME versions \in Seq(Settings), NEW req \in Asked,
         req.kind = "revert" => req.id \in DOMAIN versions
  PROVE  /\ req.kind \in SettingsKinds => Saving(Statements(req), versions)
         /\ req.kind \in ControlKinds => Statements(req) = <<ReadControl, WriteControl>>
         /\ req.kind \notin SettingsKinds \cup ControlKinds => Statements(req) \in Seq(Plain)
         /\ Statements(req) # <<>>
  <1>1. CASE req \in [kind : {"add", "remove"}, symbol : Symbols]
    <2>1. Follow(req.symbol, "manual") \in Plain /\ Unfollow(req.symbol) \in Plain
      BY <1>1 DEF Follow, Unfollow, Plain, Sources
    <2> QED BY <1>1, <2>1 DEF Statements, SettingsKinds, ControlKinds
  <1>2. CASE req \in [kind : {"save"}, settings : Settings]
    BY <1>2 DEF Statements, Saving, Save, SettingsKinds, ControlKinds
  <1>3. CASE req \in [kind : {"revert"}, id : Nat]
    <2>1. versions[req.id] \in Settings
      BY <1>3
    <2> QED BY <1>3, <2>1 DEF Statements, Saving, Save, SettingsKinds, ControlKinds
  <1>4. CASE req \in [kind : ControlKinds]
    BY <1>4 DEF Statements, SettingsKinds, ControlKinds
  <1>5. CASE req \in [kind : {"snapshot"}, snap : Snaps]
    <2>1. req.snap \in Snaps /\ req.snap.held \in Holdings
      BY <1>5 DEF Snaps
    <2>2. Put(req.snap) \in Plain
      BY <2>1 DEF Put, Plain
    <2>3. SyncFollowed(req.snap.held) \in Seq(Plain)
      BY <2>1, SyncType
    <2>4. Statements(req) = <<Put(req.snap)>> \o SyncFollowed(req.snap.held)
      BY <1>5 DEF Statements
    <2>5. <<Put(req.snap)>> \in Seq(Plain) /\ <<Put(req.snap)>> # <<>>
      BY <2>2
    <2>6. Statements(req) \in Seq(Plain) /\ Statements(req) # <<>>
      BY <2>3, <2>4, <2>5, ConcatProperties, ConcatEqualIffEmpty
    <2> QED BY <1>5, <2>6 DEF SettingsKinds, ControlKinds
  <1>6. CASE req \in [kind : {"startup"}, held : Holdings]
    <2>1. Statements(req) = SyncFollowed(req.held) /\ req.held \in Holdings
      BY <1>6 DEF Statements
    <2>2. SyncFollowed(req.held) # <<>>
      <3>1. Len(SyncFollowed(req.held)) # 0
        BY <2>1, StoreAssumption DEF SyncFollowed
      <3> QED BY <3>1
    <2> QED BY <1>6, <2>1, <2>2, SyncType DEF SettingsKinds, ControlKinds
  <1> QED BY <1>1, <1>2, <1>3, <1>4, <1>5, <1>6 DEF Asked
----------------------------------------------------------------------------
(* What the steps do to the calls.                                         *)

LEMMA Initial == Init => Inv
  <1> SUFFICES ASSUME Init PROVE Inv
    OBVIOUS
  <1>1. TablesOK
    <2>1. control \in Controls
      BY DEF Init, Controls
    <2>2. versions \in Seq(Settings)
      BY EmptySeq DEF Init
    <2> QED BY <2>1, <2>2, StoreAssumption DEF Init, TablesOK, Minutes
  <1>2. \A c \in Calls : call[c] = Unused
    BY DEF Init
  <1>3. CallOK(Unused) /\ Unused.after = {} /\ Unused.todo = <<>>
    BY DEF Unused, CallOK
  <1>4. Planned(Unused.req.kind, Unused.todo, versions)
    BY EmptySeq DEF Unused, Planned, Saving, Switching
  <1>5. call = [c \in Calls |-> call[c]]
    BY DEF Init
  <1>6. IngestOK
    BY DEF Init, IngestOK, NotPosting
  <1>7. AfterOK /\ Fresh
    <2>1. \A c \in Calls : call[c].todo = <<>> /\ call[c].after = {}
      BY <1>2, <1>3
    <2>2. <<>> # <<WriteControl>>
      OBVIOUS
    <2> QED BY <2>1, <2>2 DEF AfterOK, Fresh
  <1>8. ActiveIsInHistory
    BY DEF Init, ActiveIsInHistory
  <1> QED BY <1>1, <1>2, <1>3, <1>4, <1>5, <1>6, <1>7, <1>8 DEF Inv, CallsOK

(* A longer history has all that was planned from the shorter one. *)
LEMMA HistoryGrows ==
  ASSUME NEW vs \in Seq(Settings), NEW v \in Settings, NEW r, Planned(r.req.kind, r.todo, vs)
  PROVE  Planned(r.req.kind, r.todo, Append(vs, v)) /\ \A i \in DOMAIN vs : i \in DOMAIN Append(vs, v) /\ Append(vs, v)[i] = vs[i]
  <1>1. \A i \in DOMAIN vs : i \in DOMAIN Append(vs, v) /\ Append(vs, v)[i] = vs[i]
    BY AppendProperties, LenProperties
  <1> QED BY <1>1 DEF Planned, Saving

(* A call that is open goes on or stops. *)
LEMMA CallMoves ==
  ASSUME Inv, NEW c \in Calls, Open(c),
         call' = [d \in Calls |-> call'[d]],
         \A d \in Calls \ {c} : call'[d] = call[d],
         call'[c].req = call[c].req, call'[c].after = call[c].after,
         CallOK(call'[c]), Planned(call'[c].req.kind, call'[c].todo, versions'),
         versions' = versions \/ \E v \in Settings : versions' = Append(versions, v),
         control' = control \/ (call[c].req.kind \in ControlKinds /\ call'[c].todo = <<>>),
         /\ call[c].req.kind \in ControlKinds
         /\ call'[c].todo = <<WriteControl>>
         => call'[c].read = control',
         control' \in Controls
  PROVE  CallsOK' /\ AfterOK' /\ Fresh'
  <1>1. versions \in Seq(Settings) /\ CallsOK /\ AfterOK /\ Fresh
    BY DEF Inv, TablesOK
  <1>2. \A d \in Calls : Planned(call'[d].req.kind, call'[d].todo, versions')
    BY <1>1, HistoryGrows DEF CallsOK
  <1>3. CallsOK'
    BY <1>1, <1>2 DEF CallsOK
  <1>4. \A d \in Calls : call'[d].todo # <<>> => call[d].todo # <<>>
    BY DEF Open
  <1>5. \A d \in Calls : call'[d].after = call[d].after /\ call'[d].req = call[d].req
    OBVIOUS
  <1>6. AfterOK'
    BY <1>1, <1>4, <1>5 DEF AfterOK
  <1>7. /\ Made(ControlKinds)' = Made(ControlKinds)
        /\ \A d, e \in Calls : Apart(d, e)' <=> Apart(d, e)
    BY <1>5 DEF Made, Apart
  <1>8. ASSUME NEW d \in Calls, call'[d].req.kind \in ControlKinds, call'[d].todo = <<WriteControl>>
        PROVE  /\ call'[d].read \in Controls
               /\ call'[d].read = control' \/ \E e \in Made(ControlKinds)' \ {d} : ~Apart(d, e)'
    <2>1. CASE d = c
      BY <1>8, <2>1
    <2>2. CASE d # c /\ control' = control
      <3>1. Made(ControlKinds) \subseteq Calls
        BY DEF Made
      <3> QED BY <1>1, <1>5, <1>7, <1>8, <2>2, <3>1 DEF Fresh
    <2>3. CASE d # c /\ call[c].req.kind \in ControlKinds
      <3>1. <<WriteControl>> # <<>>
        OBVIOUS
      <3>2. ~Apart(d, c)
        BY <1>1, <1>4, <1>8, <2>3, <3>1 DEF AfterOK, Open, Apart
      <3>3. c \in Made(ControlKinds)
        BY <2>3 DEF Made
      <3>4. call'[d].read \in Controls
        BY <1>1, <1>5, <1>8, <2>3 DEF Fresh
      <3> QED BY <1>7, <2>3, <3>2, <3>3, <3>4
    <2> QED BY <2>1, <2>2, <2>3
  <1> QED BY <1>3, <1>6, <1>8 DEF Fresh

(* Both ways a statement can leave its call. *)
LEMMA CallFields ==
  ASSUME NEW a, NEW b, NEW d, NEW e, NEW f, NEW g, NEW x, NEW r,
         r = [req |-> a, todo |-> b, read |-> d, answer |-> e, after |-> f, cut |-> g]
  PROVE  /\ [r EXCEPT !.req = x] = [req |-> x, todo |-> b, read |-> d, answer |-> e, after |-> f, cut |-> g]
         /\ [r EXCEPT !.after = x] = [req |-> a, todo |-> b, read |-> d, answer |-> e, after |-> x, cut |-> g]
         /\ [r EXCEPT !.todo = x] = [req |-> a, todo |-> x, read |-> d, answer |-> e, after |-> f, cut |-> g]
         /\ [r EXCEPT !.read = x] = [req |-> a, todo |-> b, read |-> x, answer |-> e, after |-> f, cut |-> g]
         /\ [r EXCEPT !.answer = x] = [req |-> a, todo |-> b, read |-> d, answer |-> x, after |-> f, cut |-> g]
         /\ [r EXCEPT !.cut = x] = [req |-> a, todo |-> b, read |-> d, answer |-> e, after |-> f, cut |-> x]
  OBVIOUS

LEMMA DoneFields ==
  ASSUME CallsOK, NEW c \in Calls, Open(c), NEW read, Done(c, read)
  PROVE  /\ call' = [d \in Calls |-> call'[d]]
         /\ \A d \in Calls \ {c} : call'[d] = call[d]
         /\ call'[c].req = call[c].req /\ call'[c].after = call[c].after
         /\ call'[c].todo = Tail(call[c].todo) /\ call'[c].read = read
         /\ call'[c].answer = IF Len(call[c].todo) = 1 THEN "ok" ELSE None
         /\ call'[c].cut = call[c].cut
         /\ call'[c] = [req |-> call'[c].req, todo |-> call'[c].todo, read |-> call'[c].read,
                        answer |-> call'[c].answer, after |-> call'[c].after, cut |-> call'[c].cut]
  <1>1. call[c] = [req |-> call[c].req, todo |-> call[c].todo, read |-> call[c].read,
                   answer |-> call[c].answer, after |-> call[c].after, cut |-> call[c].cut]
    BY DEF CallsOK, CallOK
  <1>2. call = [d \in Calls |-> call[d]]
    BY DEF CallsOK
  <1> DEFINE answer == IF Len(call[c].todo) = 1 THEN "ok" ELSE None
  <1> DEFINE next == [call[c] EXCEPT !.todo = Tail(call[c].todo), !.read = read, !.answer = answer]
  <1>3. call' = [call EXCEPT ![c] = next]
    BY <1>2 DEF Done
  <1> HIDE DEF answer
  <1>4. next = [req |-> call[c].req, todo |-> Tail(call[c].todo), read |-> read,
                answer |-> answer, after |-> call[c].after, cut |-> call[c].cut]
    <2> DEFINE left == Tail(call[c].todo)
               r1 == [call[c] EXCEPT !.todo = left]
               r2 == [r1 EXCEPT !.read = read]
               r3 == [r2 EXCEPT !.answer = answer]
    <2>1. next = r3
      BY Zenon
    <2> HIDE DEF next, left
    <2>2. r1 = [req |-> call[c].req, todo |-> left, read |-> call[c].read,
                answer |-> call[c].answer, after |-> call[c].after, cut |-> call[c].cut]
      BY <1>1, CallFields, SMTT(30)
    <2> HIDE DEF r1
    <2>3. r2 = [req |-> call[c].req, todo |-> left, read |-> read,
                answer |-> call[c].answer, after |-> call[c].after, cut |-> call[c].cut]
      BY <2>2, CallFields, SMTT(30)
    <2> HIDE DEF r2
    <2>4. r3 = [req |-> call[c].req, todo |-> left, read |-> read,
                answer |-> answer, after |-> call[c].after, cut |-> call[c].cut]
      BY <2>3, CallFields, SMTT(30)
    <2> QED BY <2>1, <2>4, Zenon DEF left
  <1> HIDE DEF next
  <1>5. call'[c] = next /\ call' = [d \in Calls |-> call'[d]] /\ \A d \in Calls \ {c} : call'[d] = call[d]
    BY <1>2, <1>3
  <1> QED BY <1>4, <1>5 DEF answer

(* A call that is cut short. *)
LEMMA CutFields ==
  ASSUME CallsOK, NEW c \in Calls, NEW answer
  PROVE  [call[c] EXCEPT !.todo = <<>>, !.answer = answer, !.cut = TRUE] =
            [req |-> call[c].req, todo |-> <<>>, read |-> call[c].read,
             answer |-> answer, after |-> call[c].after, cut |-> TRUE]
  <1> DEFINE end == [call[c] EXCEPT !.todo = <<>>, !.answer = answer, !.cut = TRUE]
             r1 == [call[c] EXCEPT !.todo = <<>>]
             r2 == [r1 EXCEPT !.answer = answer]
             yes == TRUE
             r3 == [r2 EXCEPT !.cut = yes]
  <1>1. call[c] = [req |-> call[c].req, todo |-> call[c].todo, read |-> call[c].read,
                   answer |-> call[c].answer, after |-> call[c].after, cut |-> call[c].cut]
    BY DEF CallsOK, CallOK
  <1>2. end = r3
    BY Zenon
  <1> HIDE DEF end
  <1>3. r1 = [req |-> call[c].req, todo |-> <<>>, read |-> call[c].read,
              answer |-> call[c].answer, after |-> call[c].after, cut |-> call[c].cut]
    BY <1>1, CallFields, SMTT(30)
  <1> HIDE DEF r1
  <1>4. r2 = [req |-> call[c].req, todo |-> <<>>, read |-> call[c].read,
              answer |-> answer, after |-> call[c].after, cut |-> call[c].cut]
    BY <1>3, CallFields, SMTT(30)
  <1> HIDE DEF r2, yes
  <1>5. r3 = [req |-> call[c].req, todo |-> <<>>, read |-> call[c].read,
              answer |-> answer, after |-> call[c].after, cut |-> yes]
    BY <1>4, CallFields, SMTT(30)
  <1> QED BY <1>2, <1>5, Zenon DEF end, yes

LEMMA StopFields ==
  ASSUME CallsOK, NEW c \in Calls, NEW answer \in {"ok", "error"}, Stop(c, answer)
  PROVE  /\ call' = [d \in Calls |-> call'[d]]
         /\ \A d \in Calls \ {c} : call'[d] = call[d]
         /\ call'[c].req = call[c].req /\ call'[c].after = call[c].after
         /\ call'[c].todo = <<>> /\ call'[c].cut = TRUE /\ CallOK(call'[c])
  <1>1. call[c].after \subseteq Calls /\ call = [d \in Calls |-> call[d]]
    BY DEF CallsOK, CallOK
  <1> DEFINE end == [call[c] EXCEPT !.todo = <<>>, !.answer = answer, !.cut = TRUE]
  <1>2. call' = [call EXCEPT ![c] = end]
    BY <1>1 DEF Stop
  <1>3. end = [req |-> call[c].req, todo |-> <<>>, read |-> call[c].read,
               answer |-> answer, after |-> call[c].after, cut |-> TRUE]
    BY CutFields, Zenon
  <1> HIDE DEF end
  <1>4. call'[c] = end /\ call' = [d \in Calls |-> call'[d]] /\ \A d \in Calls \ {c} : call'[d] = call[d]
    BY <1>1, <1>2
  <1> QED BY <1>1, <1>3, <1>4 DEF CallOK

LEMMA StopMoves ==
  ASSUME Inv, NEW c \in Calls, Open(c), NEW answer \in {"ok", "error"}, Stop(c, answer),
         UNCHANGED <<versions, control>>
  PROVE  CallsOK' /\ AfterOK' /\ Fresh'
  <1>1. CallsOK /\ control' \in Controls
    BY DEF Inv, TablesOK
  <1>2. call'[c].todo = <<>> /\ CallOK(call'[c])
    BY <1>1, StopFields
  <1>3. Planned(call'[c].req.kind, call'[c].todo, versions')
    BY <1>2, EmptySeq DEF Planned, Saving, Switching
  <1>4. <<>> # <<WriteControl>>
    OBVIOUS
  <1> QED BY <1>1, <1>2, <1>3, <1>4, StopFields, CallMoves

(* What comes first of what is left, and what is left after it. *)
LEMMA NextStatement ==
  ASSUME NEW vs \in Seq(Settings), NEW r, Planned(r.req.kind, r.todo, vs), r.todo # <<>>
  PROVE  /\ Len(r.todo) = 1 => Tail(r.todo) = <<>>
         /\ r.req.kind \in ControlKinds =>
               \/ Head(r.todo) = ReadControl /\ Tail(r.todo) = <<WriteControl>>
               \/ Head(r.todo) = WriteControl /\ Tail(r.todo) = <<>>
         /\ r.req.kind \in SettingsKinds =>
               \/ \E v \in Settings : Head(r.todo) = AddVersion(v) /\ Tail(r.todo) = <<Activate(v)>>
               \/ \E i \in DOMAIN vs : Head(r.todo) = Activate(vs[i]) /\ Tail(r.todo) = <<>>
         /\ r.req.kind \notin SettingsKinds \cup ControlKinds =>
               Head(r.todo) \in Plain /\ Tail(r.todo) \in Seq(Plain)
  <1>1. \A x : Head(<<x>>) = x /\ Tail(<<x>>) = <<>>
    OBVIOUS
  <1>2. \A x, y : Head(<<x, y>>) = x /\ Tail(<<x, y>>) = <<y>> /\ Len(<<x, y>>) # 1
    OBVIOUS
  <1>3. CASE r.req.kind \in ControlKinds
    <2>1. r.todo = <<ReadControl, WriteControl>> \/ r.todo = <<WriteControl>>
      BY <1>3 DEF Planned, Switching
    <2> QED BY <1>1, <1>2, <1>3, <2>1 DEF SettingsKinds, ControlKinds
  <1>4. CASE r.req.kind \in SettingsKinds
    <2>1. \/ \E v \in Settings : r.todo = <<AddVersion(v), Activate(v)>>
          \/ \E i \in DOMAIN vs : r.todo = <<Activate(vs[i])>>
      BY <1>4 DEF Planned, Saving
    <2> QED BY <1>1, <1>2, <1>4, <2>1 DEF SettingsKinds, ControlKinds
  <1>5. CASE r.req.kind \notin SettingsKinds \cup ControlKinds
    <2>1. r.todo \in Seq(Plain)
      BY <1>5 DEF Planned
    <2>2. Head(r.todo) \in Plain /\ Tail(r.todo) \in Seq(Plain) /\ Len(Tail(r.todo)) = Len(r.todo) - 1
      BY <2>1, HeadTailProperties
    <2>3. Len(r.todo) = 1 => Tail(r.todo) = <<>>
      <3> DEFINE left == Tail(r.todo)
      <3>1. left \in Seq(Plain) /\ (Len(r.todo) = 1 => Len(left) = 0)
        BY <2>2
      <3> HIDE DEF left
      <3>2. Len(r.todo) = 1 => left = <<>>
        BY <3>1, EmptySeq
      <3> QED BY <3>2 DEF left
    <2> QED BY <1>5, <2>2, <2>3
  <1> QED BY <1>3, <1>4, <1>5

(* The statements of each kind of call. *)
LEMMA WhoseStatement ==
  ASSUME Inv, NEW c \in Calls, Open(c)
  PROVE  LET s == Head(call[c].todo)
         IN  /\ s.do \in {"put", "follow", "unfollow"} =>
                   /\ call[c].req.kind \notin SettingsKinds \cup ControlKinds
                   /\ s \in Plain /\ Tail(call[c].todo) \in Seq(Plain)
             /\ s.do = "version" =>
                   /\ call[c].req.kind \in SettingsKinds
                   /\ s.settings \in Settings /\ Tail(call[c].todo) = <<Activate(s.settings)>>
             /\ s.do = "activate" =>
                   /\ call[c].req.kind \in SettingsKinds /\ Tail(call[c].todo) = <<>>
                   /\ \E i \in DOMAIN versions : s.settings = versions[i]
             /\ s.do = "read" =>
                   call[c].req.kind \in ControlKinds /\ Tail(call[c].todo) = <<WriteControl>>
             /\ s.do = "write" =>
                   /\ call[c].req.kind \in ControlKinds /\ Tail(call[c].todo) = <<>>
                   /\ call[c].todo = <<WriteControl>>
  <1> DEFINE s == Head(call[c].todo)
  <1>1. versions \in Seq(Settings) /\ Planned(call[c].req.kind, call[c].todo, versions) /\ call[c].todo # <<>>
    BY DEF Inv, TablesOK, CallsOK, Open
  <1>2. CASE call[c].req.kind \in ControlKinds
    <2>1. \/ s = ReadControl /\ Tail(call[c].todo) = <<WriteControl>>
          \/ s = WriteControl /\ Tail(call[c].todo) = <<>>
      BY <1>1, <1>2, NextStatement
    <2>2. s.do \in {"read", "write"} /\ (s.do = "read" => s = ReadControl)
      BY <2>1 DEF ReadControl, WriteControl
    <2>3. s.do = "read" => Tail(call[c].todo) = <<WriteControl>>
      BY <2>1 DEF ReadControl, WriteControl
    <2>4. s.do = "write" => call[c].todo = <<WriteControl>>
      <3>1. call[c].todo = <<ReadControl, WriteControl>> \/ call[c].todo = <<WriteControl>>
        BY <1>1, <1>2 DEF Planned, Switching
      <3>2. Head(<<ReadControl, WriteControl>>).do # "write"
        BY DEF ReadControl
      <3> QED BY <3>1, <3>2
    <2>5. s.do = "write" => Tail(call[c].todo) = <<>>
      BY <2>1 DEF ReadControl
    <2> QED BY <1>2, <2>2, <2>3, <2>4, <2>5
  <1>3. CASE call[c].req.kind \in SettingsKinds
    <2>1. \/ \E v \in Settings : s = AddVersion(v) /\ Tail(call[c].todo) = <<Activate(v)>>
          \/ \E i \in DOMAIN versions : s = Activate(versions[i]) /\ Tail(call[c].todo) = <<>>
      BY <1>1, <1>3, NextStatement
    <2>2. CASE \E v \in Settings : s = AddVersion(v) /\ Tail(call[c].todo) = <<Activate(v)>>
      <3>1. s.do = "version" /\ s.settings \in Settings /\ Tail(call[c].todo) = <<Activate(s.settings)>>
        BY <2>2 DEF AddVersion
      <3> QED BY <1>3, <3>1
    <2>3. CASE \E i \in DOMAIN versions : s = Activate(versions[i]) /\ Tail(call[c].todo) = <<>>
      <3>1. s.do = "activate" /\ Tail(call[c].todo) = <<>> /\ \E i \in DOMAIN versions : s.settings = versions[i]
        BY <2>3 DEF Activate
      <3> QED BY <1>3, <3>1
    <2> QED BY <2>1, <2>2, <2>3
  <1>4. CASE call[c].req.kind \notin SettingsKinds \cup ControlKinds
    <2>1. s \in Plain /\ Tail(call[c].todo) \in Seq(Plain)
      BY <1>1, <1>4, NextStatement
    <2>2. s.do \in {"put", "follow", "unfollow"}
      BY <2>1 DEF Plain
    <2> QED BY <1>4, <2>1, <2>2
  <1> QED BY <1>2, <1>3, <1>4

(* A statement is done that leaves settings, history and switches alone or *)
(* changes them as told.                                                   *)
LEMMA DoneMoves ==
  ASSUME Inv, NEW c \in Calls, Open(c), NEW read, Done(c, read), UNCHANGED ingest,
         Planned(call[c].req.kind, Tail(call[c].todo), versions'),
         versions' = versions \/ \E v \in Settings : versions' = Append(versions, v),
         control' = control \/ (call[c].req.kind \in ControlKinds /\ Tail(call[c].todo) = <<>>),
         Tail(call[c].todo) = <<WriteControl>> => read = control',
         control' \in Controls
  PROVE  CallsOK' /\ AfterOK' /\ Fresh'
  <1>1. CallsOK /\ versions \in Seq(Settings) /\ Planned(call[c].req.kind, call[c].todo, versions) /\ call[c].todo # <<>>
    BY DEF Inv, TablesOK, CallsOK, Open
  <1>2. /\ call' = [d \in Calls |-> call'[d]]
        /\ \A d \in Calls \ {c} : call'[d] = call[d]
        /\ call'[c].req = call[c].req /\ call'[c].after = call[c].after
        /\ call'[c].todo = Tail(call[c].todo) /\ call'[c].read = read
        /\ call'[c].answer = IF Len(call[c].todo) = 1 THEN "ok" ELSE None
        /\ call'[c].cut = call[c].cut
        /\ call'[c] = [req |-> call'[c].req, todo |-> call'[c].todo, read |-> call'[c].read,
                       answer |-> call'[c].answer, after |-> call'[c].after, cut |-> call'[c].cut]
    BY <1>1, DoneFields
  <1>3. Len(call[c].todo) = 1 => Tail(call[c].todo) = <<>>
    BY <1>1, NextStatement
  <1>4. call[c].after \subseteq Calls /\ call[c].cut = FALSE
    BY <1>1 DEF CallsOK, CallOK
  <1>5. CallOK(call'[c])
    BY <1>2, <1>3, <1>4 DEF CallOK
  <1>6. Planned(call'[c].req.kind, call'[c].todo, versions')
    BY <1>2
  <1> QED BY <1>2, <1>5, <1>6, CallMoves

(* A request becomes a call. *)
LEMMA Begun ==
  ASSUME NEW req, NEW after
  PROVE  Began(req, after) = [req |-> req, todo |-> Statements(req), read |-> None,
                              answer |-> None, after |-> after, cut |-> FALSE]
  <1> DEFINE none == <<>>
             no   == FALSE
             todo == Statements(req)
             r0 == [req |-> NoRequest, todo |-> none, read |-> None, answer |-> None, after |-> {}, cut |-> no]
             r1 == [r0 EXCEPT !.req = req]
             r2 == [r1 EXCEPT !.todo = todo]
             r3 == [r2 EXCEPT !.after = after]
  <1>1. Began(req, after) = r3
    BY Zenon DEF Began, Unused
  <1> HIDE DEF none, no, todo
  <1>2. r1 = [req |-> req, todo |-> none, read |-> None, answer |-> None, after |-> {}, cut |-> no]
    BY CallFields, SMTT(30)
  <1> HIDE DEF r1
  <1>3. r2 = [req |-> req, todo |-> todo, read |-> None, answer |-> None, after |-> {}, cut |-> no]
    BY <1>2, CallFields, SMTT(30)
  <1> HIDE DEF r2
  <1>4. r3 = [req |-> req, todo |-> todo, read |-> None, answer |-> None, after |-> after, cut |-> no]
    BY <1>3, CallFields, SMTT(30)
  <1> QED BY <1>1, <1>4, Zenon DEF todo, no

LEMMA BeginFields ==
  ASSUME CallsOK, NEW c \in Calls, NEW req, Begin(c, req)
  PROVE  /\ call' = [d \in Calls |-> call'[d]]
         /\ call'[c] = [req |-> req, todo |-> Statements(req), read |-> None, answer |-> None,
                        after |-> EndedCalls, cut |-> FALSE]
         /\ \A d \in Calls \ {c} : call'[d] = call[d]
  <1> DEFINE fresh == Began(req, EndedCalls)
  <1>1. fresh = [req |-> req, todo |-> Statements(req), read |-> None, answer |-> None,
                 after |-> EndedCalls, cut |-> FALSE]
    BY Begun, Zenon
  <1>2. call = [d \in Calls |-> call[d]] /\ call' = [call EXCEPT ![c] = fresh]
    BY DEF CallsOK, Begin
  <1> HIDE DEF fresh
  <1>3. call'[c] = fresh /\ call' = [d \in Calls |-> call'[d]] /\ \A d \in Calls \ {c} : call'[d] = call[d]
    BY <1>2
  <1> QED BY <1>1, <1>3

LEMMA BeginKeeps ==
  ASSUME Inv, NEW c \in Calls, NEW req \in Asked, req.kind = "revert" => req.id \in DOMAIN versions,
         Begin(c, req), UNCHANGED <<versions, control>>
  PROVE  CallsOK' /\ AfterOK' /\ Fresh'
  <1>1. CallsOK /\ AfterOK /\ Fresh /\ versions \in Seq(Settings)
    BY DEF Inv, TablesOK
  <1>2. /\ call' = [d \in Calls |-> call'[d]]
        /\ call'[c] = [req |-> req, todo |-> Statements(req), read |-> None, answer |-> None,
                        after |-> EndedCalls, cut |-> FALSE]
        /\ \A d \in Calls \ {c} : call'[d] = call[d]
    BY <1>1, BeginFields
  <1>3. call[c].todo = <<>> /\ call[c].req = NoRequest /\ call[c].req.kind = None
    BY DEF Begin, Unused, NoRequest
  <1>4. EndedCalls \subseteq Calls \ {c}
        /\ \A d \in EndedCalls : call[d].req # NoRequest /\ call[d].todo = <<>>
    BY <1>3 DEF EndedCalls, MadeCalls, OpenCalls, Open
  <1>5. Planned(req.kind, Statements(req), versions)
    BY <1>1, StatementsPlanned DEF Planned, Switching
  <1>6. CallOK(call'[c]) /\ c \notin call'[c].after /\ Planned(call'[c].req.kind, call'[c].todo, versions')
    BY <1>2, <1>4, <1>5 DEF CallOK
  <1>7. ASSUME NEW d \in Calls \ {c}
        PROVE  CallOK(call'[d]) /\ d \notin call'[d].after /\ Planned(call'[d].req.kind, call'[d].todo, versions')
    BY <1>1, <1>2 DEF CallsOK
  <1>8. CallsOK'
    BY <1>2, <1>6, <1>7 DEF CallsOK
  <1>9. AfterOK'
    <2> SUFFICES ASSUME NEW d \in Calls, NEW e \in Calls, e \in call'[d].after
                 PROVE  call'[e].req # NoRequest /\ call'[e].todo = <<>>
      BY DEF AfterOK
    <2>1. call[e].req # NoRequest /\ call[e].todo = <<>>
      BY <1>1, <1>2, <1>4 DEF AfterOK
    <2>2. e # c
      BY <1>3, <2>1
    <2> QED BY <1>2, <2>1, <2>2
  <1>10. c \notin Made(ControlKinds)
    BY <1>3, StoreAssumption DEF Made, Kinds
  <1>11. Fresh'
    <2> SUFFICES ASSUME NEW d \in Calls, call'[d].req.kind \in ControlKinds,
                        call'[d].todo = <<WriteControl>>
                 PROVE  /\ call'[d].read \in Controls
                        /\ call'[d].read = control' \/ \E e \in Made(ControlKinds)' \ {d} : ~Apart(d, e)'
      BY DEF Fresh
    <2>1. CASE d = c
      <3>1. Statements(req) = <<ReadControl, WriteControl>>
        BY <1>1, <1>2, <2>1, StatementsPlanned
      <3>2. <<ReadControl, WriteControl>> # <<WriteControl>>
        OBVIOUS
      <3> QED BY <1>2, <2>1, <3>1, <3>2
    <2>2. CASE d # c
      <3>1. call'[d] = call[d]
        BY <1>2, <2>2
      <3>2. /\ call[d].read \in Controls
            /\ call[d].read = control \/ \E e \in Made(ControlKinds) \ {d} : ~Apart(d, e)
        BY <1>1, <3>1 DEF Fresh
      <3>3. ASSUME NEW e \in Made(ControlKinds) \ {d}, ~Apart(d, e)
            PROVE  e \in Made(ControlKinds)' \ {d} /\ ~Apart(d, e)'
        <4>1. e # c /\ e \in Calls
          BY <1>10 DEF Made
        <4>2. call'[e] = call[e]
          BY <1>2, <4>1
        <4> QED BY <3>1, <3>3, <4>1, <4>2 DEF Made, Apart
      <3> QED BY <3>1, <3>2, <3>3
    <2> QED BY <2>1, <2>2
  <1> QED BY <1>8, <1>9, <1>11

(* The process restarts: all calls are closed, and one may begin.          *)
LEMMA RestartFields ==
  ASSUME CallsOK, NEW c \in Calls, Restart(c)
  PROVE  /\ call' = [d \in Calls |-> call'[d]]
         /\ \A d \in Calls \ {c} :
               call'[d] = IF Open(d) THEN [req |-> call[d].req, todo |-> <<>>, read |-> call[d].read,
                                           answer |-> "error", after |-> call[d].after, cut |-> TRUE]
                          ELSE call[d]
         /\ call[c] = Unused
         /\ \/ call'[c] = call[c]
            \/ /\ Posted # {}
               /\ call'[c] = [req |-> [kind |-> "startup", held |-> LatestHeld],
                              todo |-> SyncFollowed(LatestHeld), read |-> None, answer |-> None,
                              after |-> MadeCalls, cut |-> FALSE]
  <1> DEFINE req      == [kind |-> "startup", held |-> LatestHeld]
             ended(d) == [call[d] EXCEPT !.todo = <<>>, !.answer = "error", !.cut = TRUE]
             first    == Began(req, MadeCalls)
             stopped  == [d \in Calls |-> IF Open(d) THEN ended(d) ELSE call[d]]
  <1>1. call[c] = Unused /\ ~Open(c)
    <2>1. call[c] = Unused
      BY Zenon DEF Restart
    <2> QED BY <2>1 DEF Unused, Open
  <1>2. \/ call' = stopped
        \/ Posted # {} /\ call' = [stopped EXCEPT ![c] = first]
    BY Zenon DEF Restart
  <1>3. ASSUME NEW d \in Calls
        PROVE  ended(d) = [req |-> call[d].req, todo |-> <<>>, read |-> call[d].read,
                           answer |-> "error", after |-> call[d].after, cut |-> TRUE]
    BY CutFields, Zenon
  <1>4. first = [req |-> req, todo |-> SyncFollowed(LatestHeld), read |-> None, answer |-> None,
                 after |-> MadeCalls, cut |-> FALSE]
    <2>1. Statements(req) = SyncFollowed(LatestHeld)
      BY DEF Statements
    <2> HIDE DEF req
    <2> QED BY <2>1, Begun, Zenon
  <1> HIDE DEF ended, first, req
  <1>5. /\ call' = [d \in Calls |-> call'[d]]
        /\ \A d \in Calls \ {c} : call'[d] = IF Open(d) THEN ended(d) ELSE call[d]
        /\ call'[c] = call[c] \/ (Posted # {} /\ call'[c] = first)
    BY <1>1, <1>2
  <1> QED BY <1>1, <1>3, <1>4, <1>5 DEF req

LEMMA RestartKeeps ==
  ASSUME Inv, NEW c \in Calls, Restart(c)
  PROVE  CallsOK' /\ AfterOK' /\ Fresh'
  <1> DEFINE req  == [kind |-> "startup", held |-> LatestHeld]
             todo == SyncFollowed(LatestHeld)
  <1>1. CallsOK /\ AfterOK /\ versions \in Seq(Settings) /\ UNCHANGED <<versions, control>>
    BY DEF Inv, TablesOK, Restart, tables
  <1>2. /\ call' = [d \in Calls |-> call'[d]]
        /\ \A d \in Calls \ {c} :
              call'[d] = IF Open(d) THEN [req |-> call[d].req, todo |-> <<>>, read |-> call[d].read,
                                          answer |-> "error", after |-> call[d].after, cut |-> TRUE]
                         ELSE call[d]
        /\ call[c] = Unused
        /\ \/ call'[c] = call[c]
           \/ /\ Posted # {}
              /\ call'[c] = [req |-> req, todo |-> todo, read |-> None, answer |-> None,
                             after |-> MadeCalls, cut |-> FALSE]
    BY <1>1, RestartFields
  <1>3. call[c].todo = <<>> /\ call[c].req = NoRequest
    BY <1>2 DEF Unused
  <1>4. ASSUME NEW d \in Calls \ {c}
        PROVE  /\ CallOK(call'[d]) /\ call'[d].todo = <<>> /\ d \notin call'[d].after
               /\ Planned(call'[d].req.kind, call'[d].todo, versions')
               /\ call'[d].req = call[d].req /\ call'[d].after = call[d].after
    <2>1. CASE Open(d)
      <3>1. call'[d] = [req |-> call[d].req, todo |-> <<>>, read |-> call[d].read,
                        answer |-> "error", after |-> call[d].after, cut |-> TRUE]
        BY <1>2, <2>1
      <3>2. Planned(call[d].req.kind, <<>>, versions)
        BY EmptySeq DEF Planned, Saving, Switching
      <3> QED BY <1>1, <3>1, <3>2 DEF CallsOK, CallOK
    <2>2. CASE ~Open(d)
      BY <1>1, <1>2, <2>2 DEF CallsOK, Open
    <2> QED BY <2>1, <2>2
  <1>5. CASE call'[c] = call[c]
    <2>1. CallsOK'
      BY <1>1, <1>2, <1>4, <1>5 DEF CallsOK
    <2>2. \A d \in Calls : call'[d].todo = <<>> /\ call'[d].req = call[d].req /\ call'[d].after = call[d].after
      BY <1>3, <1>4, <1>5
    <2>3. <<>> # <<WriteControl>>
      OBVIOUS
    <2>4. AfterOK'
      BY <1>1, <2>2 DEF AfterOK
    <2> QED BY <2>1, <2>2, <2>3, <2>4 DEF Fresh
  <1>6. CASE /\ Posted # {}
             /\ call'[c] = [req |-> req, todo |-> todo, read |-> None, answer |-> None,
                            after |-> MadeCalls, cut |-> FALSE]
    <2>1. LatestHeld \in Holdings
      BY <1>6, LatestHeldType DEF Inv, TablesOK
    <2>2. todo \in Seq(Plain)
      BY <2>1, SyncType
    <2> HIDE DEF todo
    <2>3. req.kind = "startup" /\ Planned(req.kind, todo, versions)
      BY <2>2 DEF Planned, SettingsKinds, ControlKinds
    <2> HIDE DEF req
    <2>4. MadeCalls \subseteq Calls \ {c} /\ \A d \in MadeCalls : call[d].req # NoRequest
      BY <1>3 DEF MadeCalls
    <2>5. CallOK(call'[c]) /\ c \notin call'[c].after /\ Planned(call'[c].req.kind, call'[c].todo, versions')
          /\ call'[c].req = req /\ call'[c].after = MadeCalls
      BY <1>1, <1>6, <2>3, <2>4 DEF CallOK
    <2>6. CallsOK'
      BY <1>2, <1>4, <2>5 DEF CallsOK
    <2>7. AfterOK'
      <3> SUFFICES ASSUME NEW d \in Calls, NEW e \in Calls, e \in call'[d].after
                   PROVE  call'[e].req # NoRequest /\ call'[e].todo = <<>>
        BY DEF AfterOK
      <3>1. call[e].req # NoRequest
        BY <1>1, <1>4, <2>4, <2>5 DEF AfterOK
      <3>2. e # c
        BY <1>3, <3>1
      <3> QED BY <1>4, <3>1, <3>2
    <2>8. <<>> # <<WriteControl>> /\ call'[c].req.kind \notin ControlKinds
      BY <2>3, <2>5 DEF ControlKinds
    <2> QED BY <1>4, <2>6, <2>7, <2>8 DEF Fresh
  <1> QED BY <1>2, <1>5, <1>6
----------------------------------------------------------------------------
(* The invariant.                                                          *)

LEMMA StatementKeeps ==
  ASSUME Inv, NEW c \in Calls, Statement(c) PROVE Inv'
  <1> DEFINE s == Head(call[c].todo)
  <1>1. TablesOK /\ CallsOK /\ IngestOK /\ ActiveIsInHistory /\ versions \in Seq(Settings)
    BY DEF Inv, TablesOK
  <1>2. ASSUME UNCHANGED <<active, versions>> PROVE ActiveIsInHistory'
    BY <1>1, <1>2 DEF ActiveIsInHistory
  <1>3. ASSUME UNCHANGED ingest PROVE IngestOK'
    BY <1>1, <1>3 DEF IngestOK
  <1>4. control \in Controls
    BY <1>1 DEF TablesOK
  <1>5. CASE PutSnapshot(c) \/ UpsertFollowed(c) \/ RemoveFollowed(c)
    <2>1. s.do \in {"put", "follow", "unfollow"} /\ Open(c)
      BY <1>5 DEF PutSnapshot, UpsertFollowed, RemoveFollowed, Does
    <2>2. /\ call[c].req.kind \notin SettingsKinds \cup ControlKinds
          /\ s \in Plain /\ Tail(call[c].todo) \in Seq(Plain)
      BY <2>1, WhoseStatement
    <2>3. Done(c, None) /\ UNCHANGED <<minute, active, versions, control, ingest, faults>>
      BY <1>5 DEF PutSnapshot, UpsertFollowed, RemoveFollowed
    <2>4. Tail(call[c].todo) # <<WriteControl>>
      <3>1. WriteControl \notin Plain
        BY DEF WriteControl, Plain
      <3>2. ASSUME NEW x, <<x>> \in Seq(Plain) PROVE x \in Plain
        <4>1. Len(<<x>>) = 1 /\ <<x>>[1] = x
          OBVIOUS
        <4> QED BY <3>2, <4>1, ElementOfSeq
      <3> QED BY <2>2, <3>1, <3>2, Zenon
    <2>5. Planned(call[c].req.kind, Tail(call[c].todo), versions')
      BY <2>2 DEF Planned
    <2>6. CallsOK' /\ AfterOK' /\ Fresh'
      BY <2>1, <1>4, <2>3, <2>4, <2>5, DoneMoves
    <2>7. /\ s.do = "put" => s.snap \in Snaps
          /\ s.do = "follow" => s.symbol \in Symbols /\ s.source \in Sources
      BY <2>2 DEF Plain
    <2>8. snapshots' \in [Minutes -> Holdings \cup {None}]
      BY <1>1, <1>5, <2>7 DEF TablesOK, PutSnapshot, UpsertFollowed, RemoveFollowed, Does, Snaps
    <2>9. followed' \in [Symbols -> Sources \cup {None}]
      BY <1>1, <1>5, <2>7 DEF TablesOK, PutSnapshot, UpsertFollowed, RemoveFollowed, Does
    <2>10. TablesOK'
      BY <1>1, <2>3, <2>8, <2>9 DEF TablesOK
    <2> QED BY <1>2, <1>3, <2>3, <2>6, <2>10 DEF Inv
  <1>6. CASE InsertVersion(c)
    <2>1. s.do = "version" /\ Open(c) /\ Done(c, None) /\ versions' = Append(versions, s.settings)
          /\ UNCHANGED <<minute, snapshots, followed, active, control, ingest, faults>>
      BY <1>6 DEF InsertVersion, Does
    <2>2. /\ call[c].req.kind \in SettingsKinds
          /\ s.settings \in Settings /\ Tail(call[c].todo) = <<Activate(s.settings)>>
      BY <2>1, WhoseStatement
    <2>3. versions' \in Seq(Settings) /\ Len(versions') \in DOMAIN versions'
          /\ versions'[Len(versions')] = s.settings
          /\ \A i \in DOMAIN versions : i \in DOMAIN versions' /\ versions'[i] = versions[i]
      <3> DEFINE v == s.settings
      <3>1. v \in Settings /\ versions' = Append(versions, v)
        BY <2>1, <2>2
      <3> HIDE DEF v
      <3>2. /\ versions' \in Seq(Settings) /\ Len(versions') = Len(versions) + 1
            /\ \A i \in 1..Len(versions) : versions'[i] = versions[i]
            /\ versions'[Len(versions) + 1] = v
        BY <1>1, <3>1, AppendProperties
      <3> QED BY <1>1, <3>2, LenProperties DEF v
    <2>4. Planned(call[c].req.kind, Tail(call[c].todo), versions')
      <3>1. Saving(Tail(call[c].todo), versions')
        BY <2>2, <2>3 DEF Saving
      <3>2. call[c].req.kind \notin ControlKinds
        BY <2>2 DEF SettingsKinds, ControlKinds
      <3> QED BY <2>2, <3>1, <3>2 DEF Planned
    <2>5. Tail(call[c].todo) # <<WriteControl>>
      <3>1. Activate(s.settings).do = "activate" /\ WriteControl.do = "write"
        BY DEF Activate, WriteControl
      <3>2. Activate(s.settings) # WriteControl
        BY <3>1
      <3>3. <<Activate(s.settings)>> # <<WriteControl>>
        BY <3>2
      <3> QED BY <2>2, <3>3, Zenon
    <2>6. CallsOK' /\ AfterOK' /\ Fresh'
      BY <1>4, <2>1, <2>2, <2>4, <2>5, DoneMoves
    <2>7. TablesOK'
      BY <1>1, <2>1, <2>3 DEF TablesOK
    <2>8. ActiveIsInHistory'
      BY <1>1, <2>1, <2>3 DEF ActiveIsInHistory
    <2> QED BY <1>3, <2>1, <2>6, <2>7, <2>8 DEF Inv
  <1>7. CASE UpdateSettings(c)
    <2>1. s.do = "activate" /\ Open(c)
          /\ UNCHANGED <<minute, snapshots, followed, versions, control, ingest, faults>>
          /\ \/ s.settings \in Fits /\ active' = Kept[s.settings] /\ Done(c, None)
             \/ UNCHANGED active /\ Stop(c, "error")
      BY <1>7 DEF UpdateSettings, Does
    <2>2. /\ call[c].req.kind \in SettingsKinds /\ Tail(call[c].todo) = <<>>
          /\ \E i \in DOMAIN versions : s.settings = versions[i]
      BY <2>1, WhoseStatement
    <2>3. CASE s.settings \in Fits /\ active' = Kept[s.settings] /\ Done(c, None)
      <3>1. Planned(call[c].req.kind, <<>>, versions')
        BY EmptySeq DEF Planned, Saving, Switching
      <3>2. <<>> # <<WriteControl>>
        OBVIOUS
      <3>3. CallsOK' /\ AfterOK' /\ Fresh'
        BY <1>4, <2>1, <2>2, <2>3, <3>1, <3>2, DoneMoves
      <3>4. TablesOK'
        BY <1>1, <2>1, <2>3 DEF TablesOK
      <3>5. ActiveIsInHistory'
        BY <2>1, <2>2, <2>3 DEF ActiveIsInHistory
      <3> QED BY <1>3, <2>1, <3>3, <3>4, <3>5 DEF Inv
    <2>4. CASE UNCHANGED active /\ Stop(c, "error")
      <3>1. CallsOK' /\ AfterOK' /\ Fresh'
        BY <2>1, <2>4, StopMoves
      <3>2. TablesOK'
        BY <1>1, <2>1, <2>4 DEF TablesOK
      <3> QED BY <1>2, <1>3, <2>1, <2>4, <3>1, <3>2 DEF Inv
    <2> QED BY <2>1, <2>3, <2>4
  <1>8. CASE GetControl(c)
    <2>1. s.do = "read" /\ Open(c) /\ Done(c, control) /\ UNCHANGED <<minute, tables, ingest, faults>>
      BY <1>8 DEF GetControl, Does
    <2>2. call[c].req.kind \in ControlKinds /\ Tail(call[c].todo) = <<WriteControl>>
      BY <2>1, WhoseStatement
    <2>3. Planned(call[c].req.kind, Tail(call[c].todo), versions')
      BY <2>2 DEF Planned, Switching, SettingsKinds, ControlKinds
    <2>4. CallsOK' /\ AfterOK' /\ Fresh'
      BY <1>4, <2>1, <2>3, DoneMoves DEF tables
    <2>5. TablesOK'
      BY <1>1, <2>1 DEF TablesOK, tables
    <2> QED BY <1>2, <1>3, <2>1, <2>4, <2>5 DEF Inv, tables
  <1>9. CASE UpdateControl(c)
    <2>1. s.do = "write" /\ Open(c) /\ Done(c, None) /\ control' = Mutate(call[c].req.kind, call[c].read)
          /\ UNCHANGED <<minute, snapshots, followed, active, versions, ingest, faults>>
      BY <1>9 DEF UpdateControl, Does
    <2>2. call[c].req.kind \in ControlKinds /\ Tail(call[c].todo) = <<>>
      BY <2>1, WhoseStatement
    <2>3. Planned(call[c].req.kind, <<>>, versions') /\ <<>> # <<WriteControl>>
      BY EmptySeq DEF Planned, Saving, Switching
    <2>4. control' \in Controls
      <3>1. call[c].read \in Controls
        BY <2>1, <2>2, WhoseStatement DEF Inv, Fresh
      <3>2. \A k \in ControlKinds, x \in Controls : Mutate(k, x) \in Controls
        BY DEF Mutate, ControlKinds, Controls
      <3> QED BY <2>1, <2>2, <3>1, <3>2
    <2>5. CallsOK' /\ AfterOK' /\ Fresh'
      BY <2>1, <2>2, <2>3, <2>4, DoneMoves
    <2>6. TablesOK'
      BY <1>1, <2>1, <2>4 DEF TablesOK
    <2> QED BY <1>2, <1>3, <2>1, <2>5, <2>6 DEF Inv
  <1>10. CASE StatementFails(c)
    <2>1. Open(c) /\ UNCHANGED <<minute, tables, ingest>> /\ faults' \in 0..MaxFaults
      BY <1>1, <1>10, StoreAssumption DEF StatementFails, Fault, NoFault, TablesOK
    <2>2. PICK answer \in {"ok", "error"} : Stop(c, answer)
      BY <1>10 DEF StatementFails
    <2>3. CallsOK' /\ AfterOK' /\ Fresh'
      BY <2>1, <2>2, StopMoves DEF tables
    <2>4. TablesOK'
      BY <1>1, <2>1 DEF TablesOK, tables
    <2> QED BY <1>2, <1>3, <2>1, <2>3, <2>4 DEF Inv, tables
  <1> QED BY <1>5, <1>6, <1>7, <1>8, <1>9, <1>10 DEF Statement

LEMMA Step ==
  ASSUME Inv, [Next]_vars PROVE Inv'
  <1>1. TablesOK /\ CallsOK /\ IngestOK /\ AfterOK /\ Fresh /\ ActiveIsInHistory
        /\ MaxMinute \in Nat /\ MaxFaults \in Nat
    BY StoreAssumption DEF Inv
  <1>2. ASSUME UNCHANGED tables PROVE ActiveIsInHistory'
    BY <1>1, <1>2 DEF ActiveIsInHistory, tables
  <1>3. ASSUME UNCHANGED tables, minute' \in Minutes, faults' \in 0..MaxFaults PROVE TablesOK'
    BY <1>1, <1>3 DEF TablesOK, tables
  <1>4. minute \in Minutes /\ faults \in 0..MaxFaults /\ (Fault => faults' \in 0..MaxFaults)
    BY <1>1 DEF TablesOK, Fault
  <1>5. ASSUME NEW c \in Calls, UserCall(c) PROVE Inv'
    <2>1. PICK req \in UserRequests : Begin(c, req)
      BY <1>5 DEF UserCall
    <2>2. req \in Asked /\ (req.kind = "revert" => req.id \in DOMAIN versions)
      <3>1. DOMAIN versions \subseteq Nat
        BY <1>1 DEF TablesOK
      <3> QED BY <3>1 DEF UserRequests, Asked, ControlKinds
    <2>3. UNCHANGED <<minute, tables, ingest, faults>>
      BY <1>5 DEF UserCall
    <2>4. CallsOK' /\ AfterOK' /\ Fresh'
      BY <2>1, <2>2, <2>3, BeginKeeps DEF tables
    <2>5. IngestOK'
      BY <1>1, <2>3 DEF IngestOK
    <2> QED BY <1>2, <1>3, <1>4, <2>3, <2>4, <2>5 DEF Inv
  <1>6. ASSUME NEW c \in Calls, Restart(c) PROVE Inv'
    <2>1. UNCHANGED <<minute, tables, ingest>> /\ Fault
      BY <1>6 DEF Restart
    <2>2. IngestOK'
      BY <1>1, <2>1 DEF IngestOK
    <2>3. CallsOK' /\ AfterOK' /\ Fresh'
      BY <1>6, RestartKeeps
    <2> QED BY <1>2, <1>3, <1>4, <2>1, <2>2, <2>3 DEF Inv
  <1>7. ASSUME NEW c \in Calls, NEW snap \in Snaps,
               Begin(c, [kind |-> "snapshot", snap |-> snap]),
               UNCHANGED <<minute, tables>>, faults' \in 0..MaxFaults, IngestOK'
        PROVE  Inv'
    <2>1. [kind |-> "snapshot", snap |-> snap] \in Asked
      BY DEF Asked
    <2>2. [kind |-> "snapshot", snap |-> snap].kind # "revert"
      OBVIOUS
    <2>3. CallsOK' /\ AfterOK' /\ Fresh'
      BY <1>7, <2>1, <2>2, BeginKeeps DEF tables
    <2> QED BY <1>2, <1>3, <1>4, <1>7, <2>3 DEF Inv
  <1>8. ASSUME NEW c \in Calls, NEW held \in Holdings, PostSnapshot(c, held) PROVE Inv'
    <2> DEFINE snap == [minute |-> minute, held |-> held]
    <2>1. snap \in Snaps
      BY <1>4 DEF Snaps
    <2>2. /\ Begin(c, [kind |-> "snapshot", snap |-> snap])
          /\ ingest' = [snap |-> snap, call |-> c, again |-> TRUE]
          /\ UNCHANGED <<minute, tables, faults>>
      BY <1>8 DEF PostSnapshot
    <2> HIDE DEF snap
    <2>3. IngestOK'
      BY <2>1, <2>2 DEF IngestOK
    <2> QED BY <1>4, <1>7, <2>1, <2>2, <2>3
  <1>9. ASSUME NEW c \in Calls, PostAgain(c) PROVE Inv'
    <2>1. /\ Begin(c, [kind |-> "snapshot", snap |-> ingest.snap]) /\ ingest.again
          /\ ingest' = [ingest EXCEPT !.call = c, !.again = FALSE]
          /\ UNCHANGED <<minute, tables>> /\ faults' \in 0..MaxFaults
      BY <1>4, <1>9 DEF PostAgain
    <2>2. ingest.snap \in Snaps
      BY <1>1, <2>1 DEF IngestOK
    <2>3. IngestOK'
      BY <1>1, <2>1 DEF IngestOK
    <2> QED BY <1>7, <2>1, <2>2, <2>3
  <1>10. CASE EndPost
    <2>1. UNCHANGED <<minute, tables, call, faults>> /\ ingest' = NotPosting
      BY <1>10 DEF EndPost
    <2>2. IngestOK'
      BY <2>1 DEF IngestOK, NotPosting
    <2>3. CallsOK' /\ AfterOK' /\ Fresh'
      BY <1>1, <2>1 DEF CallsOK, AfterOK, Fresh, Made, Apart, tables
    <2> QED BY <1>2, <1>3, <1>4, <2>1, <2>2, <2>3 DEF Inv
  <1>11. CASE Advance \/ UNCHANGED vars
    <2>1. UNCHANGED <<tables, call, ingest, faults>> /\ minute' \in Minutes
      BY <1>1, <1>4, <1>11 DEF Advance, vars, Minutes
    <2>2. IngestOK'
      BY <1>1, <2>1 DEF IngestOK
    <2>3. CallsOK' /\ AfterOK' /\ Fresh'
      BY <1>1, <2>1 DEF CallsOK, AfterOK, Fresh, Made, Apart, tables
    <2> QED BY <1>2, <1>3, <1>4, <2>1, <2>2, <2>3 DEF Inv
  <1>12. ASSUME NEW c \in Calls, Statement(c) PROVE Inv'
    BY <1>12, StatementKeeps
  <1> QED BY <1>5, <1>6, <1>8, <1>9, <1>10, <1>11, <1>12 DEF Next

(* The types. *)
THEOREM TypeCorrect == Spec => []TypeOK
  <1>1. Inv => TypeOK
    BY DEF Inv, TablesOK, CallsOK, IngestOK, CallOK, Controls, TypeOK, Open
  <1> QED BY Initial, Step, <1>1, PTL DEF Spec

(* What the signals service sees is in the history, whatever fails and     *)
(* however saves and reverts interleave: handleAlertSettingsUpdate and     *)
(* RevertSignalSettings write the version first.                           *)
THEOREM HistoryKnowsActive == Spec => []ActiveIsInHistory
  <1>1. Inv => ActiveIsInHistory
    BY DEF Inv
  <1> QED BY Initial, Step, <1>1, PTL DEF Spec

(* A switch of the Lab is only turned back by a call that means to, unless *)
(* two calls overlapped: updateLabControl.                                 *)
THEOREM SwitchesStay == Spec => SwitchesHold
  <1> DEFINE Guarded ==
               /\ control.paused /\ ~control'.paused =>
                     Made({"resume"}) \cap OpenCalls # {} \/ ~InTurn(ControlKinds)
               /\ control.circuit /\ ~control'.circuit =>
                     Made({"reset"}) \cap OpenCalls # {} \/ ~InTurn(ControlKinds)
  <1>1. ASSUME Inv, NEW c \in Calls, UpdateControl(c) PROVE Guarded
    <2>1. /\ call[c].req.kind \in ControlKinds /\ call[c].todo = <<WriteControl>>
          /\ control' = Mutate(call[c].req.kind, call[c].read)
          /\ Open(c)
      BY <1>1, WhoseStatement DEF UpdateControl, Does
    <2>2. c \in Made(ControlKinds) /\ c \in OpenCalls
      BY <2>1 DEF Made, OpenCalls
    <2>3. CASE \E d \in Made(ControlKinds) \ {c} : ~Apart(c, d)
      <3>1. ~InTurn(ControlKinds)
        BY <2>2, <2>3 DEF InTurn
      <3> QED BY <3>1
    <2>4. CASE call[c].read = control
      <3>1. control \in Controls
        BY <1>1 DEF Inv, TablesOK
      <3>2. call[c].req.kind = "resume" => c \in Made({"resume"})
        BY DEF Made
      <3>3. call[c].req.kind = "reset" => c \in Made({"reset"})
        BY DEF Made
      <3>4. control.paused /\ ~control'.paused => call[c].req.kind = "resume"
        BY <2>1, <2>4, <3>1 DEF Mutate, ControlKinds, Controls
      <3>5. control.circuit /\ ~control'.circuit => call[c].req.kind = "reset"
        BY <2>1, <2>4, <3>1 DEF Mutate, ControlKinds, Controls
      <3> QED BY <2>2, <3>2, <3>3, <3>4, <3>5
    <2> QED BY <1>1, <2>1, <2>3, <2>4 DEF Inv, Fresh
  <1>2. ASSUME UNCHANGED control PROVE Guarded
    BY <1>2
  <1>3. Inv /\ [Next]_vars => [Guarded]_vars
    <2> SUFFICES ASSUME Inv, Next PROVE Guarded
      OBVIOUS
    <2> HIDE DEF Guarded
    <2>1. ASSUME NEW c \in Calls,
                 UserCall(c) \/ PostAgain(c) \/ Restart(c) PROVE UNCHANGED control
      BY <2>1 DEF UserCall, PostAgain, Restart, tables
    <2>2. ASSUME NEW c \in Calls, Statement(c) PROVE Guarded
      BY <1>1, <1>2, <2>2 DEF Statement, PutSnapshot, UpsertFollowed, RemoveFollowed,
            InsertVersion, UpdateSettings, GetControl, StatementFails, tables
    <2>3. ASSUME NEW c \in Calls, NEW held \in Holdings, PostSnapshot(c, held) PROVE UNCHANGED control
      BY <2>3 DEF PostSnapshot, tables
    <2>4. CASE EndPost \/ Advance
      BY <1>2, <2>4 DEF EndPost, Advance, tables
    <2> QED BY <1>2, <2>1, <2>2, <2>3, <2>4 DEF Next
  <1> HIDE DEF Guarded
  <1>4. SwitchesHold <=> [][Guarded]_vars
    BY DEF SwitchesHold, Guarded
  <1> QED BY Initial, Step, <1>3, <1>4, PTL DEF Spec
----------------------------------------------------------------------------
(* What one step does to every call, and when the tables change.           *)

Same(d)   == call'[d] = call[d]
Starts(d) == /\ call[d].todo = <<>> /\ call[d].req = NoRequest
             /\ call'[d].req \in Asked /\ call'[d].todo = Statements(call'[d].req)
             /\ call'[d].req.kind = "revert" => call'[d].req.id \in DOMAIN versions
Stops(d)  == /\ Open(d)
             /\ call'[d].req = call[d].req /\ call'[d].after = call[d].after
             /\ call'[d].todo = <<>> /\ call'[d].cut = TRUE
Goes(c)   == /\ Open(c)
             /\ call'[c].req = call[c].req /\ call'[c].after = call[c].after
             /\ call'[c].todo = Tail(call[c].todo)
             /\ \A d \in Calls \ {c} : Same(d)
Acts(c)   == \/ PutSnapshot(c) \/ UpsertFollowed(c) \/ RemoveFollowed(c)
             \/ InsertVersion(c) \/ UpdateSettings(c) \/ GetControl(c) \/ UpdateControl(c)

(* Without a failure only snapshots are cut short, abandoned by ingest. *)
Moves ==
    /\ faults \in Nat /\ faults' \in Nat /\ faults <= faults'
    /\ \/ /\ UNCHANGED tables
          /\ \A d \in Calls : Same(d) \/ Starts(d) \/ Stops(d)
          /\ \A d \in Calls : Stops(d) => faults' > 0 \/ call[d].req.kind = "snapshot"
       \/ \E c \in Calls : Goes(c) /\ Acts(c)

(* A call that is the same is still open, if it was, and one that starts   *)
(* was not.                                                                *)
LEMMA NoStop ==
  ASSUME NEW d \in Calls, Same(d) \/ Starts(d) PROVE ~Stops(d)
  <1>1. ASSUME Same(d), Stops(d) PROVE FALSE
    BY <1>1 DEF Same, Stops, Open
  <1>2. ASSUME Starts(d), Stops(d) PROVE FALSE
    BY <1>2 DEF Starts, Stops, Open
  <1> QED BY <1>1, <1>2

LEMMA BeginningMoves ==
  ASSUME Inv, NEW c \in Calls, NEW req \in Asked, req.kind = "revert" => req.id \in DOMAIN versions,
         Begin(c, req)
  PROVE  \A d \in Calls : Same(d) \/ Starts(d)
  <1>1. /\ call'[c] = [req |-> req, todo |-> Statements(req), read |-> None, answer |-> None,
                       after |-> EndedCalls, cut |-> FALSE]
        /\ \A d \in Calls \ {c} : call'[d] = call[d]
    BY BeginFields DEF Inv
  <1>2. call[c].todo = <<>> /\ call[c].req = NoRequest
    BY DEF Begin, Unused
  <1>3. Starts(c)
    BY <1>1, <1>2 DEF Starts
  <1> QED BY <1>1, <1>3 DEF Same

LEMMA RestartMoves ==
  ASSUME Inv, NEW c \in Calls, Restart(c)
  PROVE  \A d \in Calls : Same(d) \/ Starts(d) \/ Stops(d)
  <1> DEFINE req == [kind |-> "startup", held |-> LatestHeld]
  <1>1. /\ \A d \in Calls \ {c} :
              call'[d] = IF Open(d) THEN [req |-> call[d].req, todo |-> <<>>, read |-> call[d].read,
                                          answer |-> "error", after |-> call[d].after, cut |-> TRUE]
                         ELSE call[d]
        /\ call[c] = Unused
        /\ \/ call'[c] = call[c]
           \/ /\ Posted # {}
              /\ call'[c] = [req |-> req, todo |-> SyncFollowed(LatestHeld), read |-> None,
                             answer |-> None, after |-> MadeCalls, cut |-> FALSE]
    <2>1. CallsOK
      BY DEF Inv
    <2> DEFINE other(d) == IF Open(d) THEN [req |-> call[d].req, todo |-> <<>>, read |-> call[d].read,
                                            answer |-> "error", after |-> call[d].after, cut |-> TRUE]
                           ELSE call[d]
               first    == [req |-> req, todo |-> SyncFollowed(LatestHeld), read |-> None,
                            answer |-> None, after |-> MadeCalls, cut |-> FALSE]
    <2>2. /\ \A d \in Calls \ {c} : call'[d] = other(d)
          /\ call[c] = Unused
          /\ call'[c] = call[c] \/ (Posted # {} /\ call'[c] = first)
      BY <2>1, RestartFields
    <2> QED BY <2>2
  <1>2. ASSUME NEW d \in Calls \ {c} PROVE Same(d) \/ Stops(d)
    <2>1. CASE Open(d)
      <3>1. call'[d] = [req |-> call[d].req, todo |-> <<>>, read |-> call[d].read,
                        answer |-> "error", after |-> call[d].after, cut |-> TRUE]
        BY <1>1, <2>1
      <3>2. /\ call'[d].req = call[d].req /\ call'[d].after = call[d].after
            /\ call'[d].todo = <<>> /\ call'[d].cut = TRUE
        BY <3>1
      <3> QED BY <2>1, <3>2 DEF Stops
    <2>2. CASE ~Open(d)
      <3>1. call'[d] = call[d]
        BY <1>1, <2>2
      <3> QED BY <3>1 DEF Same
    <2> QED BY <2>1, <2>2
  <1>3. ASSUME call'[c] # call[c] PROVE Starts(c)
    <2>1. LatestHeld \in Holdings
      BY <1>1, <1>3, LatestHeldType DEF Inv, TablesOK
    <2>2. req \in Asked /\ req.kind # "revert" /\ Statements(req) = SyncFollowed(LatestHeld)
      BY <2>1 DEF Asked, Statements
    <2>3. call[c].todo = <<>> /\ call[c].req = NoRequest
      BY <1>1 DEF Unused
    <2> HIDE DEF req
    <2>4. call'[c].req = req /\ call'[c].todo = SyncFollowed(LatestHeld)
      BY <1>1, <1>3
    <2> QED BY <2>2, <2>3, <2>4 DEF Starts
  <1> QED BY <1>2, <1>3 DEF Same

LEMMA ActsMove ==
  ASSUME Inv, NEW c \in Calls, Acts(c)
  PROVE  Goes(c) /\ UNCHANGED faults
  <1>1. ASSUME NEW read, Open(c), Done(c, read) PROVE Goes(c)
    <2>1. /\ \A d \in Calls \ {c} : call'[d] = call[d]
          /\ call'[c].req = call[c].req /\ call'[c].after = call[c].after
          /\ call'[c].todo = Tail(call[c].todo)
      BY <1>1, DoneFields DEF Inv
    <2> QED BY <1>1, <2>1 DEF Goes, Same
  <1>2. CASE UpdateSettings(c)
    <2>1. /\ Open(c) /\ Head(call[c].todo).do = "activate" /\ UNCHANGED faults
          /\ Done(c, None) \/ Stop(c, "error")
      BY <1>2 DEF UpdateSettings, Does
    <2>2. Tail(call[c].todo) = <<>>
      BY <2>1, WhoseStatement
    <2>3. CASE Stop(c, "error")
      <3>1. /\ \A d \in Calls \ {c} : call'[d] = call[d]
            /\ call'[c].req = call[c].req /\ call'[c].after = call[c].after
            /\ call'[c].todo = <<>>
        BY <2>3, StopFields DEF Inv
      <3> QED BY <2>1, <2>2, <3>1 DEF Goes, Same
    <2> QED BY <1>1, <2>1, <2>3
  <1>3. CASE GetControl(c)
    BY <1>1, <1>3 DEF GetControl, Does
  <1>4. CASE PutSnapshot(c) \/ UpsertFollowed(c) \/ RemoveFollowed(c) \/ InsertVersion(c) \/ UpdateControl(c)
    <2>1. Open(c) /\ Done(c, None) /\ UNCHANGED faults
      BY <1>4 DEF PutSnapshot, UpsertFollowed, RemoveFollowed, InsertVersion, UpdateControl, Does
    <2> QED BY <1>1, <2>1
  <1> QED BY <1>2, <1>3, <1>4 DEF Acts

LEMMA NextMoves ==
  ASSUME Inv, [Next]_vars PROVE Moves
  <1>1. faults \in Nat /\ MaxFaults \in Nat
    BY StoreAssumption DEF Inv, TablesOK
  <1>2. Fault => faults' \in Nat /\ faults' > 0 /\ faults <= faults'
    BY <1>1 DEF Fault
  <1>3. ASSUME UNCHANGED tables, UNCHANGED faults, \A d \in Calls : Same(d) \/ Starts(d) PROVE Moves
    BY <1>1, <1>3, NoStop DEF Moves
  <1>4. ASSUME NEW c \in Calls, UserCall(c) PROVE Moves
    <2>1. PICK req \in UserRequests : Begin(c, req)
      BY <1>4 DEF UserCall
    <2>2. req \in Asked /\ (req.kind = "revert" => req.id \in DOMAIN versions)
      <3>1. DOMAIN versions \subseteq Nat
        BY DEF Inv, TablesOK
      <3> QED BY <3>1 DEF UserRequests, Asked, ControlKinds
    <2>3. UNCHANGED tables /\ UNCHANGED faults
      BY <1>4 DEF UserCall
    <2> QED BY <1>3, <2>1, <2>2, <2>3, BeginningMoves
  <1>5. ASSUME NEW c \in Calls, NEW snap \in Snaps,
               Begin(c, [kind |-> "snapshot", snap |-> snap]),
               UNCHANGED tables, UNCHANGED faults
        PROVE  Moves
    <2>1. [kind |-> "snapshot", snap |-> snap] \in Asked
      BY DEF Asked
    <2>2. [kind |-> "snapshot", snap |-> snap].kind # "revert"
      OBVIOUS
    <2>3. \A d \in Calls : Same(d) \/ Starts(d)
      BY <1>5, <2>1, <2>2, BeginningMoves
    <2> QED BY <1>3, <1>5, <2>3
  <1>6. ASSUME NEW c \in Calls, NEW held \in Holdings, PostSnapshot(c, held) PROVE Moves
    <2> DEFINE snap == [minute |-> minute, held |-> held]
    <2>1. snap \in Snaps
      BY DEF Snaps, Inv, TablesOK
    <2>2. Begin(c, [kind |-> "snapshot", snap |-> snap]) /\ UNCHANGED tables /\ UNCHANGED faults
      BY <1>6 DEF PostSnapshot
    <2> HIDE DEF snap
    <2> QED BY <1>5, <2>1, <2>2
  <1>7. ASSUME NEW c \in Calls, PostAgain(c) PROVE Moves
    <2>1. /\ Begin(c, [kind |-> "snapshot", snap |-> ingest.snap]) /\ ingest.again
          /\ UNCHANGED tables /\ UNCHANGED faults
      BY <1>7 DEF PostAgain
    <2>2. ingest.snap \in Snaps
      BY <2>1 DEF Inv, IngestOK
    <2> QED BY <1>5, <2>1, <2>2
  <1>8. ASSUME NEW c \in Calls, Restart(c) PROVE Moves
    <2>1. UNCHANGED tables /\ Fault
      BY <1>8, Zenon DEF Restart
    <2> QED BY <1>1, <1>2, <1>8, <2>1, RestartMoves DEF Moves
  <1>9. ASSUME NEW c \in Calls, StatementFails(c) PROVE Moves
    <2>1. /\ Open(c) /\ UNCHANGED tables
          /\ Fault \/ (call[c].req.kind = "snapshot" /\ UNCHANGED faults)
      BY <1>9 DEF StatementFails, Abandoned, NoFault
    <2>2. PICK answer \in {"ok", "error"} : Stop(c, answer)
      BY <1>9 DEF StatementFails
    <2>3. /\ \A d \in Calls \ {c} : call'[d] = call[d]
          /\ call'[c].req = call[c].req /\ call'[c].after = call[c].after
          /\ call'[c].todo = <<>> /\ call'[c].cut = TRUE
      BY <2>2, StopFields DEF Inv
    <2>4. \A d \in Calls : Same(d) \/ Stops(d)
      BY <2>1, <2>3 DEF Same, Stops
    <2>5. \A d \in Calls : Stops(d) => d = c
      BY <2>3, NoStop DEF Same
    <2> QED BY <1>1, <1>2, <2>1, <2>4, <2>5 DEF Moves
  <1>10. ASSUME NEW c \in Calls, Acts(c) PROVE Moves
    <2>1. Goes(c) /\ UNCHANGED faults
      BY <1>10, ActsMove
    <2> QED BY <1>1, <1>10, <2>1 DEF Moves
  <1>11. CASE EndPost \/ Advance \/ UNCHANGED vars
    <2>1. UNCHANGED tables /\ UNCHANGED call /\ UNCHANGED faults
      BY <1>11 DEF EndPost, Advance, vars
    <2> QED BY <1>3, <2>1 DEF Same
  <1>12. ASSUME NEW c \in Calls, Statement(c) PROVE Moves
    BY <1>9, <1>10, <1>12 DEF Statement, Acts
  <1> QED BY <1>4, <1>6, <1>7, <1>8, <1>11, <1>12 DEF Next

(* What one call may do. *)
LEMMA EachMoves ==
  ASSUME Moves, NEW d \in Calls
  PROVE  \/ Same(d) \/ Starts(d) \/ Stops(d)
         \/ Goes(d) /\ Acts(d)
  BY DEF Moves, Goes

----------------------------------------------------------------------------
(* What is left of a call that changes the watchlist: a synchronization    *)
(* ends with the benchmark, and starts only after its snapshot is stored.  *)

SyncKinds == {"snapshot", "startup"}
Following == [do : {"follow"}, symbol : Symbols, source : Sources]

SyncLeft(r) ==
    \/ r.todo = <<>>
    \/ /\ r.req.kind = "snapshot" /\ r.req.snap \in Snaps
       /\ r.todo = <<Put(r.req.snap)>> \o SyncFollowed(r.req.snap.held)
    \/ r.todo \in Seq(Following) /\ r.todo[Len(r.todo)] = Follow(Btc, "benchmark")

Left(r) ==
    /\ r.req.kind = "add" => r.todo \in {<<>>, <<Follow(r.req.symbol, "manual")>>}
    /\ r.req.kind = "remove" => r.todo \in {<<>>, <<Unfollow(r.req.symbol)>>}
    /\ r.req.kind \in SyncKinds => SyncLeft(r)
    /\ r.req.kind = "snapshot" => r.req.snap \in Snaps
    /\ r.req.kind = "startup" => r.req.held \in Holdings
    /\ r.todo # <<>> => r.req.kind \in Kinds

LeftOK == \A c \in Calls : Left(call[c])

LEMMA Sync ==
  ASSUME NEW held \in Holdings
  PROVE  LET todo == SyncFollowed(held)
         IN  /\ todo \in Seq(Following) /\ todo # <<>>
             /\ todo[Len(todo)] = Follow(Btc, "benchmark")
             /\ \A i \in DOMAIN held : i \in DOMAIN todo /\ todo[i] = Follow(held[i], "holding")
  <1> DEFINE front == [i \in DOMAIN held |-> Follow(held[i], "holding")]
             end   == Follow(Btc, "benchmark")
             todo  == front \o <<end>>
  <1>1. held \in Seq(Symbols) /\ Btc \in Symbols
    BY StoreAssumption
  <1>2. \A x \in Symbols, s \in Sources : Follow(x, s) \in Following
    BY DEF Follow, Following
  <1>3. Len(held) \in Nat /\ DOMAIN held = 1..Len(held) /\ \A i \in 1..Len(held) : held[i] \in Symbols
    BY <1>1
  <1>4. front \in [1..Len(held) -> Following]
    BY <1>2, <1>3 DEF Sources
  <1>5. front \in Seq(Following) /\ Len(front) = Len(held)
    BY <1>3, <1>4, SeqDef
  <1>6. end \in Following
    BY <1>1, <1>2 DEF Sources
  <1>7. \A i \in DOMAIN held : front[i] = Follow(held[i], "holding")
    OBVIOUS
  <1> HIDE DEF front, end
  <1>8. todo \in Seq(Following) /\ Len(todo) = Len(held) + 1 /\ todo[Len(held) + 1] = end
        /\ \A i \in 1..Len(held) : todo[i] = front[i]
    BY <1>3, <1>5, <1>6, ConcatProperties
  <1>9. todo # <<>>
    BY <1>3, <1>8
  <1>10. SyncFollowed(held) = todo
    BY DEF SyncFollowed, front, end
  <1>11. DOMAIN todo = 1..(Len(held) + 1)
    BY <1>8, LenProperties
  <1> HIDE DEF todo
  <1> QED BY <1>3, <1>7, <1>8, <1>9, <1>10, <1>11 DEF end

LEMMA LeftAtFirst ==
  ASSUME NEW req \in Asked, versions \in Seq(Settings), req.kind = "revert" => req.id \in DOMAIN versions,
         NEW r, r.req = req, r.todo = Statements(req)
  PROVE  Left(r)
  <1>1. req.kind \in Kinds
    BY AskedKinds
  <1>2. CASE req \in [kind : {"add", "remove"}, symbol : Symbols]
    BY <1>1, <1>2 DEF Left, Statements, SyncKinds
  <1>3. CASE req.kind \in SettingsKinds \cup ControlKinds
    BY <1>1, <1>3 DEF Left, SettingsKinds, ControlKinds, SyncKinds
  <1>4. CASE req \in [kind : {"snapshot"}, snap : Snaps]
    <2>1. SyncLeft(r)
      BY <1>4 DEF SyncLeft, Statements
    <2> QED BY <1>1, <1>4, <2>1 DEF Left
  <1>5. CASE req \in [kind : {"startup"}, held : Holdings]
    <2>1. Statements(req) = SyncFollowed(req.held) /\ req.held \in Holdings
      BY <1>5 DEF Statements
    <2>2. SyncLeft(r)
      BY <2>1, Sync DEF SyncLeft
    <2> QED BY <1>1, <1>5, <2>2 DEF Left
  <1>6. \/ req \in [kind : {"add", "remove"}, symbol : Symbols]
        \/ req.kind \in SettingsKinds \cup ControlKinds
        \/ req \in [kind : {"snapshot"}, snap : Snaps]
        \/ req \in [kind : {"startup"}, held : Holdings]
    BY DEF Asked, SettingsKinds
  <1> QED BY <1>2, <1>3, <1>4, <1>5, <1>6

LEMMA FirstAndRest ==
  ASSUME NEW S, NEW x \in S, NEW t \in Seq(S)
  PROVE  Head(<<x>> \o t) = x /\ Tail(<<x>> \o t) = t
  <1> DEFINE one == <<x>>
             all == one \o t
  <1>1. one \in Seq(S) /\ Len(one) = 1 /\ one[1] = x
    OBVIOUS
  <1> HIDE DEF one
  <1>2. /\ all \in Seq(S) /\ Len(all) = 1 + Len(t)
        /\ \A i \in 1..(1 + Len(t)) : all[i] = IF i <= 1 THEN one[i] ELSE t[i - 1]
    <2>1. /\ all \in Seq(S) /\ Len(all) = Len(one) + Len(t)
          /\ \A i \in 1..(Len(one) + Len(t)) : all[i] = IF i <= Len(one) THEN one[i] ELSE t[i - Len(one)]
      BY <1>1, ConcatProperties
    <2> HIDE DEF all
    <2> QED BY <1>1, <2>1
  <1>3. Len(t) \in Nat
    BY LenProperties
  <1> HIDE DEF all
  <1>4. all # <<>> /\ all[1] = x /\ \A i \in 1..Len(t) : all[i + 1] = t[i]
    BY <1>1, <1>2, <1>3
  <1>5. /\ Tail(all) \in Seq(S) /\ Len(Tail(all)) = Len(t)
        /\ \A i \in 1..Len(t) : Tail(all)[i] = t[i]
    BY <1>2, <1>3, <1>4, HeadTailProperties
  <1>6. Tail(all) = t
    BY <1>5, SeqEqual
  <1>7. Head(all) = x
    BY <1>2, <1>4
  <1> QED BY <1>6, <1>7 DEF all, one

(* One statement of a synchronization, and the rest. *)
LEMMA SyncGoesOn ==
  ASSUME NEW r, r.req.kind \in SyncKinds, SyncLeft(r), r.todo # <<>>
  PROVE  /\ \/ /\ Head(r.todo) = Put(r.req.snap) /\ r.req.snap \in Snaps
               /\ Tail(r.todo) = SyncFollowed(r.req.snap.held)
            \/ /\ Head(r.todo) \in Following /\ r.todo \in Seq(Following)
               /\ Tail(r.todo) = <<>> => Head(r.todo) = Follow(Btc, "benchmark")
         /\ \/ Tail(r.todo) = <<>>
            \/ Tail(r.todo) \in Seq(Following) /\ Tail(r.todo)[Len(Tail(r.todo))] = Follow(Btc, "benchmark")
  <1>1. CASE /\ r.req.snap \in Snaps
             /\ r.todo = <<Put(r.req.snap)>> \o SyncFollowed(r.req.snap.held)
    <2> DEFINE first == Put(r.req.snap)
               sync  == SyncFollowed(r.req.snap.held)
    <2>1. r.req.snap.held \in Holdings
      BY <1>1 DEF Snaps
    <2>2. sync \in Seq(Following) /\ sync # <<>> /\ sync[Len(sync)] = Follow(Btc, "benchmark")
      BY <2>1, Sync
    <2>3. r.todo = <<first>> \o sync
      BY <1>1
    <2> HIDE DEF first, sync
    <2>4. Head(r.todo) = first /\ Tail(r.todo) = sync
      <3> DEFINE S == Following \cup {first}
      <3>1. first \in S /\ sync \in Seq(S)
        BY <2>2
      <3> HIDE DEF S
      <3> QED BY <2>3, <3>1, FirstAndRest
    <2> QED BY <1>1, <2>2, <2>4 DEF first, sync
  <1>2. CASE r.todo \in Seq(Following) /\ r.todo[Len(r.todo)] = Follow(Btc, "benchmark")
    <2>1. /\ Head(r.todo) \in Following /\ Tail(r.todo) \in Seq(Following)
          /\ Len(Tail(r.todo)) = Len(r.todo) - 1
          /\ \A i \in 1..Len(Tail(r.todo)) : Tail(r.todo)[i] = r.todo[i + 1]
      BY <1>2, HeadTailProperties
    <2>2. Len(r.todo) \in Nat \ {0}
      BY <1>2, EmptySeq
    <2>3. CASE Len(r.todo) = 1
      <3> DEFINE left == Tail(r.todo)
      <3>0. left \in Seq(Following) /\ Len(left) = 0
        BY <2>1, <2>3
      <3> HIDE DEF left
      <3>1. left = <<>>
        BY <3>0, EmptySeq
      <3> USE DEF left
      <3>2. Head(r.todo) = r.todo[1]
        BY <1>2
      <3> QED BY <1>2, <2>1, <2>3, <3>1, <3>2
    <2>4. CASE Len(r.todo) > 1
      <3> DEFINE left == Tail(r.todo)
                 n    == Len(r.todo)
      <3>1. left \in Seq(Following) /\ Len(left) = n - 1 /\ n \in Nat /\ n > 1
            /\ \A i \in 1..Len(left) : left[i] = r.todo[i + 1]
        BY <2>1, <2>2, <2>4
      <3> HIDE DEF left, n
      <3>2. Len(left) \in 1..Len(left) /\ Len(left) + 1 = n /\ Len(left) # 0
        BY <3>1
      <3>3. left # <<>> /\ left[Len(left)] = r.todo[n]
        BY <3>1, <3>2, EmptySeq
      <3>4. left[Len(left)] = Follow(Btc, "benchmark")
        BY <1>2, <3>3 DEF n
      <3> QED BY <1>2, <2>1, <3>1, <3>3, <3>4, Zenon DEF left
    <2>5. Len(r.todo) = 1 \/ Len(r.todo) > 1
      <3>1. \A n \in Nat \ {0} : n = 1 \/ n > 1
        OBVIOUS
      <3> QED BY <2>2, <3>1, Zenon
    <2> QED BY <2>3, <2>4, <2>5, Zenon
  <1> QED BY <1>1, <1>2 DEF SyncLeft

LEMMA LeftInit == Init => LeftOK
  <1> SUFFICES ASSUME Init, NEW c \in Calls PROVE Left(call[c])
    BY DEF LeftOK
  <1>1. call[c].todo = <<>> /\ call[c].req.kind = None
    BY DEF Init, Unused, NoRequest
  <1>2. None \notin {"snapshot", "startup"}
    BY StoreAssumption DEF Kinds
  <1> QED BY <1>1, <1>2 DEF Left, SyncLeft, SyncKinds

LEMMA LeftStep ==
  ASSUME Inv, LeftOK, [Next]_vars PROVE LeftOK'
  <1> SUFFICES ASSUME NEW d \in Calls PROVE Left(call'[d])
    BY DEF LeftOK
  <1>1. Left(call[d]) /\ versions \in Seq(Settings)
    BY DEF LeftOK, Inv, TablesOK
  <1>2. CASE Same(d)
    BY <1>1, <1>2 DEF Same
  <1>3. CASE Starts(d)
    BY <1>1, <1>3, LeftAtFirst DEF Starts
  <1>4. CASE call'[d].req = call[d].req /\ call'[d].todo = <<>>
    BY <1>1, <1>4 DEF Left, SyncLeft
  <1>5. CASE Open(d) /\ call'[d].req = call[d].req /\ call'[d].todo = Tail(call[d].todo)
    <2>1. call[d].todo # <<>> /\ call[d].req.kind \in Kinds
      BY <1>1, <1>5 DEF Open, Left
    <2>2. \A x : Tail(<<x>>) = <<>>
      OBVIOUS
    <2>3. call[d].req.kind \in {"add", "remove"} => call'[d].todo = <<>>
      BY <1>1, <1>5, <2>1, <2>2 DEF Left
    <2>4. call[d].req.kind \in SyncKinds => SyncLeft(call'[d])
      BY <1>1, <1>5, <2>1, SyncGoesOn DEF Left, SyncLeft
    <2> QED BY <1>1, <1>5, <2>1, <2>3, <2>4 DEF Left
  <1> QED BY <1>2, <1>3, <1>4, <1>5, NextMoves, EachMoves DEF Stops, Goes

(* Whose statement a change of the watchlist is. *)
LEMMA WatchStatement ==
  ASSUME Inv, LeftOK, NEW c \in Calls, Open(c)
  PROVE  LET s == Head(call[c].todo)
         IN  /\ s.do = "put" => /\ call[c].req.kind = "snapshot" /\ s.snap \in Snaps
                                /\ Tail(call[c].todo) = SyncFollowed(s.snap.held)
             /\ s.do = "follow" => /\ s.symbol \in Symbols /\ s.source \in Sources
                                   /\ s = Follow(s.symbol, s.source)
                                   /\ call[c].req.kind \in SyncKinds \cup {"add"}
                                   /\ s.source = "holding" =>
                                        call[c].req.kind \in SyncKinds /\ Tail(call[c].todo) # <<>>
             /\ s.do = "unfollow" => /\ call[c].req.kind = "remove" /\ s.symbol = call[c].req.symbol
                                     /\ s.symbol \in Symbols
  <1> DEFINE s == Head(call[c].todo)
  <1>1. call[c].todo # <<>> /\ Left(call[c]) /\ call[c].req.kind \in Kinds
    BY DEF LeftOK, Left, Open
  <1>2. \A x : Head(<<x>>) = x
    OBVIOUS
  <1>3. s.do \in {"put", "follow", "unfollow"} =>
            call[c].req.kind \in {"add", "remove"} \cup SyncKinds /\ s \in Plain
    BY <1>1, WhoseStatement DEF Kinds, SyncKinds
  <1>4. s.do = "follow" /\ s \in Plain =>
            s.symbol \in Symbols /\ s.source \in Sources /\ s = Follow(s.symbol, s.source)
    BY DEF Plain, Follow
  <1>5. CASE call[c].req.kind = "add"
    <2>1. s = Follow(call[c].req.symbol, "manual")
      BY <1>1, <1>2, <1>5 DEF Left
    <2>2. s.do = "follow" /\ s.source = "manual"
      BY <2>1 DEF Follow
    <2> QED BY <1>3, <1>4, <1>5, <2>2
  <1>6. CASE call[c].req.kind = "remove"
    <2>1. s = Unfollow(call[c].req.symbol)
      BY <1>1, <1>2, <1>6 DEF Left
    <2>2. s.do = "unfollow" /\ s.symbol = call[c].req.symbol
      BY <2>1 DEF Unfollow
    <2>3. s \in Plain => s.symbol \in Symbols
      BY <2>2 DEF Plain
    <2> QED BY <1>3, <1>6, <2>2, <2>3
  <1>7. CASE call[c].req.kind \in SyncKinds
    <2>1. SyncLeft(call[c])
      BY <1>1, <1>7 DEF Left
    <2>2. \/ /\ s = Put(call[c].req.snap) /\ call[c].req.snap \in Snaps
             /\ Tail(call[c].todo) = SyncFollowed(call[c].req.snap.held)
             /\ call[c].req.kind = "snapshot"
          \/ /\ s \in Following
             /\ Tail(call[c].todo) = <<>> => s = Follow(Btc, "benchmark")
      <3>1. call[c].req.kind = "startup" => call[c].todo \in Seq(Following)
        BY <1>1, <2>1 DEF SyncLeft
      <3>2. call[c].req.kind = "startup" => s \in Following
        BY <1>1, <3>1
      <3>3. s \in Following => s.do = "follow"
        BY DEF Following
      <3>4. s = Put(call[c].req.snap) => s.do = "put"
        BY DEF Put
      <3>5. call[c].req.kind \in {"snapshot", "startup"}
        BY <1>7 DEF SyncKinds
      <3> QED BY <1>1, <1>7, <2>1, <3>2, <3>3, <3>4, <3>5, SyncGoesOn
    <2>3. CASE s = Put(call[c].req.snap)
      <3>1. s.do = "put" /\ s.snap = call[c].req.snap
        BY <2>3 DEF Put
      <3>2. s \notin Following
        BY <3>1 DEF Following
      <3> QED BY <2>2, <3>1, <3>2
    <2>4. CASE s \in Following /\ (Tail(call[c].todo) = <<>> => s = Follow(Btc, "benchmark"))
      <3>1. s.do = "follow"
        BY <2>4 DEF Following
      <3>2. s.source = "holding" => Tail(call[c].todo) # <<>>
        BY <2>4 DEF Follow
      <3> QED BY <1>3, <1>4, <1>7, <3>1, <3>2
    <2> QED BY <2>2, <2>3, <2>4
  <1>8. CASE s.do \notin {"put", "follow", "unfollow"}
    BY <1>8
  <1> QED BY <1>3, <1>5, <1>6, <1>7, <1>8
----------------------------------------------------------------------------
(* The benchmark.  While Btc is a holding, a synchronization is under way, *)
(* whose last statement makes Btc the benchmark again, or was cut short;   *)
(* and none has come to its end that began after that.                     *)

Unsettled(c) == /\ Open(c) \/ call[c].cut
                /\ \A d \in Syncs : Complete(d) => c \notin call[d].after

BtcCovered == followed[Btc] = "holding" => \E c \in Syncs : Unsettled(c)

(* What has been asked stays asked. *)
LEMMA RequestsStay ==
  ASSUME Moves, NEW c \in Calls, call[c].req # NoRequest
  PROVE  call'[c].req = call[c].req /\ call'[c].after = call[c].after /\ ~Starts(c)
  BY EachMoves DEF Same, Starts, Stops, Goes

LEMMA MadeStays ==
  ASSUME Moves, NEW kinds, kinds \subseteq Kinds, NEW c \in Made(kinds)
  PROVE  /\ c \in Made(kinds)' /\ c \in Calls /\ call[c].req # NoRequest
         /\ call'[c].req = call[c].req /\ call'[c].after = call[c].after /\ ~Starts(c)
  <1>1. c \in Calls /\ call[c].req.kind \in kinds
    BY DEF Made
  <1>2. call[c].req # NoRequest
    BY <1>1, StoreAssumption DEF NoRequest
  <1> QED BY <1>1, <1>2, RequestsStay DEF Made

(* The last statement of a synchronization. *)
LEMMA SyncEnds ==
  ASSUME Inv, LeftOK, NEW c \in Syncs, Goes(c), Acts(c), Tail(call[c].todo) = <<>>
  PROVE  followed'[Btc] = "benchmark"
  <1> DEFINE s == Head(call[c].todo)
  <1>1. c \in Calls /\ call[c].req.kind \in SyncKinds /\ call[c].todo # <<>> /\ SyncLeft(call[c])
    BY DEF Syncs, Made, SyncKinds, Goes, Open, LeftOK, Left
  <1>2. s = Follow(Btc, "benchmark")
    <2>1. ASSUME s = Put(call[c].req.snap), call[c].req.snap \in Snaps,
                 Tail(call[c].todo) = SyncFollowed(call[c].req.snap.held)
          PROVE  FALSE
      BY <2>1, Sync DEF Snaps
    <2> QED BY <1>1, <2>1, SyncGoesOn
  <1>3. s.do = "follow" /\ s.symbol = Btc /\ s.source = "benchmark"
    BY <1>2 DEF Follow
  <1>4. UpsertFollowed(c)
    BY <1>3 DEF Acts, PutSnapshot, RemoveFollowed, InsertVersion, UpdateSettings,
          GetControl, UpdateControl, Does
  <1>5. followed' = [followed EXCEPT ![Btc] = "benchmark"]
    BY <1>3, <1>4 DEF UpsertFollowed
  <1>6. followed \in [Symbols -> Sources \cup {None}] /\ Btc \in Symbols
    BY StoreAssumption DEF Inv, TablesOK
  <1> QED BY <1>5, <1>6

(* While Btc is a holding, no synchronization comes to its end. *)
LEMMA NoneEnds ==
  ASSUME Inv, Inv', LeftOK, [Next]_vars, followed'[Btc] # "benchmark",
         NEW d \in Syncs', Complete(d)'
  PROVE  d \in Syncs /\ Complete(d) /\ call'[d].after = call[d].after
  <1>1. d \in Calls /\ Moves /\ call'[d].todo = <<>> /\ call'[d].cut = FALSE
    BY NextMoves DEF Syncs, Made, Complete, Open, Inv, CallsOK, CallOK
  <1>2. CASE Same(d)
    BY <1>1, <1>2 DEF Same, Syncs, Made, Complete, Open
  <1>3. ASSUME Starts(d) PROVE FALSE
    <2>1. versions \in Seq(Settings)
      BY DEF Inv, TablesOK
    <2> QED BY <1>1, <1>3, <2>1, StatementsPlanned DEF Starts
  <1>4. ASSUME Stops(d) PROVE FALSE
    BY <1>1, <1>4 DEF Stops
  <1>5. ASSUME Goes(d), Acts(d) PROVE FALSE
    <2>1. d \in Syncs /\ Tail(call[d].todo) = <<>>
      BY <1>1, <1>5 DEF Goes, Syncs, Made
    <2> QED BY <1>5, <2>1, SyncEnds
  <1> QED BY <1>1, <1>2, <1>3, <1>4, <1>5, EachMoves

LEMMA BtcStep ==
  ASSUME Inv, Inv', LeftOK, BtcCovered, [Next]_vars PROVE BtcCovered'
  <1> SUFFICES ASSUME followed'[Btc] = "holding" PROVE \E c \in Syncs' : Unsettled(c)'
    BY DEF BtcCovered
  <1>1. Moves /\ followed \in [Symbols -> Sources \cup {None}] /\ Btc \in Symbols /\ None # "holding"
    BY NextMoves, StoreAssumption DEF Inv, TablesOK, Sources
  <1>2. ASSUME followed[Btc] # "holding" PROVE \E c \in Syncs' : Unsettled(c)'
    <2>1. PICK c \in Calls : Goes(c) /\ Acts(c)
      BY <1>1, <1>2 DEF Moves, tables
    <2> DEFINE s == Head(call[c].todo)
    <2>2. Open(c)
      BY <2>1 DEF Goes
    <2>3. UpsertFollowed(c)
      <3>1. ASSUME RemoveFollowed(c) PROVE FALSE
        <4>1. followed' = [followed EXCEPT ![s.symbol] = None]
          BY <3>1 DEF RemoveFollowed
        <4> QED BY <1>1, <1>2, <4>1
      <3> QED BY <1>2, <2>1, <3>1 DEF Acts, PutSnapshot, InsertVersion, UpdateSettings,
                GetControl, UpdateControl, tables
    <2>4. s.do = "follow" /\ followed' = [followed EXCEPT ![s.symbol] = s.source]
      BY <2>3 DEF UpsertFollowed, Does
    <2>5. s.source = "holding"
      BY <1>1, <1>2, <2>4
    <2>6. call[c].req.kind \in SyncKinds /\ Tail(call[c].todo) # <<>>
      BY <2>2, <2>4, <2>5, WatchStatement
    <2>7. c \in Syncs' /\ call'[c].todo # <<>>
      BY <2>1, <2>6 DEF Goes, Syncs, Made, SyncKinds
    <2>8. \A d \in Calls : c \notin call'[d].after
      BY <2>7 DEF Inv, AfterOK
    <2>9. Syncs' \subseteq Calls
      BY DEF Syncs, Made
    <2> QED BY <2>7, <2>8, <2>9 DEF Unsettled, Open
  <1>3. ASSUME followed[Btc] = "holding" PROVE \E c \in Syncs' : Unsettled(c)'
    <2>1. PICK c \in Syncs : Unsettled(c)
      BY <1>3 DEF BtcCovered
    <2>2. c \in Syncs' /\ c \in Calls
      <3>1. {"snapshot", "startup"} \subseteq Kinds
        BY DEF Kinds
      <3> QED BY <1>1, <3>1, MadeStays DEF Syncs
    <2>3. \A d \in Syncs' : Complete(d)' => d \in Syncs /\ Complete(d) /\ call'[d].after = call[d].after
      BY NoneEnds
    <2>4. ~ Complete(c)
      BY <2>1 DEF Unsettled, Complete
    <2>5. Open(c)' \/ call'[c].cut
      BY <2>2, <2>3, <2>4 DEF Complete
    <2>6. \A d \in Syncs' : Complete(d)' => c \notin call'[d].after
      BY <2>1, <2>3 DEF Unsettled
    <2> QED BY <2>2, <2>5, <2>6 DEF Unsettled
  <1> QED BY <1>2, <1>3
----------------------------------------------------------------------------
(* What is held.  What a synchronization that is not cut short has held is *)
(* followed, or about to be by it, or somebody has removed it since.       *)

ToFollow(c, x) == \E j \in DOMAIN call[c].todo : call[c].todo[j] = Follow(x, "holding")
Removed(c, x)  == \E d \in Made({"remove"}) \ call[c].after : call[d].req.symbol = x

HeldCovered == \A c \in Syncs : ~call[c].cut =>
    \A i \in DOMAIN Held(c) :
        LET x == Held(c)[i] IN followed[x] # None \/ Removed(c, x) \/ ToFollow(c, x)

LEMMA RemovedStays ==
  ASSUME Moves, NEW c \in Syncs, NEW x, Removed(c, x)
  PROVE  Removed(c, x)'
  <1>1. {"snapshot", "startup"} \subseteq Kinds /\ {"remove"} \subseteq Kinds
    BY DEF Kinds
  <1>2. PICK d \in Made({"remove"}) : d \notin call[c].after /\ call[d].req.symbol = x
    BY DEF Removed
  <1>3. call'[c].after = call[c].after
    BY <1>1, MadeStays DEF Syncs
  <1>4. d \in Made({"remove"})' /\ call'[d].req = call[d].req
    BY <1>1, MadeStays
  <1> QED BY <1>2, <1>3, <1>4 DEF Removed

(* A sequence is its first element and its rest. *)
LEMMA HeadOrTail ==
  ASSUME NEW S, NEW t \in Seq(S), NEW j \in DOMAIN t
  PROVE  /\ t # <<>> /\ (j = 1 => t[j] = Head(t))
         /\ j # 1 => j - 1 \in DOMAIN Tail(t) /\ Tail(t)[j - 1] = t[j]
  <1>1. Len(t) \in Nat /\ j \in 1..Len(t)
    BY LenProperties
  <1>2. t # <<>>
    BY <1>1
  <1>3. /\ Tail(t) \in Seq(S) /\ Len(Tail(t)) = Len(t) - 1
        /\ \A i \in 1..Len(Tail(t)) : Tail(t)[i] = t[i + 1]
    BY <1>2, HeadTailProperties
  <1>4. ASSUME j # 1 PROVE j - 1 \in DOMAIN Tail(t) /\ Tail(t)[j - 1] = t[j]
    <2>1. j - 1 \in 1..Len(Tail(t))
      BY <1>1, <1>3, <1>4
    <2>2. Tail(t)[j - 1] = t[(j - 1) + 1] /\ (j - 1) + 1 = j
      BY <1>1, <1>3, <2>1
    <2> QED BY <1>3, <2>1, <2>2, LenProperties
  <1> QED BY <1>1, <1>2, <1>4

(* The statements of the other kinds follow nothing. *)
LEMMA FollowingOnly ==
  ASSUME Inv, LeftOK, NEW c \in Calls, NEW j \in DOMAIN call[c].todo, NEW x,
         call[c].todo[j] = Follow(x, "holding")
  PROVE  \E S : call[c].todo \in Seq(S)
  <1>1. Planned(call[c].req.kind, call[c].todo, versions) /\ versions \in Seq(Settings)
    BY DEF Inv, CallsOK, TablesOK
  <1>2. ASSUME call[c].todo = <<>> PROVE \E S : call[c].todo \in Seq(S)
    BY <1>2, EmptySeq
  <1>3. ASSUME NEW a, call[c].todo = <<a>> PROVE \E S : call[c].todo \in Seq(S)
    <2>1. <<a>> \in Seq({a})
      OBVIOUS
    <2> QED BY <1>3, <2>1, Zenon
  <1>4. ASSUME NEW a, NEW b, call[c].todo = <<a, b>> PROVE \E S : call[c].todo \in Seq(S)
    <2>1. <<a, b>> \in Seq({a, b})
      OBVIOUS
    <2> QED BY <1>4, <2>1, Zenon
  <1>5. CASE call[c].req.kind \in SettingsKinds
    BY <1>1, <1>2, <1>3, <1>4, <1>5, Zenon DEF Planned, Saving
  <1>6. CASE call[c].req.kind \in ControlKinds
    <2>1. \/ call[c].todo = <<>> \/ call[c].todo = <<ReadControl, WriteControl>>
          \/ call[c].todo = <<WriteControl>>
      BY <1>1, <1>6 DEF Planned, Switching
    <2> QED BY <1>2, <1>3, <1>4, <2>1, Zenon
  <1>7. CASE call[c].req.kind \notin SettingsKinds \cup ControlKinds
    BY <1>1, <1>7 DEF Planned
  <1> QED BY <1>5, <1>6, <1>7

(* What a synchronization has held is among its statements. *)
LEMMA HeldAtFirst ==
  ASSUME Inv', LeftOK', [Next]_vars, NEW c \in Syncs', Starts(c), NEW i \in DOMAIN Held(c)'
  PROVE  ToFollow(c, Held(c)[i])'
  <1> DEFINE held == Held(c)'
             sync == SyncFollowed(held)
             req  == call'[c].req
  <1>1. /\ c \in Calls /\ req.kind \in {"snapshot", "startup"} /\ call'[c].todo = Statements(req)
        /\ req.kind = "snapshot" => req.snap \in Snaps
        /\ req.kind = "startup" => req.held \in Holdings
    BY DEF Syncs, Made, Starts, LeftOK, Left
  <1>2. held \in Holdings
    BY <1>1 DEF Held, Snaps
  <1>3. sync \in Seq(Following) /\ i \in DOMAIN sync /\ sync[i] = Follow(held[i], "holding")
    BY <1>2, Sync
  <1>4. CASE req.kind = "startup"
    <2>1. call'[c].todo = sync
      BY <1>1, <1>4 DEF Statements, Held
    <2> QED BY <1>3, <2>1 DEF ToFollow
  <1>5. CASE req.kind = "snapshot"
    <2> DEFINE first == <<Put(req.snap)>>
               S == Following \cup {Put(req.snap)}
    <2>1. call'[c].todo = first \o sync
      BY <1>1, <1>5 DEF Statements, Held
    <2>2. first \in Seq(S) /\ Len(first) = 1 /\ sync \in Seq(S)
      BY <1>3
    <2> HIDE DEF first, S, sync, held
    <2>3. Len(first \o sync) = 1 + Len(sync) /\ Len(sync) \in Nat
          /\ first \o sync \in Seq(S)
          /\ \A j \in 1..(1 + Len(sync)) : (first \o sync)[j] = IF j <= 1 THEN first[j] ELSE sync[j - 1]
      BY <2>2, ConcatProperties, LenProperties
    <2>4. i \in 1..Len(sync)
      BY <1>3
    <2>5. i + 1 \in 1..(1 + Len(sync)) /\ ~(i + 1 <= 1) /\ (i + 1) - 1 = i
      BY <2>3, <2>4
    <2>6. (first \o sync)[i + 1] = sync[i] /\ i + 1 \in DOMAIN (first \o sync)
      BY <2>3, <2>5
    <2> USE DEF held
    <2> QED BY <1>3, <2>1, <2>6 DEF ToFollow
  <1> QED BY <1>1, <1>4, <1>5

(* A statement done leaves the rest. *)
LEMMA ToFollowGoes ==
  ASSUME Inv, LeftOK, NEW c \in Syncs, NEW x \in Symbols, ToFollow(c, x), Goes(c), Acts(c)
  PROVE  ToFollow(c, x)' \/ followed'[x] # None
  <1> DEFINE s == Head(call[c].todo)
  <1>1. /\ c \in Calls /\ Open(c) /\ call'[c].todo = Tail(call[c].todo)
        /\ followed \in [Symbols -> Sources \cup {None}] /\ None \notin Sources
    BY StoreAssumption DEF Syncs, Made, Goes, Inv, TablesOK
  <1>2. PICK j \in DOMAIN call[c].todo : call[c].todo[j] = Follow(x, "holding")
    BY DEF ToFollow
  <1>3. PICK S : call[c].todo \in Seq(S)
    BY <1>1, <1>2, FollowingOnly
  <1>4. CASE j # 1
    <2>1. j - 1 \in DOMAIN Tail(call[c].todo) /\ Tail(call[c].todo)[j - 1] = Follow(x, "holding")
      BY <1>2, <1>3, <1>4, HeadOrTail
    <2> QED BY <1>1, <2>1 DEF ToFollow
  <1>5. CASE j = 1
    <2>1. s = Follow(x, "holding")
      BY <1>2, <1>3, <1>5, HeadOrTail
    <2>2. s.do = "follow" /\ s.symbol = x /\ s.source = "holding"
      BY <2>1 DEF Follow
    <2>3. UpsertFollowed(c)
      BY <2>2 DEF Acts, PutSnapshot, RemoveFollowed, InsertVersion, UpdateSettings,
            GetControl, UpdateControl, Does
    <2>4. followed' = [followed EXCEPT ![x] = "holding"]
      BY <2>2, <2>3 DEF UpsertFollowed
    <2> QED BY <1>1, <2>4 DEF Sources
  <1> QED BY <1>4, <1>5

(* What is followed stays so unless it is removed. *)
LEMMA FollowedStays ==
  ASSUME Inv, LeftOK, [Next]_vars, NEW c \in Syncs, NEW x \in Symbols, followed[x] # None
  PROVE  followed'[x] # None \/ Removed(c, x)
  <1>1. Moves /\ followed \in [Symbols -> Sources \cup {None}] /\ None \notin Sources /\ c \in Calls
    BY NextMoves, StoreAssumption DEF Inv, TablesOK, Syncs, Made
  <1>2. CASE UNCHANGED followed
    BY <1>2
  <1>3. CASE followed' # followed
    <2>1. PICK e \in Calls : Goes(e) /\ Acts(e)
      BY <1>1, <1>3 DEF Moves, tables
    <2> DEFINE s == Head(call[e].todo)
    <2>2. Open(e)
      BY <2>1 DEF Goes
    <2>3. CASE UpsertFollowed(e)
      <3>1. s.do = "follow" /\ followed' = [followed EXCEPT ![s.symbol] = s.source]
        BY <2>3 DEF UpsertFollowed, Does
      <3>2. s.source \in Sources
        BY <2>2, <3>1, WatchStatement
      <3> QED BY <1>1, <3>1, <3>2
    <2>4. CASE RemoveFollowed(e)
      <3>1. s.do = "unfollow" /\ followed' = [followed EXCEPT ![s.symbol] = None]
        BY <2>4 DEF RemoveFollowed, Does
      <3>2. call[e].req.kind = "remove" /\ s.symbol = call[e].req.symbol
        BY <2>2, <3>1, WatchStatement
      <3>3. e \notin call[c].after
        BY <1>1, <2>2 DEF Inv, AfterOK, Open
      <3>4. CASE s.symbol = x
        BY <3>2, <3>3, <3>4 DEF Removed, Made
      <3>5. CASE s.symbol # x
        BY <1>1, <3>1, <3>5
      <3> QED BY <3>4, <3>5
    <2>5. UpsertFollowed(e) \/ RemoveFollowed(e)
      BY <1>3, <2>1 DEF Acts, PutSnapshot, InsertVersion, UpdateSettings, GetControl, UpdateControl, tables
    <2> QED BY <2>3, <2>4, <2>5
  <1> QED BY <1>2, <1>3

LEMMA HeldStep ==
  ASSUME Inv, Inv', LeftOK, LeftOK', HeldCovered, [Next]_vars PROVE HeldCovered'
  <1> SUFFICES ASSUME NEW c \in Syncs', ~call'[c].cut, NEW i \in DOMAIN Held(c)',
                      NEW x, x = Held(c)'[i]
               PROVE  followed'[x] # None \/ Removed(c, x)' \/ ToFollow(c, x)'
    BY DEF HeldCovered
  <1>1. Moves /\ c \in Calls
    BY NextMoves DEF Syncs, Made
  <1>2. CASE Starts(c)
    <2>1. ToFollow(c, Held(c)[i])'
      BY <1>2, HeldAtFirst
    <2> QED BY <2>1 DEF ToFollow
  <1>3. ASSUME Same(c) \/ (Goes(c) /\ Acts(c))
        PROVE  followed'[x] # None \/ Removed(c, x)' \/ ToFollow(c, x)'
    <2>1. /\ c \in Syncs /\ call'[c].req = call[c].req /\ call'[c].after = call[c].after
          /\ call[c].todo # <<>> => ~call[c].cut
          /\ call[c].req.kind = "snapshot" => call[c].req.snap \in Snaps
          /\ call[c].req.kind = "startup" => call[c].req.held \in Holdings
      BY <1>1, <1>3 DEF Same, Goes, Syncs, Made, LeftOK, Left, Inv, CallsOK, CallOK
    <2>2. ~call[c].cut /\ Held(c)' = Held(c)
      BY <1>3, <2>1 DEF Same, Goes, Open, Held
    <2>3. Held(c) \in Holdings
      BY <2>1 DEF Held, Snaps, Syncs, Made
    <2>4. x \in Symbols
      BY <2>2, <2>3, StoreAssumption
    <2>5. followed[x] # None \/ Removed(c, x) \/ ToFollow(c, x)
      BY <2>1, <2>2 DEF HeldCovered
    <2>6. CASE Removed(c, x)
      BY <1>1, <2>1, <2>6, RemovedStays
    <2>7. CASE followed[x] # None
      BY <1>1, <2>1, <2>4, <2>7, FollowedStays, RemovedStays
    <2>8. CASE ToFollow(c, x)
      <3>1. CASE Same(c)
        BY <2>8, <3>1 DEF ToFollow, Same
      <3>2. CASE Goes(c) /\ Acts(c)
        BY <2>1, <2>4, <2>8, <3>2, ToFollowGoes
      <3> QED BY <1>3, <3>1, <3>2
    <2> QED BY <2>5, <2>6, <2>7, <2>8
  <1>4. ASSUME Stops(c) PROVE FALSE
    BY <1>4 DEF Stops
  <1> QED BY <1>1, <1>2, <1>3, <1>4, EachMoves
----------------------------------------------------------------------------
(* The end of the history.  In turn, a call that has a version to activate *)
(* has just added it, and a version that fits and is followed by none that *)
(* does is active or about to be.                                          *)

LastFit(i) == /\ i \in DOMAIN versions /\ versions[i] \in Fits
              /\ \A j \in DOMAIN versions : j > i => versions[j] \notin Fits

Activating(v) == \E c \in Made(SettingsKinds) : call[c].todo = <<Activate(v)>>

HistoryOK ==
    faults = 0 /\ InTurn(SettingsKinds) =>
        /\ \A v \in Settings : Activating(v) => v = versions[Len(versions)]
        /\ \A i \in DOMAIN versions : LastFit(i) =>
              active = Kept[versions[i]] \/ Activating(versions[i])

LEMMA InTurnBefore ==
  ASSUME Moves, Inv, InTurn(SettingsKinds)'
  PROVE  InTurn(SettingsKinds) /\ Made(SettingsKinds) \subseteq Made(SettingsKinds)'
  <1>1. SettingsKinds \subseteq Kinds
    BY DEF Kinds
  <1>2. \A c \in Made(SettingsKinds) : c \in Made(SettingsKinds)' /\ call'[c].after = call[c].after
    BY <1>1, MadeStays
  <1> QED BY <1>2 DEF InTurn, Apart

LEMMA OnlyOneSaves ==
  ASSUME Inv, InTurn(SettingsKinds), NEW c \in Made(SettingsKinds), NEW d \in Made(SettingsKinds),
         call[c].todo # <<>>, call[d].todo # <<>>
  PROVE  c = d
  BY DEF Inv, AfterOK, InTurn, Apart, Made

LEMMA NotSaving ==
  ASSUME NEW v, NEW w, NEW u
  PROVE  /\ <<AddVersion(v), Activate(w)>> # <<Activate(u)>> /\ <<>> # <<Activate(u)>>
         /\ <<Activate(v)>> = <<Activate(w)>> => v = w
  <1>1. \A a, b, c : <<a, b>> # <<c>> /\ <<>> # <<c>>
    OBVIOUS
  <1>2. \A a, b : <<a>> = <<b>> => a = b
    OBVIOUS
  <1>3. Activate(v) = Activate(w) => v = w
    BY DEF Activate
  <1> QED BY <1>1, <1>2, <1>3

LEMMA SaveStarts ==
  ASSUME NEW d \in Calls, Starts(d), NEW v, call'[d].req.kind \in SettingsKinds
  PROVE  call'[d].todo # <<Activate(v)>>
  <1>1. \E w : Statements(call'[d].req) = <<AddVersion(w), Activate(w)>>
    <2>1. CASE call'[d].req.kind = "save"
      BY <2>1 DEF Statements, Save
    <2>2. CASE call'[d].req.kind = "revert"
      BY <2>2 DEF Statements, Save
    <2> QED BY <2>1, <2>2 DEF SettingsKinds
  <1> QED BY <1>1, NotSaving DEF Starts

LEMMA HistoryStep ==
  ASSUME Inv, HistoryOK, [Next]_vars PROVE HistoryOK'
  <1> SUFFICES ASSUME faults' = 0, InTurn(SettingsKinds)'
               PROVE  /\ \A v \in Settings : Activating(v)' => v = versions'[Len(versions')]
                      /\ \A i \in DOMAIN versions' : LastFit(i)' =>
                            active' = Kept[versions'[i]] \/ Activating(versions[i])'
    BY DEF HistoryOK
  <1>1. Moves /\ faults = 0 /\ versions \in Seq(Settings)
    <2>1. Moves
      BY NextMoves
    <2>2. faults = 0
      BY <2>1 DEF Moves
    <2> QED BY <2>1, <2>2 DEF Inv, TablesOK
  <1>2. InTurn(SettingsKinds) /\ Made(SettingsKinds) \subseteq Made(SettingsKinds)'
    BY <1>1, InTurnBefore
  <1>3. /\ \A v \in Settings : Activating(v) => v = versions[Len(versions)]
        /\ \A i \in DOMAIN versions : LastFit(i) =>
              active = Kept[versions[i]] \/ Activating(versions[i])
    BY <1>1, <1>2 DEF HistoryOK
  <1>4. ASSUME UNCHANGED <<versions, active>>,
               \A v \in Settings : Activating(v)' <=> Activating(v)
        PROVE  /\ \A v \in Settings : Activating(v)' => v = versions'[Len(versions')]
               /\ \A i \in DOMAIN versions' : LastFit(i)' =>
                     active' = Kept[versions'[i]] \/ Activating(versions[i])'
    <2>1. \A i \in DOMAIN versions : versions[i] \in Settings
      BY <1>1
    <2>2. \A i : LastFit(i)' <=> LastFit(i)
      BY <1>4 DEF LastFit
    <2> HIDE DEF Activating, LastFit
    <2> QED BY <1>3, <1>4, <2>1, <2>2
  <1>5. ASSUME UNCHANGED tables, \A d \in Calls : Same(d) \/ Starts(d) \/ Stops(d),
               \A d \in Calls : Stops(d) => call[d].req.kind = "snapshot"
        PROVE  /\ \A v \in Settings : Activating(v)' => v = versions'[Len(versions')]
               /\ \A i \in DOMAIN versions' : LastFit(i)' =>
                     active' = Kept[versions'[i]] \/ Activating(versions[i])'
    <2>1. ASSUME NEW v \in Settings, Activating(v)' PROVE Activating(v)
      <3>1. PICK c \in Calls : call'[c].req.kind \in SettingsKinds /\ call'[c].todo = <<Activate(v)>>
        BY <2>1 DEF Activating, Made
      <3>2. call'[c].todo # <<>>
        BY <3>1, NotSaving
      <3>3. Same(c)
        BY <1>5, <3>1, <3>2, SaveStarts DEF Stops
      <3> QED BY <3>1, <3>3 DEF Same, Activating, Made
    <2>2. ASSUME NEW v \in Settings, Activating(v) PROVE Activating(v)'
      <3>1. PICK c \in Calls : call[c].req.kind \in SettingsKinds /\ call[c].todo = <<Activate(v)>>
        BY <2>2 DEF Activating, Made
      <3>2. call[c].todo # <<>> /\ call[c].req.kind # "snapshot"
        BY <3>1, NotSaving DEF SettingsKinds
      <3>3. Same(c)
        BY <1>5, <3>2 DEF Starts
      <3> QED BY <3>1, <3>3 DEF Same, Activating, Made
    <2>3. UNCHANGED <<versions, active>>
      BY <1>5 DEF tables
    <2> HIDE DEF Activating
    <2> QED BY <1>4, <2>1, <2>2, <2>3
  <1>6. ASSUME NEW c \in Calls, Goes(c), Acts(c)
        PROVE  /\ \A v \in Settings : Activating(v)' => v = versions'[Len(versions')]
               /\ \A i \in DOMAIN versions' : LastFit(i)' =>
                     active' = Kept[versions'[i]] \/ Activating(versions[i])'
    <2> DEFINE s == Head(call[c].todo)
    <2>1. /\ Open(c) /\ call[c].todo # <<>>
          /\ \A d \in Calls : call'[d].req = call[d].req
          /\ call'[c].todo = Tail(call[c].todo)
          /\ \A d \in Calls \ {c} : call'[d].todo = call[d].todo
      BY <1>6 DEF Goes, Same, Open
    <2>2. Made(SettingsKinds)' = Made(SettingsKinds)
      BY <2>1 DEF Made
    <2>3. ASSUME c \in Made(SettingsKinds), NEW d \in Made(SettingsKinds), d # c PROVE call[d].todo = <<>>
      BY <1>2, <2>1, <2>3, OnlyOneSaves
    <2>4. CASE InsertVersion(c)
      <3>1. s.do = "version" /\ versions' = Append(versions, s.settings) /\ UNCHANGED active
        BY <2>4 DEF InsertVersion, Does
      <3>2. /\ call[c].req.kind \in SettingsKinds
            /\ s.settings \in Settings /\ Tail(call[c].todo) = <<Activate(s.settings)>>
        BY <2>1, <3>1, WhoseStatement
      <3>3. c \in Made(SettingsKinds)
        BY <3>2 DEF Made
      <3> DEFINE n == Len(versions)
      <3>4. PICK v \in Settings : versions' = Append(versions, v) /\ call'[c].todo = <<Activate(v)>>
        BY <2>1, <3>1, <3>2
      <3>5. /\ versions' \in Seq(Settings) /\ Len(versions') = n + 1 /\ n \in Nat
            /\ \A i \in 1..n : versions'[i] = versions[i]
            /\ versions'[n + 1] = v
            /\ DOMAIN versions = 1..n /\ DOMAIN versions' = 1..(n + 1)
        BY <1>1, <3>4, AppendProperties, LenProperties
      <3>6. \A w \in Settings : ~ Activating(w)
        <4> SUFFICES ASSUME NEW w \in Settings, NEW d \in Made(SettingsKinds), call[d].todo = <<Activate(w)>>
                     PROVE  FALSE
          BY DEF Activating
        <4>1. call[d].todo # <<>>
          BY NotSaving
        <4>2. d = c
          BY <2>3, <3>3, <4>1
        <4>3. Head(<<Activate(w)>>) = Activate(w)
          OBVIOUS
        <4>4. s.do = "activate"
          BY <4>2, <4>3 DEF Activate
        <4> QED BY <3>1, <4>4
      <3>7. ASSUME NEW w \in Settings, Activating(w)' PROVE w = v
        <4>1. PICK d \in Made(SettingsKinds) : call'[d].todo = <<Activate(w)>>
          BY <2>2, <3>7 DEF Activating
        <4>2. call'[d].todo # <<>>
          BY <4>1, NotSaving
        <4>3. d \in Calls
          BY DEF Made
        <4>4. d = c
          BY <2>1, <2>3, <3>3, <4>2, <4>3
        <4> QED BY <3>4, <4>1, <4>4, NotSaving
      <3>8. Activating(v)'
        BY <2>2, <3>3, <3>4 DEF Activating
      <3>9. ASSUME NEW i \in DOMAIN versions', LastFit(i)'
            PROVE  active' = Kept[versions'[i]] \/ Activating(versions[i])'
        <4>1. CASE i = n + 1
          <5>1. versions'[i] = v
            BY <3>5, <4>1
          <5> QED BY <3>8, <5>1 DEF Activating
        <4>2. CASE i # n + 1
          <5>1. i \in 1..n
            BY <3>5, <3>9, <4>2
          <5>2. versions'[i] = versions[i] /\ \A j \in 1..n : versions'[j] = versions[j]
            BY <3>5, <5>1
          <5>3. LastFit(i)
            <6>1. versions'[i] \in Fits /\ \A j \in 1..(n + 1) : j > i => versions'[j] \notin Fits
              BY <3>5, <3>9 DEF LastFit
            <6>2. \A j \in 1..n : j \in 1..(n + 1)
              BY <3>5
            <6> QED BY <3>5, <5>1, <5>2, <6>1, <6>2 DEF LastFit
          <5>4. versions[i] \in Settings
            BY <1>1, <3>5, <5>1
          <5>5. active = Kept[versions[i]]
            BY <1>3, <3>5, <3>6, <5>1, <5>3, <5>4
          <5> QED BY <3>1, <5>2, <5>5
        <4> QED BY <4>1, <4>2
      <3> QED BY <3>5, <3>7, <3>9
    <2>5. CASE UpdateSettings(c)
      <3>1. /\ s.do = "activate" /\ UNCHANGED versions
            /\ \/ s.settings \in Fits /\ active' = Kept[s.settings]
               \/ s.settings \notin Fits /\ UNCHANGED active
        BY <2>5 DEF UpdateSettings, Does
      <3>2. /\ call[c].req.kind \in SettingsKinds /\ Tail(call[c].todo) = <<>>
            /\ \E i \in DOMAIN versions : s.settings = versions[i]
        BY <2>1, <3>1, WhoseStatement
      <3>3. c \in Made(SettingsKinds)
        BY <3>2 DEF Made
      <3>4. \A w : ~ Activating(w)'
        <4> SUFFICES ASSUME NEW w, NEW d \in Made(SettingsKinds), call'[d].todo = <<Activate(w)>>
                     PROVE  FALSE
          BY <2>2 DEF Activating
        <4>1. call'[d].todo # <<>> /\ d \in Calls
          BY NotSaving DEF Made
        <4> QED BY <2>1, <2>3, <3>2, <3>3, <4>1
      <3>5. s.settings \in Settings /\ call[c].todo = <<Activate(s.settings)>>
        <4>1. Planned(call[c].req.kind, call[c].todo, versions)
          BY DEF Inv, CallsOK
        <4>2. \/ \E v \in Settings : call[c].todo = <<AddVersion(v), Activate(v)>>
              \/ \E i \in DOMAIN versions : call[c].todo = <<Activate(versions[i])>>
          BY <2>1, <3>2, <4>1 DEF Planned, Saving
        <4>3. \A v \in Settings : call[c].todo # <<AddVersion(v), Activate(v)>>
          <5> SUFFICES ASSUME NEW v \in Settings, call[c].todo = <<AddVersion(v), Activate(v)>> PROVE FALSE
            OBVIOUS
          <5>1. s = AddVersion(v)
            OBVIOUS
          <5> QED BY <3>1, <5>1 DEF AddVersion
        <4>4. PICK i \in DOMAIN versions : call[c].todo = <<Activate(versions[i])>>
          BY <4>2, <4>3
        <4>5. s = Activate(versions[i])
          BY <4>4
        <4>6. s.settings = versions[i] /\ versions[i] \in Settings
          BY <1>1, <4>5 DEF Activate
        <4> QED BY <4>4, <4>6
      <3>6. s.settings = versions[Len(versions)]
        BY <1>3, <3>3, <3>5 DEF Activating
      <3>7. Len(versions) \in DOMAIN versions /\ DOMAIN versions = 1..Len(versions) /\ Len(versions) \in Nat
        BY <1>1, <3>2, LenProperties
      <3>8. ASSUME NEW i \in DOMAIN versions, LastFit(i) PROVE active' = Kept[versions[i]]
        <4>1. CASE s.settings \in Fits /\ active' = Kept[s.settings]
          <5>1. ~ (Len(versions) > i)
            BY <3>6, <3>7, <3>8, <4>1 DEF LastFit
          <5>2. i = Len(versions)
            BY <3>7, <5>1
          <5> QED BY <3>6, <4>1, <5>2
        <4>2. CASE s.settings \notin Fits /\ UNCHANGED active
          <5>1. versions[i] # versions[Len(versions)]
            BY <3>6, <3>8, <4>2 DEF LastFit
          <5>2. versions[i] \in Settings
            BY <1>1
          <5>3. ~ Activating(versions[i])
            BY <1>3, <5>1, <5>2
          <5> QED BY <1>3, <3>8, <4>2, <5>3
        <4> QED BY <3>1, <4>1, <4>2
      <3>9. \A i : LastFit(i)' <=> LastFit(i)
        BY <3>1 DEF LastFit
      <3> HIDE DEF Activating, LastFit
      <3> QED BY <3>1, <3>4, <3>8, <3>9
    <2>6. CASE PutSnapshot(c) \/ UpsertFollowed(c) \/ RemoveFollowed(c) \/ GetControl(c) \/ UpdateControl(c)
      <3>1. s.do \in {"put", "follow", "unfollow", "read", "write"} /\ UNCHANGED <<versions, active>>
        BY <2>6 DEF PutSnapshot, UpsertFollowed, RemoveFollowed, GetControl, UpdateControl, Does, tables
      <3>2. call[c].req.kind \notin SettingsKinds
        BY <2>1, <3>1, WhoseStatement DEF SettingsKinds, ControlKinds
      <3>3. \A d \in Made(SettingsKinds) : call'[d].todo = call[d].todo
        BY <2>1, <3>2 DEF Made
      <3>4. \A v : Activating(v)' <=> Activating(v)
        BY <2>2, <3>3 DEF Activating
      <3> HIDE DEF Activating
      <3> QED BY <1>4, <3>1, <3>4
    <2> QED BY <1>6, <2>4, <2>5, <2>6 DEF Acts
  <1> QED BY <1>1, <1>5, <1>6 DEF Moves
----------------------------------------------------------------------------
LEMMA WatchInit == Init => LeftOK /\ BtcCovered /\ HeldCovered /\ HistoryOK
  <1> SUFFICES ASSUME Init PROVE BtcCovered /\ HeldCovered /\ HistoryOK
    BY LeftInit
  <1>1. BtcCovered
    <2>1. followed[Btc] = None /\ None # "holding"
      BY StoreAssumption DEF Init, Sources
    <2> QED BY <2>1 DEF BtcCovered
  <1>2. HeldCovered
    <2>1. Syncs = {}
      <3>1. \A c \in Calls : call[c].req.kind = None
        BY DEF Init, Unused, NoRequest
      <3>2. None \notin {"snapshot", "startup"}
        BY StoreAssumption DEF Kinds
      <3> QED BY <3>1, <3>2 DEF Syncs, Made
    <2> QED BY <2>1 DEF HeldCovered
  <1>3. HistoryOK
    <2>1. DOMAIN versions = {}
      BY DEF Init
    <2>2. \A v : ~ Activating(v)
      <3>1. \A c \in Calls : call[c].todo = <<>>
        BY DEF Init, Unused
      <3> QED BY <3>1, NotSaving DEF Activating, Made
    <2> HIDE DEF Activating
    <2> QED BY <2>1, <2>2 DEF HistoryOK
  <1> QED BY <1>1, <1>2, <1>3

LEMMA NothingOpen ==
  ASSUME Quiet, NEW c \in Calls PROVE call[c].todo = <<>>
  BY DEF Quiet, OpenCalls, Open

(* However synchronizations interleave, are posted twice, abandoned, cut   *)
(* short or made up for by a new process: BTC-USD is left a holding only   *)
(* by one that was cut short, until another that began after it comes to   *)
(* its end (syncFollowedSymbolsFromPositions).                             *)
THEOREM BtcStays == Spec => []BtcStaysBenchmark
  <1>1. BtcCovered => BtcStaysBenchmark
    <2> SUFFICES ASSUME BtcCovered, Quiet, followed[Btc] = "holding"
                 PROVE  \E c \in Syncs : /\ call[c].cut
                                         /\ \A d \in Syncs : Complete(d) => c \notin call[d].after
      BY DEF BtcStaysBenchmark
    <2>1. PICK c \in Syncs : Unsettled(c)
      BY DEF BtcCovered
    <2>2. ~Open(c)
      BY NothingOpen DEF Open, Syncs, Made
    <2> QED BY <2>1, <2>2 DEF Unsettled
  <1> QED BY Initial, Step, WatchInit, LeftStep, BtcStep, <1>1, PTL DEF Spec

(* What a synchronization that came to its end has held is followed unless *)
(* it has been removed since, whatever overlaps with it                    *)
(* (handleInternalSnapshot, syncFollowedSymbolsFromPositions).             *)
THEOREM HoldingsFollowed == Spec => []HoldingsAreFollowed
  <1>1. HeldCovered => HoldingsAreFollowed
    <2> SUFFICES ASSUME HeldCovered, NEW c \in Syncs, Complete(c), NEW i \in DOMAIN Held(c)
                 PROVE  \/ followed[Held(c)[i]] # None
                        \/ \E d \in Made({"remove"}) \ call[c].after : call[d].req.symbol = Held(c)[i]
      BY DEF HoldingsAreFollowed
    <2>1. call[c].todo = <<>> /\ ~call[c].cut
      BY DEF Complete, Open
    <2>2. ~ ToFollow(c, Held(c)[i])
      BY <2>1 DEF ToFollow
    <2> QED BY <2>1, <2>2 DEF HeldCovered, Removed
  <1> QED BY Initial, Step, WatchInit, LeftStep, HeldStep, <1>1, PTL DEF Spec

(* Saves and reverts that do not overlap leave the last version that fits  *)
(* active: handleAlertSettingsUpdate, RevertSignalSettings.                *)
THEOREM HistoryEnds == Spec => []HistoryEndsActive
  <1>1. Inv /\ HistoryOK => HistoryEndsActive
    <2> DEFINE fitting == {i \in DOMAIN versions : versions[i] \in Fits}
    <2> SUFFICES ASSUME Inv, HistoryOK, Quiet, faults = 0, InTurn(SettingsKinds), fitting # {}
                 PROVE  active = Kept[versions[Max(fitting)]]
      BY DEF HistoryEndsActive
    <2>1. Len(versions) \in Nat /\ DOMAIN versions = 1..Len(versions)
      BY LenProperties DEF Inv, TablesOK
    <2>2. fitting \in SUBSET (0..Len(versions))
      BY <2>1
    <2>3. Max(fitting) \in fitting /\ \A k \in fitting : k <= Max(fitting)
      <3> HIDE DEF fitting
      <3> QED BY <2>1, <2>2, MaxOf
    <2>4. LastFit(Max(fitting))
      <3> DEFINE m == Max(fitting)
      <3>1. m \in fitting /\ \A k \in fitting : k <= m
        BY <2>3
      <3> HIDE DEF m
      <3>2. LastFit(m)
        BY <2>1, <3>1 DEF LastFit
      <3> QED BY <3>2 DEF m
    <2>5. \A v : ~ Activating(v)
      BY NothingOpen, NotSaving DEF Activating, Made
    <2> HIDE DEF fitting, Activating
    <2> QED BY <2>4, <2>5 DEF HistoryOK, LastFit
  <1> QED BY Initial, Step, WatchInit, HistoryStep, <1>1, PTL DEF Spec
=============================================================================
