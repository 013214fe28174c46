-------------------------- MODULE ConnectorsProofs --------------------------
(***************************************************************************)
(* What holds of a connector's tool for any number of definitions, places, *)
(* calls, commands and changes: the state keeps its shape, nothing widens  *)
(* what the user allowed, and every call that leaves was reviewed, granted *)
(* or confirmed.                                                           *)
(*                                                                         *)
(* The inductive invariant has two parts.  RegistryInv ties the pin to     *)
(* what the user said; a change of the pin is a listing, a new permission, *)
(* an accepted review or a cleared tool, and one lemma is about each.      *)
(* TurnInv ties what the turn saw of the registry to the registry now.     *)
(***************************************************************************)
EXTENDS Connectors, TLAPS

-----------------------------------------------------------------------------
(* The pin.                                                                *)

PinShape(p) ==
    /\ p.pending = Nothing => p.was = Blocked
    /\ p.pending # Nothing => p.perm = Blocked
    /\ p.unreviewed => p.perm = Blocked /\ p.pending = Nothing

\* A pinned definition the user never accepted is marked so.
Accounted == pin.def # Nothing /\ ~pin.unreviewed => pin.def \in reviewed

RegistryInv == PinShape(pin) /\ NeverAboveWord /\ Accounted

\* The pin tells of the listing l.
Shows(p, l) == p.def = Nothing \/ p.missing \/ Latest(p) = l

LEMMA PermissionOrder ==
    /\ Permission \subseteq Nat
    /\ Blocked \in Permission /\ NeedsApproval \in Permission
    /\ AlwaysAllow \in Permission
    /\ AlwaysAllow # NeedsApproval /\ AlwaysAllow # Blocked
    /\ NeedsApproval # Blocked
    /\ \A p \in Permission : Blocked <= p /\ p <= AlwaysAllow
    BY DEF Permission, Blocked, NeedsApproval, AlwaysAllow

LEMMA NewPinType ==
    ASSUME NEW d \in Listing, NEW perm \in Permission, NEW u \in BOOLEAN
    PROVE  NewPin(d, perm, u) \in ToolPin
<1>1. Nothing \in Listing /\ Blocked \in Permission
    BY PermissionOrder DEF Listing
<1>2. QED
    BY <1>1 DEF NewPin, ToolPin

LEMMA NoPinType == NoPin \in ToolPin
    BY NewPinType, PermissionOrder DEF NoPin, Listing

\* A listing leaves a pin of the right shape.
LEMMA ReconciledType ==
    ASSUME NEW p \in ToolPin, NEW l \in Listing, NEW first \in BOOLEAN
    PROVE  Reconciled(p, l, first) \in ToolPin
<1>1. CASE l = Nothing
    BY <1>1 DEF Reconciled, ToolPin
<1>2. CASE l # Nothing /\ p.def = Nothing
    BY <1>2, NewPinType, PermissionOrder DEF Reconciled, Listed
<1>3. CASE l # Nothing /\ p.def # Nothing /\ p.def = l
    BY <1>3, PermissionOrder DEF Reconciled, Reverted, ToolPin, Listing
<1>4. CASE l # Nothing /\ p.def # Nothing /\ p.def # l
    <2>1. Reconciled(p, l, first) = Changed(p, l)
        BY <1>4 DEF Reconciled
    <2>2. CASE p.unreviewed
        BY <2>1, <2>2, NewPinType, PermissionOrder DEF Changed
    <2>3. CASE ~p.unreviewed
        BY <2>1, <2>3, PermissionOrder DEF Changed, ToolPin
    <2>4. QED
        BY <2>2, <2>3
<1>5. QED
    BY <1>1, <1>2, <1>3, <1>4

\* After a listing, the pin tells of it.
LEMMA ReconciledShows ==
    ASSUME NEW p \in ToolPin, NEW l \in Listing, NEW first \in BOOLEAN
    PROVE  Shows(Reconciled(p, l, first), l)
<1>1. CASE l = Nothing
    BY <1>1 DEF Reconciled, ToolPin, Shows
<1>2. CASE l # Nothing /\ p.def = Nothing
    BY <1>2 DEF Reconciled, Listed, NewPin, Shows, Latest
<1>3. CASE l # Nothing /\ p.def # Nothing /\ p.def = l
    BY <1>3 DEF Reconciled, Reverted, ToolPin, Shows, Latest
<1>4. CASE l # Nothing /\ p.def # Nothing /\ p.def # l
    <2>1. Reconciled(p, l, first) = Changed(p, l)
        BY <1>4 DEF Reconciled
    <2>2. CASE p.unreviewed
        BY <2>1, <2>2 DEF Changed, NewPin, Shows, Latest
    <2>3. CASE ~p.unreviewed /\ p.pending = l
        BY <1>4, <2>1, <2>3 DEF Changed, ToolPin, Shows, Latest
    <2>4. CASE ~p.unreviewed /\ p.pending # l
        BY <1>4, <2>1, <2>4 DEF Changed, ToolPin, Shows, Latest
    <2>5. QED
        BY <2>2, <2>3, <2>4
<1>5. QED
    BY <1>1, <1>2, <1>3, <1>4

\* A listing keeps a pin's shape, widens nothing, and leaves an accepted
\* definition in place.
Succeeds(q, p) ==
    /\ q.perm \in {Blocked, p.perm, p.was}
    /\ q.was \in {Blocked, p.perm, p.was}
    /\ ~q.unreviewed => ~p.unreviewed /\ q.def = p.def
    /\ q.def # p.def => q.perm = Blocked /\ q.was = Blocked

LEMMA ReconciledKeeps ==
    ASSUME NEW p \in ToolPin, NEW l \in Listing, NEW first \in BOOLEAN,
           p.def # Nothing, PinShape(p)
    PROVE  /\ PinShape(Reconciled(p, l, first))
           /\ Succeeds(Reconciled(p, l, first), p)
<1>1. CASE l = Nothing
    BY <1>1 DEF Reconciled, ToolPin, PinShape, Succeeds
<1>2. CASE l # Nothing /\ p.def = l
    BY <1>2 DEF Reconciled, Reverted, ToolPin, PinShape, Succeeds
<1>3. CASE l # Nothing /\ p.def # l
    <2>1. Reconciled(p, l, first) = Changed(p, l)
        BY <1>3 DEF Reconciled
    <2>2. CASE p.unreviewed
        BY <2>1, <2>2 DEF Changed, NewPin, PinShape, Succeeds
    <2>3. CASE ~p.unreviewed /\ p.pending = l
        BY <1>3, <2>1, <2>3 DEF Changed, ToolPin, PinShape, Succeeds
    <2>4. CASE ~p.unreviewed /\ p.pending # l
        BY <1>3, <2>1, <2>4 DEF Changed, ToolPin, PinShape, Succeeds
    <2>5. QED
        BY <2>2, <2>3, <2>4
<1>4. QED
    BY <1>1, <1>2, <1>3

\* The pin of a tool listed for the first time.
LEMMA ReconciledNew ==
    ASSUME NEW p \in ToolPin, NEW l \in Listing, NEW first \in BOOLEAN,
           p.def = Nothing
    PROVE  LET q == Reconciled(p, l, first) IN
           /\ l # Nothing => q = Listed(p, l, first)
           /\ l = Nothing => /\ q.def = p.def /\ q.perm = p.perm /\ q.was = p.was
                             /\ q.pending = p.pending /\ q.unreviewed = p.unreviewed
<1>1. CASE l = Nothing
    BY <1>1 DEF Reconciled, ToolPin
<1>2. CASE l # Nothing
    BY <1>2 DEF Reconciled
<1>3. QED
    BY <1>1, <1>2

-----------------------------------------------------------------------------
(* Each way the registry changes keeps RegistryInv.                        *)

LEMMA ListingKeeps ==
    ASSUME pin \in ToolPin, baseline \in BOOLEAN, word \in Permission,
           RegistryInv, NEW l \in Listing, ApplyListing(l)
    PROVE  RegistryInv' /\ Shows(pin, l)'
<1>1. pin' = Reconciled(pin, l, ~baseline) /\ (~baseline) \in BOOLEAN /\ granted' = granted
    BY DEF ApplyListing
<1>2. Shows(pin', l)
    BY <1>1, ReconciledShows
<1>3. CASE pin.def # Nothing
    <2>1. reviewed' = reviewed /\ word' = word
        BY <1>3 DEF ApplyListing
    <2>2. PinShape(pin') /\ Succeeds(pin', pin)
        BY <1>1, <1>3, ReconciledKeeps DEF RegistryInv
    <2>3. NeverAboveWord'
        BY <1>1, <2>1, <2>2, PermissionOrder DEF RegistryInv, NeverAboveWord, Succeeds
    <2>4. Accounted'
        BY <2>1, <2>2, <1>3 DEF RegistryInv, Accounted, Succeeds
    <2>5. QED
        BY <1>2, <2>2, <2>3, <2>4 DEF RegistryInv
<1>4. CASE pin.def = Nothing /\ l = Nothing
    <2>1. reviewed' = reviewed /\ word' = word
        BY <1>4 DEF ApplyListing
    <2>2. /\ pin'.def = pin.def /\ pin'.perm = pin.perm /\ pin'.was = pin.was
          /\ pin'.pending = pin.pending /\ pin'.unreviewed = pin.unreviewed
        BY <1>1, <1>4, ReconciledNew
    <2>3. PinShape(pin')
        BY <2>2 DEF RegistryInv, PinShape
    <2>4. QED
        BY <1>1, <1>2, <1>4, <2>1, <2>2, <2>3 DEF RegistryInv, NeverAboveWord, Accounted
<1>5. CASE pin.def = Nothing /\ l # Nothing
    <2>1. pin' = Listed(pin, l, ~baseline)
        BY <1>1, <1>5, ReconciledNew
    <2>2. CASE ~baseline
        <3>1. pin' = NewPin(l, NeedsApproval, FALSE)
              /\ reviewed' = reviewed \cup {l} /\ word' = NeedsApproval
            BY <1>5, <2>1, <2>2 DEF ApplyListing, Listed
        <3>2. QED
            BY <1>2, <3>1
            DEF RegistryInv, PinShape, NeverAboveWord, Accounted, NewPin,
                Blocked, NeedsApproval, AlwaysAllow
    <2>3. CASE baseline
        <3>1. pin' = NewPin(l, Blocked, TRUE) /\ word' = word
            BY <1>5, <2>1, <2>3 DEF ApplyListing, Listed
        <3>2. QED
            BY <1>2, <3>1
            DEF RegistryInv, PinShape, NeverAboveWord, Accounted, NewPin,
                Blocked, NeedsApproval, AlwaysAllow
    <2>4. QED
        BY <2>2, <2>3
<1>6. QED
    BY <1>3, <1>4, <1>5

LEMMA PermissionKeeps ==
    ASSUME pin \in ToolPin, RegistryInv, NEW p \in Permission, SetPermission(p),
           pin.pending = Nothing, pin.unreviewed => p = Blocked,
           reviewed' = reviewed
    PROVE  RegistryInv' /\ \A l : Shows(pin, l) => Shows(pin, l)'
<1>1. /\ pin' = [pin EXCEPT !.perm = p] /\ word' = p
      /\ granted' = IF p = AlwaysAllow THEN pin.def ELSE Nothing
    BY DEF SetPermission
<1>2. /\ pin'.perm = p /\ pin'.def = pin.def /\ pin'.was = pin.was
      /\ pin'.pending = pin.pending /\ pin'.unreviewed = pin.unreviewed
      /\ pin'.missing = pin.missing
    BY <1>1 DEF ToolPin
<1>3. pin.was = Blocked
    BY DEF RegistryInv, PinShape
<1>4. PinShape(pin')
    BY <1>2, <1>3 DEF RegistryInv, PinShape
<1>5. NeverAboveWord'
    BY <1>1, <1>2, <1>3, PermissionOrder DEF NeverAboveWord
<1>6. Accounted'
    BY <1>2 DEF RegistryInv, Accounted
<1>7. QED
    BY <1>2, <1>4, <1>5, <1>6 DEF RegistryInv, Shows, Latest

LEMMA ReviewKeeps ==
    ASSUME pin \in ToolPin, RegistryInv, NEW d \in Definitions, Reviewable(d), Accept(d)
    PROVE  RegistryInv' /\ \A l : Shows(pin, l) => Shows(pin, l)'
<1>1. pin' = Accepted(pin) /\ reviewed' = reviewed \cup {d} /\ word' = NeedsApproval
    BY DEF Accept
<1>2. /\ pin'.def = d /\ ~pin'.unreviewed /\ pin'.pending = Nothing
      /\ pin'.was = Blocked /\ pin'.perm = NeedsApproval /\ pin'.missing = pin.missing
      /\ Latest(pin) = d /\ pin.def # Nothing
    BY <1>1 DEF Accepted, Reviewable, HasPin, ToolPin
<1>3. RegistryInv'
    BY <1>1, <1>2, PermissionOrder DEF RegistryInv, PinShape, NeverAboveWord, Accounted
<1>4. QED
    BY <1>2, <1>3 DEF Shows, Latest

LEMMA ClearingKeeps ==
    ASSUME ToolsCleared
    PROVE  RegistryInv' /\ \A l : Shows(pin, l)'
<1>1. pin' = NewPin(Nothing, Blocked, FALSE) /\ word' = Blocked
    BY DEF ToolsCleared, NoPin
<1>2. QED
    BY <1>1, PermissionOrder
    DEF RegistryInv, PinShape, NeverAboveWord, Accounted, NewPin, Shows

-----------------------------------------------------------------------------
(* The shape of the state.                                                 *)

LEMMA Constants0 ==
    /\ Start \in Places /\ Nothing \in Listing /\ Nothing \in Places0
    /\ Places \subseteq Places0 /\ Definitions \subseteq Listing
    /\ Served \subseteq [Places -> Listing]
    /\ MaxCalls \in Nat /\ MaxEvents \in Nat
    BY DefinitionsAssumption, ConnectorBoundsAssumption DEF Listing, Places0

SyncOK ==
    sync \in SyncState /\ (sync.pc \in {"connect", "list"} => sync.to \in Places)
TurnOK ==
    turn \in TurnState /\ (turn.pc \in {"connect", "list"} => turn.to \in Places)

LEMMA EmptyTurnType ==
    EmptyTurn("none") \in TurnState /\ EmptyTurn("over") \in TurnState
    BY Constants0 DEF EmptyTurn, TurnState, Calls

LEMMA ReturnedType ==
    ASSUME turn \in TurnState
    PROVE  Returned(turn) \in TurnState /\ Returned(turn).pc = "idle"
    BY Constants0 DEF Returned, TurnState

LEMMA EventType ==
    ASSUME events \in 0 .. MaxEvents, Event
    PROVE  events' \in 0 .. MaxEvents
    BY Constants0 DEF Event

LEMMA ApplyListingType ==
    ASSUME TypeOK, NEW l \in Listing, ApplyListing(l)
    PROVE  /\ config' \in Places0 /\ on' \in BOOLEAN /\ baseline' \in BOOLEAN
           /\ pin' \in ToolPin
           /\ reviewed' \subseteq Definitions /\ word' \in Permission
           /\ granted' \in Listing /\ ran' \subseteq Calls /\ confirmed' \subseteq Calls
<1>1. pin' = Reconciled(pin, l, ~baseline) /\ (~baseline) \in BOOLEAN /\ baseline' = TRUE
    BY DEF ApplyListing, TypeOK
<1>2. pin' \in ToolPin
    BY <1>1, ReconciledType DEF TypeOK
<1>3. reviewed' \subseteq Definitions /\ word' \in Permission
    BY PermissionOrder DEF ApplyListing, TypeOK, Listing
<1>4. QED
    BY <1>1, <1>2, <1>3 DEF ApplyListing, TypeOK

LEMMA SetPermissionType ==
    ASSUME TypeOK, NEW p \in Permission, SetPermission(p)
    PROVE  pin' \in ToolPin /\ word' \in Permission /\ granted' \in Listing
    BY Constants0 DEF SetPermission, TypeOK, ToolPin

LEMMA ClearedType ==
    ASSUME TypeOK, ToolsCleared
    PROVE  /\ pin' \in ToolPin /\ baseline' \in BOOLEAN
           /\ word' \in Permission /\ granted' \in Listing
    BY Constants0, NoPinType, PermissionOrder DEF ToolsCleared, TypeOK

LEMMA LatestType ==
    ASSUME TypeOK, HasPin
    PROVE  Latest(pin) \in Definitions
    BY DEF TypeOK, HasPin, Latest, ToolPin, Listing

LEMMA SettleType ==
    ASSUME TypeOK, NEW c \in Calls, Settle(c)
    PROVE  TurnOK' /\ ran' \subseteq Calls
<1>1. CASE turn.pc = "card" /\ turn.calls = c
    <2>1. turn' = [turn EXCEPT !.pc = "check", !.approval = "user"]
        BY <1>1 DEF Settle
    <2>2. turn' \in TurnState /\ turn'.pc = "check"
        BY <2>1 DEF TypeOK, TurnState
    <2>3. ran' = ran \cup {c}
        BY <1>1 DEF Settle
    <2>4. QED
        BY <2>2, <2>3 DEF TypeOK, TurnOK
<1>2. CASE ~(turn.pc = "card" /\ turn.calls = c)
    BY <1>2 DEF Settle, TypeOK, TurnOK
<1>3. QED
    BY <1>1, <1>2

LEMMA OutsideType ==
    ASSUME TypeOK, Outside
    PROVE  TypeOK'
<1>1. ASSUME NEW p \in Places, NEW l \in Listing, ServerChanges(p, l)
      PROVE  TypeOK'
    BY <1>1, EventType
    DEF TypeOK, ServerChanges, registry, questions, history
<1>2. CASE IdleCloses
    BY <1>2, EventType, Constants0
    DEF TypeOK, IdleCloses, registry, questions, history
<1>3. CASE DropConnection
    BY <1>3, Constants0 DEF TypeOK, DropConnection, registry, questions, history
<1>4. QED
    BY <1>1, <1>2, <1>3 DEF Outside

LEMMA ConnectionType ==
    ASSUME TypeOK, NEW p \in Places
    PROVE  Connection(p) \in Places
    BY DEF TypeOK, Connection, Places0

LEMMA SyncingType ==
    ASSUME TypeOK, Syncing
    PROVE  TypeOK'
<1> USE DEF SyncRest, RegistryRest, questions, history
<1>0. SyncOK /\ TurnOK
    BY DEF TypeOK, SyncOK, TurnOK
<1>1. CASE SyncBegins
    <2>1. SyncOK'
        BY <1>1 DEF SyncBegins, TypeOK, SyncState, SyncOK, IsActive, Places0
    <2>2. events' \in 0 .. MaxEvents
        BY <1>1, EventType DEF SyncBegins, TypeOK
    <2>3. QED
        BY <1>1, <2>1, <2>2 DEF SyncBegins, TypeOK, SyncOK
<1>2. CASE SyncConnects
    <2>1. cached' \in Places
        BY <1>2, ConnectionType DEF SyncConnects, TypeOK
    <2>2. SyncOK'
        BY <1>2, <2>1, Constants0 DEF SyncConnects, TypeOK, SyncState, SyncOK
    <2>3. QED
        BY <1>2, <2>1, <2>2, Constants0 DEF SyncConnects, TypeOK, SyncOK
<1>3. CASE SyncLists
    <2>1. server[sync.to] \in Listing
        BY <1>3 DEF SyncLists, TypeOK
    <2>2. SyncOK'
        BY <1>3, <2>1 DEF SyncLists, TypeOK, SyncState, SyncOK
    <2>3. QED
        BY <1>3, <2>2 DEF SyncLists, TypeOK, SyncOK
<1>4. CASE SyncFails
    <2>1. SyncOK' /\ cached' \in Places0
        BY <1>4, Constants0 DEF SyncFails, SyncEnds, TypeOK, SyncState, SyncOK
    <2>2. QED
        BY <1>4, <2>1 DEF SyncFails, TypeOK, SyncOK
<1>5. CASE SyncReconciles
    <2>1. sync.listed \in Listing /\ ApplyListing(sync.listed)
        BY <1>5 DEF SyncReconciles, TypeOK, SyncState
    <2>2. SyncOK'
        BY <1>5, Constants0 DEF SyncReconciles, SyncEnds, SyncState, SyncOK
    <2>3. TurnOK'
        BY <1>0, <1>5 DEF SyncReconciles, TurnState, TurnOK
    <2>4. QED
        BY <1>5, <2>1, <2>2, <2>3, ApplyListingType
        DEF SyncReconciles, TypeOK, SyncOK, TurnOK
<1>6. QED
    BY <1>1, <1>2, <1>3, <1>4, <1>5 DEF Syncing

LEMMA AskingType ==
    ASSUME TypeOK, Asking
    PROVE  TypeOK'
<1> USE DEF CommandRest, registry, history
<1>1. ASSUME Event PROVE events' \in 0 .. MaxEvents
    BY <1>1, EventType DEF TypeOK
<1>2. ASSUME NEW p \in Permission, Lower(p) PROVE TypeOK'
    <2>1. Event /\ SetPermission(p)
        BY <1>2 DEF Lower
    <2>2. QED
        BY <1>1, <1>2, <2>1, SetPermissionType DEF Lower, TypeOK
<1>3. ASSUME NEW p \in Permission, AskLoosen(p) PROVE TypeOK'
    <2>1. [to |-> p, from |-> 0, raises |-> TRUE] \in Loosening
        BY Constants0 DEF Loosening, Calls
    <2>2. QED
        BY <1>1, <1>3, <2>1 DEF AskLoosen, TypeOK
<1>4. CASE AskReview
    BY <1>1, <1>4, LatestType DEF AskReview, TypeOK
<1>5. ASSUME NEW p \in Places, AskEdit(p) PROVE TypeOK'
    BY <1>1, <1>5 DEF AskEdit, TypeOK
<1>6. CASE AskSwitchOn
    BY <1>1, <1>6 DEF AskSwitchOn, TypeOK
<1>7. CASE SwitchOff
    BY <1>1, <1>7 DEF SwitchOff, TypeOK
<1>8. CASE Remove
    <2>1. ToolsCleared
        BY <1>8 DEF Remove
    <2>2. QED
        BY <1>1, <1>8, <2>1, ClearedType, Constants0 DEF Remove, TypeOK, ToolsCleared
<1>9. QED
    BY <1>2, <1>3, <1>4, <1>5, <1>6, <1>7, <1>8 DEF Asking

LEMMA AnsweringType ==
    ASSUME TypeOK, Answering
    PROVE  TypeOK'
<1> USE DEF AnswerRest, registry, history
<1>1. ASSUME NEW p \in Places, AnswerEdit(p) PROVE TypeOK'
    <2>1. CASE config = Nothing
        BY <1>1, <2>1 DEF AnswerEdit, TypeOK
    <2>2. CASE config # Nothing
        <3>1. SaveEdit(p)
            BY <1>1, <2>2 DEF AnswerEdit
        <3>2. CASE p # config
            BY <1>1, <3>1, <3>2, ClearedType, Constants0
            DEF AnswerEdit, SaveEdit, TypeOK, ToolsCleared
        <3>3. CASE p = config
            BY <1>1, <3>1, <3>3 DEF AnswerEdit, SaveEdit, TypeOK
        <3>4. QED
            BY <3>2, <3>3
    <2>3. QED
        BY <2>1, <2>2
<1>2. CASE AnswerSwitchOn
    BY <1>2 DEF AnswerSwitchOn, TypeOK
<1>3. ASSUME NEW d \in Definitions, AnswerReview(d) PROVE TypeOK'
    <2>1. CASE Reviewable(d)
        <3>1. Accept(d)
            BY <1>3, <2>1 DEF AnswerReview
        <3>2. Latest(pin) \in Listing
            BY <2>1, LatestType, Constants0 DEF Reviewable
        <3>3. pin' \in ToolPin
            BY <3>1, <3>2, PermissionOrder, Constants0
            DEF Accept, Accepted, TypeOK, ToolPin
        <3>4. QED
            BY <1>3, <3>1, <3>3, PermissionOrder, Constants0
            DEF AnswerReview, Accept, TypeOK
    <2>2. CASE ~Reviewable(d)
        BY <1>3, <2>2 DEF AnswerReview, TypeOK
    <2>3. QED
        BY <2>1, <2>2
<1>4. ASSUME NEW q \in Loosening, AnswerLoosen(q) PROVE TypeOK'
    <2>1. CASE StillPlanned(q)
        <3>1. /\ Loosen(q) /\ Settle(q.from) /\ q.from \in Calls /\ q.to \in Permission
              /\ UNCHANGED <<reviewed, confirmed>>
            BY <1>4, <2>1 DEF AnswerLoosen, Loosening
        <3>2. pin' \in ToolPin /\ word' \in Permission /\ granted' \in Listing
            BY <3>1, SetPermissionType DEF Loosen, TypeOK
        <3>3. TurnOK' /\ ran' \subseteq Calls
            BY <3>1, SettleType
        <3>4. QED
            BY <1>4, <3>1, <3>2, <3>3 DEF AnswerLoosen, TypeOK, TurnOK
    <2>2. CASE ~StillPlanned(q)
        BY <1>4, <2>2 DEF AnswerLoosen, TypeOK
    <2>3. QED
        BY <2>1, <2>2
<1>5. ASSUME NEW c \in Calls, AnswerSend(c) PROVE TypeOK'
    <2>1. TurnOK' /\ ran' \subseteq Calls
        BY <1>5, SettleType DEF AnswerSend
    <2>2. QED
        BY <1>5, <2>1 DEF AnswerSend, TypeOK, TurnOK, CardRest
<1>6. CASE Refuse
    BY <1>6 DEF Refuse, TypeOK
<1>7. QED
    BY <1>1, <1>2, <1>3, <1>4, <1>5, <1>6 DEF Answering

LEMMA ServerErrorType ==
    ASSUME TypeOK, ServerError
    PROVE  TurnOK' /\ turn'.pc = "idle"
<1>1. turn' = [Returned(turn) EXCEPT !.sealed = TRUE, !.heard = TRUE]
      /\ Returned(turn) \in TurnState /\ Returned(turn).pc = "idle"
    BY ReturnedType DEF ServerError, TypeOK
<1>2. QED
    BY <1>1 DEF TurnState, TurnOK

LEMMA TurnStepsType ==
    ASSUME TypeOK, TurnSteps
    PROVE  TypeOK'
<1> USE DEF TurnRest, registry, questions, history
<1>0. SyncOK /\ TurnOK /\ Returned(turn) \in TurnState /\ Returned(turn).pc = "idle"
    BY ReturnedType DEF TypeOK, SyncOK, TurnOK
<1>1. CASE TurnConnects
    <2>1. cached' \in Places
        BY <1>1, ConnectionType DEF TurnConnects, TypeOK
    <2>2. TurnOK'
        BY <1>0, <1>1, <2>1, Constants0 DEF TurnConnects, TurnState, TurnOK
    <2>3. QED
        BY <1>1, <2>1, <2>2, Constants0 DEF TurnConnects, TypeOK, TurnOK
<1>2. CASE TurnLists
    <2>1. server[turn.to] \in Listing
        BY <1>2 DEF TurnLists, TypeOK
    <2>2. TurnOK'
        BY <1>0, <1>2, <2>1 DEF TurnLists, TurnState, TurnOK
    <2>3. QED
        BY <1>2, <2>2 DEF TurnLists, TypeOK, TurnOK
<1>3. CASE TurnFails
    <2>1. TurnOK' /\ cached' \in Places0
        BY <1>3, ServerErrorType, Constants0 DEF TurnFails, TypeOK
    <2>2. QED
        BY <1>3, <2>1 DEF TurnFails, TypeOK, TurnOK
<1>4. CASE TurnReconciles
    <2>1. turn.listed \in Listing /\ ApplyListing(turn.listed)
        BY <1>0, <1>4 DEF TurnReconciles, TurnState, TurnOK
    <2>2. TurnOK'
        BY <1>0, <1>4 DEF TurnReconciles, TurnState, TurnOK
    <2>3. QED
        BY <1>4, <2>1, <2>2, ApplyListingType DEF TurnReconciles, TypeOK, TurnOK
<1>5. CASE Judge
    <2>1. TurnOK'
        BY <1>0, <1>5 DEF Judge, TurnState, TurnOK
    <2>2. QED
        BY <1>5, <2>1 DEF Judge, TypeOK, TurnOK
<1>6. CASE Check
    <2>1. TurnOK'
        BY <1>0, <1>6 DEF Check, TurnState, TurnOK
    <2>2. QED
        BY <1>6, <2>1 DEF Check, TypeOK, TurnOK
<1>7. CASE Result
    <2>1. TurnOK' /\ cached' \in Places0
        BY <1>7, ServerErrorType, Constants0 DEF Result, TypeOK
    <2>2. QED
        BY <1>7, <2>1 DEF Result, TypeOK, TurnOK
<1>8. CASE CardRefused
    BY <1>0, <1>8 DEF CardRefused, CardRest, TypeOK, TurnOK
<1>9. QED
    BY <1>1, <1>2, <1>3, <1>4, <1>5, <1>6, <1>7, <1>8 DEF TurnSteps

LEMMA HarnessType ==
    ASSUME TypeOK, Harness
    PROVE  TypeOK'
<1> USE DEF TurnRest, registry, questions, history
<1>1. CASE TurnBegins
    <2>1. turn' \in TurnState /\ turn'.pc = "idle"
        BY <1>1 DEF TurnBegins, TypeOK, TurnState, ToolPin
    <2>2. QED
        BY <1>1, <2>1 DEF TurnBegins, TypeOK
<1>2. CASE MarkKeepLocal
    <2>1. turn' \in TurnState /\ turn'.pc = turn.pc
        BY <1>2 DEF MarkKeepLocal, TypeOK, TurnState
    <2>2. QED
        BY <1>2, <2>1, EventType DEF MarkKeepLocal, TypeOK
<1>3. CASE Propose
    <2>1. turn.calls + 1 \in Calls
        BY <1>3, Constants0 DEF Propose, TypeOK, TurnState, Calls
    <2>2. turn' = [turn EXCEPT !.calls = turn.calls + 1]
          \/ /\ IsActive
             /\ turn' = [turn EXCEPT !.calls = turn.calls + 1, !.pc = "connect",
                                     !.to = config]
        BY <1>3 DEF Propose, TypeOK, TurnState
    <2>3. TurnOK'
        BY <1>3, <2>1, <2>2 DEF Propose, TypeOK, TurnState, TurnOK, IsActive, Places0
    <2>4. QED
        BY <1>3, <2>3 DEF Propose, TypeOK, TurnOK
<1>4. CASE TurnStops
    <2>1. turn' = EmptyTurn("over") /\ turn'.pc = "over"
        BY <1>4 DEF TurnStops, EmptyTurn
    <2>2. QED
        BY <1>4, <2>1, EmptyTurnType DEF TurnStops, TypeOK
<1>5. QED
    BY <1>1, <1>2, <1>3, <1>4 DEF Harness

LEMMA CardType ==
    ASSUME TypeOK, Card
    PROVE  TypeOK'
<1> USE DEF CardRest
<1>1. CASE AllowRead
    <2>1. turn.calls \in Calls
        BY DEF TypeOK, TurnState
    <2>2. TurnOK' /\ ran' \subseteq Calls
        BY <1>1, <2>1, SettleType DEF AllowRead
    <2>3. QED
        BY <1>1, <2>2 DEF AllowRead, TypeOK, TurnOK
<1>2. CASE AskTrust
    <2>1. [to |-> AlwaysAllow, from |-> turn.calls,
           raises |-> (pin.perm # AlwaysAllow)] \in Loosening
        BY PermissionOrder DEF TypeOK, TurnState, Loosening
    <2>2. QED
        BY <1>2, <2>1 DEF AskTrust, TypeOK
<1>3. CASE AskSend
    <2>1. turn.calls \in Calls
        BY DEF TypeOK, TurnState
    <2>2. QED
        BY <1>3, <2>1 DEF AskSend, TypeOK
<1>4. QED
    BY <1>1, <1>2, <1>3 DEF Card

LEMMA InitType ==
    ASSUME Init
    PROVE  TypeOK
<1>1. SyncOK
    BY Constants0 DEF Init, SyncState, SyncOK
<1>2. turn \in TurnState /\ turn.pc = "none"
    BY EmptyTurnType DEF Init, EmptyTurn
<1>3. server \in [Places -> Listing]
    BY Constants0 DEF Init
<1>4. pin \in ToolPin /\ word \in Permission /\ granted \in Listing
    BY Constants0, NoPinType, PermissionOrder DEF Init
<1>5. config \in Places0 /\ cached \in Places0 /\ events \in 0 .. MaxEvents
    BY Constants0 DEF Init
<1>6. QED
    BY <1>1, <1>2, <1>3, <1>4, <1>5 DEF Init, TypeOK, SyncOK

LEMMA StepType ==
    ASSUME TypeOK, [Next]_vars
    PROVE  TypeOK'
<1>1. CASE UNCHANGED vars
    BY <1>1 DEF vars, registry, questions, history, TypeOK
<1>2. QED
    BY <1>1, OutsideType, SyncingType, AskingType, AnsweringType, TurnStepsType,
       HarnessType, CardType DEF Next

\* The state keeps its shape: permissions are permissions, no call exceeds
\* the budget, and every connection goes to a place (hub.rs, pin.rs).
THEOREM ConnectorTypes == Spec => []TypeOK
<1>1. Init => TypeOK
    BY InitType
<1>2. TypeOK /\ [Next]_vars => TypeOK'
    BY StepType
<1>3. QED
    BY <1>1, <1>2, PTL DEF Spec

-----------------------------------------------------------------------------
(* What the user said, and what the turn saw.                              *)

\* Every step but a listing leaves the pin telling of the same listings, and
\* nothing accepted is forgotten.
LEMMA RegistryStep ==
    ASSUME TypeOK, RegistryInv, [Next]_vars
    PROVE  /\ RegistryInv' /\ reviewed \subseteq reviewed'
           /\ SyncReconciles \/ TurnReconciles \/ \A l : Shows(pin, l) => Shows(pin, l)'
           /\ TurnReconciles => Shows(pin', turn.listed)
<1> DEFINE Goal == /\ RegistryInv' /\ reviewed \subseteq reviewed'
                   /\ \/ SyncReconciles \/ TurnReconciles
                      \/ \A l : Shows(pin, l) => Shows(pin, l)'
                   /\ TurnReconciles => Shows(pin', turn.listed)
<1> SUFFICES Goal
    OBVIOUS
<1>1. ASSUME UNCHANGED <<pin, word, granted, reviewed>>, ~TurnReconciles PROVE Goal
    BY <1>1 DEF RegistryInv, NeverAboveWord, Accounted, Shows, Latest
<1>2. CASE SyncReconciles
    <2>1. sync.listed \in Listing /\ ApplyListing(sync.listed) /\ ~TurnReconciles
        BY <1>2 DEF SyncReconciles, SyncEnds, TurnReconciles, TypeOK, SyncState
    <2>2. RegistryInv'
        BY <2>1, ListingKeeps DEF TypeOK
    <2>3. QED
        BY <1>2, <2>1, <2>2 DEF ApplyListing
<1>3. CASE TurnReconciles
    <2>1. turn.listed \in Listing /\ ApplyListing(turn.listed)
        BY <1>3 DEF TurnReconciles, TypeOK, TurnState
    <2>2. RegistryInv' /\ Shows(pin', turn.listed)
        BY <2>1, ListingKeeps DEF TypeOK, Shows, Latest
    <2>3. QED
        BY <1>3, <2>1, <2>2 DEF ApplyListing
<1>4. ASSUME NEW p \in Permission, Lower(p) PROVE Goal
    <2>1. SetPermission(p) /\ reviewed' = reviewed /\ turn' = turn
        BY <1>4 DEF Lower, CommandRest
    <2>2. pin.perm \in Permission /\ pin.perm # Blocked
        BY <1>4, PermissionOrder DEF Lower, TypeOK, ToolPin, Permission, Blocked
    <2>3. pin.pending = Nothing /\ ~pin.unreviewed
        BY <2>2 DEF RegistryInv, PinShape
    <2>4. ~TurnReconciles
        BY <2>1 DEF TurnReconciles, TypeOK, TurnState
    <2>5. QED
        BY <2>1, <2>3, <2>4, PermissionKeeps DEF TypeOK
<1>5. ASSUME NEW d \in Definitions, AnswerReview(d) PROVE Goal
    <2>1. ~TurnReconciles
        BY <1>5 DEF AnswerReview, TurnReconciles, TypeOK, TurnState
    <2>2. CASE Reviewable(d)
        <3>1. Accept(d)
            BY <1>5, <2>2 DEF AnswerReview
        <3>2. QED
            BY <2>1, <2>2, <3>1, ReviewKeeps DEF Accept, TypeOK
    <2>3. CASE ~Reviewable(d)
        BY <1>1, <1>5, <2>1, <2>3 DEF AnswerReview, history
    <2>4. QED
        BY <2>2, <2>3
<1>6. ASSUME NEW q \in Loosening, AnswerLoosen(q) PROVE Goal
    <2>1. ~TurnReconciles
        BY <1>6
        DEF AnswerLoosen, TurnReconciles, Settle, TypeOK, TurnState, AnswerRest
    <2>2. CASE StillPlanned(q) /\ q.raises
        <3>1. SetPermission(q.to) /\ reviewed' = reviewed /\ q.to \in Permission
            BY <1>6, <2>2 DEF AnswerLoosen, Loosen, Loosening
        <3>2. pin.pending = Nothing /\ ~pin.unreviewed
            BY <2>2 DEF StillPlanned, MaySet, NeedsReview
        <3>3. QED
            BY <2>1, <3>1, <3>2, PermissionKeeps DEF TypeOK
    <2>3. CASE ~(StillPlanned(q) /\ q.raises)
        BY <1>1, <1>6, <2>1, <2>3 DEF AnswerLoosen, Loosen, history
    <2>4. QED
        BY <2>2, <2>3
<1>7. ASSUME ToolsCleared, turn' = turn PROVE Goal
    <2>1. ~TurnReconciles
        BY <1>7 DEF TurnReconciles, TypeOK, TurnState
    <2>2. QED
        BY <1>7, <2>1, ClearingKeeps DEF ToolsCleared
<1>8. CASE Remove
    BY <1>7, <1>8 DEF Remove, CommandRest
<1>9. ASSUME NEW p \in Places, AnswerEdit(p) PROVE Goal
    <2>1. turn' = turn
        BY <1>9 DEF AnswerEdit
    <2>2. CASE ToolsCleared
        BY <1>7, <2>1, <2>2
    <2>3. CASE ~ToolsCleared
        <3>1. UNCHANGED <<pin, word, granted, reviewed>>
            BY <1>9, <2>3 DEF AnswerEdit, SaveEdit, history
        <3>2. ~TurnReconciles
            BY <2>1 DEF TurnReconciles, TypeOK, TurnState
        <3>3. QED
            BY <1>1, <3>1, <3>2
    <2>4. QED
        BY <2>2, <2>3
<1> DEFINE Still == UNCHANGED <<pin, word, granted, reviewed>>
<1>10. ASSUME Still PROVE Goal
    BY <1>1, <1>3, <1>10
<1>11. Outside => Still
    BY DEF Outside, ServerChanges, IdleCloses, DropConnection, registry, history
<1>12. Syncing => Still \/ SyncReconciles
    BY DEF Syncing, SyncBegins, SyncConnects, SyncLists, SyncFails, RegistryRest, history
<1>13. Asking => Still \/ Remove \/ \E p \in Permission : Lower(p)
    BY DEF Asking, AskLoosen, AskReview, AskEdit, AskSwitchOn, SwitchOff, registry, history
<1>14. AnswerSwitchOn \/ Refuse => Still
    BY DEF AnswerSwitchOn, Refuse, registry, history
<1>15. ASSUME NEW c \in Calls, AnswerSend(c) PROVE Still
    BY <1>15 DEF AnswerSend, CardRest
<1>16. TurnSteps => Still \/ TurnReconciles
    BY DEF TurnSteps, TurnConnects, TurnLists, TurnFails, Judge, Check, Result,
           CardRefused, CardRest, TurnRest, registry, history
<1>17. Harness => Still
    BY DEF Harness, TurnBegins, MarkKeepLocal, Propose, TurnStops, TurnRest, registry,
           history
<1>18. Card => Still
    BY DEF Card, AllowRead, AskTrust, AskSend, CardRest
<1>19. UNCHANGED vars => Still
    BY DEF vars, registry, history
<1> HIDE DEF Goal, Still
<1>20. CASE Asking
    BY <1>4, <1>8, <1>10, <1>13, <1>20
<1>21. CASE Answering
    BY <1>5, <1>6, <1>9, <1>10, <1>14, <1>15, <1>21 DEF Answering
<1>22. CASE Outside \/ Syncing \/ TurnSteps \/ Harness \/ Card \/ UNCHANGED vars
    BY <1>2, <1>3, <1>10, <1>11, <1>12, <1>16, <1>17, <1>18, <1>19, <1>22
<1>23. QED
    BY <1>20, <1>21, <1>22 DEF Next

Calling == {"connect", "list", "reconcile", "judge", "card", "check"}

\* What the turn learnt is what the pin tells, until another listing crosses.
Seen == /\ turn.pc = "judge" /\ ~turn.crossed => Shows(pin, turn.listed)
        /\ turn.pc \in {"card", "check"} /\ ~turn.crossed => turn.listed \in reviewed
\* A call under way has a number and an unsealed turn.
Counted == /\ turn.heard => turn.sealed
           /\ turn.pc \in Calling => ~turn.sealed /\ turn.calls # 0
           /\ turn.pc = "none" => turn.route = Nothing
\* What the user was asked on a card is answered for that card.
Answered ==
    /\ turn.pc = "check" /\ turn.approval = "user" =>
         turn.calls \in ran /\ (Kind(turn.route) = "write" => turn.calls \in confirmed)
    /\ \A q \in loosening : q.from # 0 /\ turn.pc # "over" => Kind(turn.route) = "read"

TurnInv == Seen /\ Counted /\ Answered

LEMMA TurnStill ==
    ASSUME TurnInv, turn' = turn, ran \subseteq ran', confirmed \subseteq confirmed',
           reviewed \subseteq reviewed', \A q \in loosening' : q \in loosening \/ q.from = 0,
           \A l : Shows(pin, l) => Shows(pin, l)'
    PROVE  TurnInv'
<1>1. Seen'
    BY DEF TurnInv, Seen, Shows, Latest
<1>2. Counted'
    BY DEF TurnInv, Counted
<1>3. Answered'
    BY DEF TurnInv, Answered, Kind
<1>4. QED
    BY <1>1, <1>2, <1>3 DEF TurnInv

LEMMA NothingIsWritten == Kind(Nothing) = "write"
    BY DefinitionsAssumption DEF Kind

LEMMA ReturnedFields ==
    ASSUME turn \in TurnState
    PROVE  /\ Returned(turn).pc = "idle" /\ Returned(turn).heard = turn.heard
           /\ Returned(turn).sealed = turn.sealed /\ Returned(turn).route = turn.route
    BY DEF Returned, TurnState

LEMMA TurnReturns ==
    ASSUME TypeOK, TurnInv, turn.pc \in Calling \cup {"sent"}, loosening' = loosening,
           turn' = Returned(turn) \/ ServerError
    PROVE  TurnInv'
<1>1. /\ turn'.pc = "idle" /\ turn'.route = turn.route
      /\ turn'.heard => turn'.sealed
    <2>1. CASE turn' = Returned(turn)
        BY <2>1, ReturnedFields DEF TypeOK, TurnInv, Counted
    <2>2. CASE ServerError
        BY <2>2, ReturnedFields, ReturnedType DEF ServerError, TypeOK, TurnState
    <2>3. QED
        BY <2>1, <2>2
<1>2. turn.pc # "over"
    BY DEF Calling
<1>3. QED
    BY <1>1, <1>2 DEF TurnInv, Seen, Counted, Answered, Calling, Kind

LEMMA TurnStepsKeep ==
    ASSUME TypeOK, RegistryInv, TurnInv, TurnSteps, [Next]_vars
    PROVE  TurnInv'
<1> USE DEF TurnRest, registry, questions, history
<1>0. turn \in TurnState
    BY DEF TypeOK
<1>1. CASE TurnConnects \/ TurnLists
    BY <1>0, <1>1
    DEF TurnConnects, TurnLists, TurnState, TurnInv, Seen, Counted, Answered, Calling, Kind
<1>2. CASE TurnFails \/ Result
    BY <1>2, TurnReturns DEF TurnFails, Result, Calling
<1>3. CASE TurnReconciles
    <2>1. Shows(pin', turn.listed)
        BY <1>3, RegistryStep
    <2>2. /\ turn'.pc = "judge" /\ turn'.listed = turn.listed /\ turn'.route = turn.route
          /\ turn'.calls = turn.calls /\ turn'.sealed = turn.sealed
          /\ turn'.heard = turn.heard /\ loosening' = loosening
        BY <1>0, <1>3 DEF TurnReconciles, TurnState
    <2>3. turn.pc = "reconcile"
        BY <1>3 DEF TurnReconciles
    <2>4. QED
        BY <2>1, <2>2, <2>3
        DEF TurnInv, Seen, Counted, Answered, Calling, Kind, Shows, Latest
<1>4. CASE Judge
    <2>1. CASE ~AsOffered
        BY <1>4, <2>1, TurnReturns DEF Judge, Calling
    <2>2. CASE AsOffered
        <3>1. ~turn.crossed => turn.listed \in reviewed
            BY <1>4, <2>2
            DEF Judge, AsOffered, Offerable, NeedsReview, RegistryInv, Accounted, TurnInv,
                Seen, Shows, Latest
        <3>2. /\ turn'.pc \in {"card", "check"} /\ turn'.listed = turn.listed
              /\ turn'.route = turn.route /\ turn'.crossed = turn.crossed
              /\ turn'.calls = turn.calls /\ turn'.sealed = turn.sealed
              /\ turn'.heard = turn.heard
              /\ turn'.pc = "check" => turn'.approval = "automatic"
            BY <1>0, <1>4, <2>2 DEF Judge, TurnState
        <3>3. turn.pc = "judge" /\ loosening' = loosening /\ reviewed' = reviewed
            BY <1>4 DEF Judge
        <3>4. QED
            BY <3>1, <3>2, <3>3 DEF TurnInv, Seen, Counted, Answered, Calling, Kind
    <2>3. QED
        BY <2>1, <2>2
<1>5. CASE Check
    <2>1. CASE turn' = Returned(turn)
        BY <1>5, <2>1, TurnReturns DEF Check, Calling
    <2>2. CASE turn' = [turn EXCEPT !.pc = "sent", !.sealed = TRUE]
        <3>1. turn'.pc = "sent" /\ turn'.sealed = TRUE /\ turn'.route = turn.route
            BY <1>0, <2>2 DEF TurnState
        <3>2. turn.pc = "check" /\ loosening' = loosening
            BY <1>5 DEF Check
        <3>3. QED
            BY <3>1, <3>2 DEF TurnInv, Seen, Counted, Answered, Calling, Kind
    <2>3. QED
        BY <1>5, <2>1, <2>2 DEF Check
<1>6. CASE CardRefused
    BY <1>6, TurnReturns DEF CardRefused, Calling
<1>7. QED
    BY <1>1, <1>2, <1>3, <1>4, <1>5, <1>6 DEF TurnSteps

\* Settling a card answers it, when a write was confirmed.
LEMMA SettleKeeps ==
    ASSUME TypeOK, TurnInv, NEW c \in Calls, Settle(c), loosening' \subseteq loosening,
           confirmed \subseteq confirmed', reviewed' = reviewed,
           \A l : Shows(pin, l) => Shows(pin, l)',
           turn.pc = "card" /\ turn.calls = c /\ Kind(turn.route) = "write" =>
             c \in confirmed'
    PROVE  TurnInv'
<1>1. CASE turn.pc = "card" /\ turn.calls = c
    <2>1. turn' = [turn EXCEPT !.pc = "check", !.approval = "user"] /\ ran' = ran \cup {c}
        BY <1>1 DEF Settle
    <2>2. /\ turn'.pc = "check" /\ turn'.calls = c /\ turn'.route = turn.route
          /\ turn'.listed = turn.listed /\ turn'.crossed = turn.crossed
          /\ turn'.sealed = turn.sealed /\ turn'.heard = turn.heard
        BY <1>1, <2>1 DEF TypeOK, TurnState
    <2>3. QED
        BY <1>1, <2>1, <2>2 DEF TurnInv, Seen, Counted, Answered, Calling, Kind
<1>2. CASE ~(turn.pc = "card" /\ turn.calls = c)
    BY <1>2, TurnStill DEF Settle
<1>3. QED
    BY <1>1, <1>2

LEMMA AnsweringKeeps ==
    ASSUME TypeOK, RegistryInv, TurnInv, Answering, [Next]_vars
    PROVE  TurnInv'
<1> USE DEF registry, history, AnswerRest
<1>0. reviewed \subseteq reviewed'
      /\ (SyncReconciles \/ TurnReconciles \/ \A l : Shows(pin, l) => Shows(pin, l)')
    BY RegistryStep
<1>1. ASSUME turn' = turn PROVE ~SyncReconciles \/ sync' # sync
    BY DEF SyncReconciles, SyncEnds, TypeOK, SyncState
<1>2. ASSUME turn' = turn PROVE ~TurnReconciles
    BY <1>2 DEF TurnReconciles, TypeOK, TurnState
<1>3. CASE AnswerSwitchOn \/ Refuse
    BY <1>0, <1>1, <1>2, <1>3, TurnStill DEF AnswerSwitchOn, Refuse
<1>4. ASSUME NEW p \in Places, AnswerEdit(p) PROVE TurnInv'
    <2>1. ran' = ran /\ confirmed' = confirmed
        BY <1>4 DEF AnswerEdit, SaveEdit, ToolsCleared
    <2>2. QED
        BY <1>0, <1>1, <1>2, <1>4, <2>1, TurnStill DEF AnswerEdit
<1>5. ASSUME NEW d \in Definitions, AnswerReview(d) PROVE TurnInv'
    <2>1. ran' = ran /\ confirmed' = confirmed
        BY <1>5 DEF AnswerReview, Accept
    <2>2. QED
        BY <1>0, <1>1, <1>2, <1>5, <2>1, TurnStill DEF AnswerReview
<1>6. ASSUME NEW q \in Loosening, AnswerLoosen(q) PROVE TurnInv'
    <2>1. CASE StillPlanned(q)
        <3>1. /\ Settle(q.from) /\ q.from \in Calls /\ q \in loosening
              /\ loosening' \subseteq loosening /\ reviewed' = reviewed
              /\ confirmed' = confirmed /\ sync' = sync
            BY <1>6, <2>1 DEF AnswerLoosen, Loosening
        <3>2. \A l : Shows(pin, l) => Shows(pin, l)'
            <4>1. ~SyncReconciles
                BY <3>1 DEF SyncReconciles, SyncEnds, TypeOK, SyncState
            <4>2. ~TurnReconciles
                <5>1. turn' = turn \/ turn.pc = "card"
                    BY <3>1 DEF Settle
                <5>2. QED
                    BY <1>2, <5>1 DEF TurnReconciles
            <4>3. QED
                BY <1>0, <4>1, <4>2
        <3>3. turn.pc = "card" /\ turn.calls = q.from => Kind(turn.route) = "read"
            BY <3>1 DEF TurnInv, Answered, Counted, Calling
        <3>4. QED
            BY <3>1, <3>2, <3>3, SettleKeeps DEF Kind
    <2>2. CASE ~StillPlanned(q)
        BY <1>0, <1>1, <1>2, <1>6, <2>2, TurnStill DEF AnswerLoosen
    <2>3. QED
        BY <2>1, <2>2
<1>7. ASSUME NEW c \in Calls, AnswerSend(c) PROVE TurnInv'
    <2>1. /\ Settle(c) /\ loosening' = loosening /\ reviewed' = reviewed
          /\ confirmed' = confirmed \cup {c} /\ pin' = pin
        BY <1>7 DEF AnswerSend, CardRest
    <2>2. \A l : Shows(pin, l) => Shows(pin, l)'
        BY <2>1 DEF Shows, Latest
    <2>3. QED
        BY <2>1, <2>2, SettleKeeps
<1>8. QED
    BY <1>3, <1>4, <1>5, <1>6, <1>7 DEF Answering

LEMMA HarnessKeeps ==
    ASSUME TypeOK, TurnInv, Harness
    PROVE  TurnInv'
<1> USE DEF TurnRest, registry, questions, history
<1>0. turn \in TurnState
    BY DEF TypeOK
<1>1. CASE TurnBegins
    <2>1. turn.route = Nothing /\ turn.pc = "none"
        BY <1>1 DEF TurnBegins, TurnInv, Counted
    <2>2. \A q \in loosening : q.from = 0
        BY <2>1, NothingIsWritten DEF TurnInv, Answered
    <2>3. turn'.pc = "idle" /\ turn'.heard = turn.heard /\ turn'.sealed = turn.sealed
          /\ loosening' = loosening
        BY <1>0, <1>1 DEF TurnBegins, TurnState
    <2>4. QED
        BY <2>2, <2>3 DEF TurnInv, Seen, Counted, Answered, Calling
<1>2. CASE MarkKeepLocal
    <2>1. /\ turn'.pc = turn.pc /\ turn'.heard = turn.heard /\ turn'.sealed = turn.sealed
          /\ turn'.route = turn.route /\ turn'.calls = turn.calls
          /\ turn'.listed = turn.listed /\ turn'.crossed = turn.crossed
          /\ turn.pc \in {"idle", "card"}
        BY <1>0, <1>2 DEF MarkKeepLocal, TurnState
    <2>2. UNCHANGED <<pin, reviewed, loosening>>
        BY <1>2 DEF MarkKeepLocal
    <2>3. QED
        BY <2>1, <2>2 DEF TurnInv, Seen, Counted, Answered, Calling, Kind
<1>3. CASE Propose
    <2>1. turn.calls + 1 # 0
        BY <1>0, Constants0 DEF TurnState, Calls
    <2>2. /\ turn'.pc \in {"idle", "connect"} /\ turn'.heard = turn.heard
          /\ turn'.sealed = turn.sealed /\ turn'.route = turn.route
          /\ turn'.calls = turn.calls + 1 /\ ~turn.sealed /\ turn.pc = "idle"
        BY <1>0, <1>3 DEF Propose, TurnState
    <2>3. loosening' = loosening
        BY <1>3 DEF Propose
    <2>4. QED
        BY <2>1, <2>2, <2>3 DEF TurnInv, Seen, Counted, Answered, Calling, Kind
<1>4. CASE TurnStops
    <2>1. turn'.pc = "over" /\ turn'.heard = FALSE
        BY <1>4 DEF TurnStops, EmptyTurn
    <2>2. QED
        BY <2>1 DEF TurnInv, Seen, Counted, Answered, Calling
<1>5. QED
    BY <1>1, <1>2, <1>3, <1>4 DEF Harness

LEMMA CardKeeps ==
    ASSUME TypeOK, TurnInv, Card
    PROVE  TurnInv'
<1>0. UNCHANGED <<pin, reviewed, confirmed>> /\ \A l : Shows(pin, l) => Shows(pin, l)'
    BY DEF Card, AllowRead, AskTrust, AskSend, CardRest, Shows, Latest
<1>1. CASE AllowRead
    <2>1. /\ turn.calls \in Calls /\ Settle(turn.calls) /\ loosening' = loosening
          /\ Kind(turn.route) = "read"
        BY <1>1 DEF AllowRead, ReadCard, TypeOK, TurnState
    <2>2. QED
        BY <1>0, <2>1, SettleKeeps
<1>2. CASE AskTrust
    <2>1. turn' = turn /\ ran' = ran /\ Kind(turn.route) = "read"
        BY <1>2 DEF AskTrust, ReadCard
    <2>2. \A q \in loosening' : q \in loosening \/ Kind(turn.route) = "read"
        BY <2>1
    <2>3. QED
        BY <1>0, <2>1, <2>2
        DEF TurnInv, Seen, Counted, Answered, Kind, Shows, Latest
<1>3. CASE AskSend
    BY <1>0, <1>3, TurnStill DEF AskSend
<1>4. QED
    BY <1>1, <1>2, <1>3 DEF Card

LEMMA TurnStep ==
    ASSUME TypeOK, RegistryInv, TurnInv, [Next]_vars
    PROVE  TurnInv'
<1>0. /\ reviewed \subseteq reviewed'
      /\ SyncReconciles \/ TurnReconciles \/ \A l : Shows(pin, l) => Shows(pin, l)'
    BY RegistryStep
<1>1. CASE SyncReconciles
    <2>1. /\ turn' = [turn EXCEPT !.crossed = (turn.pc = "judge") \/ turn.crossed]
          /\ UNCHANGED <<loosening, ran, confirmed>> /\ turn \in TurnState
        BY <1>1 DEF SyncReconciles, ApplyListing, questions, TypeOK
    <2>2. /\ turn'.pc = turn.pc /\ turn'.heard = turn.heard /\ turn'.sealed = turn.sealed
          /\ turn'.route = turn.route /\ turn'.calls = turn.calls
          /\ turn'.listed = turn.listed /\ turn'.approval = turn.approval
          /\ turn'.crossed = ((turn.pc = "judge") \/ turn.crossed)
        BY <2>1 DEF TurnState
    <2>3. Seen'
        BY <1>0, <2>2 DEF TurnInv, Seen
    <2>4. QED
        BY <2>1, <2>2, <2>3 DEF TurnInv, Counted, Answered, Calling, Kind
<1>2. ASSUME Outside \/ Asking \/ SyncBegins \/ SyncConnects \/ SyncLists \/ SyncFails
             \/ UNCHANGED vars
      PROVE  TurnInv'
    <2>1. turn' = turn /\ UNCHANGED <<ran, confirmed>>
        BY <1>2
        DEF Outside, ServerChanges, IdleCloses, DropConnection, Asking, Lower, AskLoosen,
            AskReview, AskEdit, AskSwitchOn, SwitchOff, Remove, ToolsCleared, CommandRest,
            SyncBegins, SyncConnects, SyncLists, SyncFails, SyncRest, RegistryRest,
            history, vars
    <2>2. \A q \in loosening' : q \in loosening \/ q.from = 0
        BY <1>2
        DEF Outside, ServerChanges, IdleCloses, DropConnection, Asking, Lower, AskLoosen,
            AskReview, AskEdit, AskSwitchOn, SwitchOff, Remove, SyncBegins, SyncConnects,
            SyncLists, SyncFails, SyncRest, questions, vars
    <2>3. ~TurnReconciles
        BY <2>1 DEF TurnReconciles, TypeOK, TurnState
    <2>4. QED
        BY <1>0, <1>1, <2>1, <2>2, <2>3, TurnStill
<1>3. QED
    BY <1>1, <1>2, AnsweringKeeps, TurnStepsKeep, HarnessKeeps, CardKeeps
    DEF Next, Syncing

-----------------------------------------------------------------------------
(* The theorems.                                                           *)

Inv == TypeOK /\ RegistryInv /\ TurnInv

LEMMA InitInv ==
    ASSUME Init
    PROVE  Inv
<1>1. RegistryInv
    BY DEF Init, NoPin, NewPin, RegistryInv, PinShape, NeverAboveWord, Accounted, Blocked,
           AlwaysAllow
<1>2. /\ turn.pc = "none" /\ turn.route = Nothing /\ turn.heard = FALSE
      /\ loosening = {}
    BY DEF Init, EmptyTurn
<1>3. TurnInv
    BY <1>2 DEF TurnInv, Seen, Counted, Answered, Calling
<1>4. QED
    BY <1>1, <1>3, InitType DEF Inv

LEMMA StepInv ==
    ASSUME Inv, [Next]_vars
    PROVE  Inv'
    BY StepType, RegistryStep, TurnStep DEF Inv

LEMMA Invariance == Spec => []Inv
<1>1. Init => Inv
    BY InitInv
<1>2. Inv /\ [Next]_vars => Inv'
    BY StepInv
<1>3. QED
    BY <1>1, <1>2, PTL DEF Spec

\* No listing, in whatever order listings arrive, and no review gives a tool
\* more than the user last gave it (pin.rs: reconcile, accept_change).
THEOREM NothingWidensTrust == Spec => []NeverAboveWord
<1>1. Inv => NeverAboveWord
    BY DEF Inv, RegistryInv
<1>2. QED
    BY <1>1, Invariance, PTL

\* Only the turn's Check sends.
LEMMA SendsIsCheck ==
    ASSUME TypeOK, [Next]_vars, Sends
    PROVE  Check /\ AsOffered /\ ~turn.local
<1> USE DEF Sends
<1>0. turn \in TurnState
    BY DEF TypeOK
<1>1. turn' # turn
    BY DEF Sends
<1>2. ASSUME Outside \/ Asking \/ UNCHANGED vars PROVE FALSE
    BY <1>1, <1>2
    DEF Outside, ServerChanges, IdleCloses, DropConnection, Asking, Lower, AskLoosen,
        AskReview, AskEdit, AskSwitchOn, SwitchOff, Remove, CommandRest, vars
<1>3. ASSUME Syncing PROVE FALSE
    BY <1>0, <1>1, <1>3
    DEF Syncing, SyncBegins, SyncConnects, SyncLists, SyncFails, SyncReconciles, SyncRest,
        TurnState
<1>4. ASSUME Answering PROVE FALSE
    BY <1>1, <1>4
    DEF Answering, AnswerEdit, AnswerSwitchOn, AnswerReview, AnswerLoosen, AnswerSend,
        Refuse, Settle
<1>5. ASSUME Harness PROVE FALSE
    BY <1>0, <1>5
    DEF Harness, TurnBegins, MarkKeepLocal, Propose, TurnStops, EmptyTurn, TurnState
<1>6. ASSUME Card PROVE FALSE
    BY <1>1, <1>6 DEF Card, AllowRead, AskTrust, AskSend
<1>7. TurnSteps
    BY <1>2, <1>3, <1>4, <1>5, <1>6 DEF Next
<1>8. Check
    BY <1>7
    DEF TurnSteps, TurnConnects, TurnLists, TurnFails, TurnReconciles, Judge, Result,
        CardRefused
<1>9. Returned(turn).pc = "idle"
    BY <1>0, ReturnedType
<1>10. QED
    BY <1>8, <1>9 DEF Check

\* A call is sent only to a tool whose definition, as listed for this call,
\* the user accepted, and which the user doesn't block, save for a listing
\* that crosses verify_live (hub.rs: ConnectorTurn::call).
THEOREM ReviewedBeforeUse == Spec => OnlyReviewedRuns
<1>1. Inv /\ [Next]_vars /\ Sends /\ ~turn.crossed =>
        turn.listed \in reviewed /\ word # Blocked
    <2>1. SUFFICES ASSUME Inv, [Next]_vars, Sends, ~turn.crossed
                   PROVE  turn.listed \in reviewed /\ word # Blocked
        OBVIOUS
    <2>2. AsOffered
        BY <2>1, SendsIsCheck DEF Inv
    <2>3. turn.listed \in reviewed
        BY <2>1 DEF Inv, TurnInv, Seen, Sends
    <2>4. pin.perm \in Permission /\ word \in Permission /\ pin.perm <= word
          /\ pin.perm # Blocked
        BY <2>1, <2>2
        DEF Inv, TypeOK, ToolPin, RegistryInv, NeverAboveWord, AsOffered, Offerable
    <2>5. QED
        BY <2>3, <2>4 DEF Permission, Blocked, NeedsApproval, AlwaysAllow
<1>2. QED
    BY <1>1, Invariance, PTL DEF Spec, OnlyReviewedRuns

\* A call runs without a card only for the definition the user put on Always
\* allow, while it is there (hub.rs: ConnectorTurn::call).
THEOREM AutomaticNeedsGrant == Spec => AutomaticAsGranted
<1> DEFINE Runs == turn.pc = "judge" /\ turn'.pc = "check"
           Right == word = AlwaysAllow /\ ~turn.force_approval
                    /\ (turn.crossed \/ turn.listed = granted)
<1>1. Inv /\ [Next]_vars /\ Runs => Right
    <2>1. SUFFICES ASSUME Inv, [Next]_vars, Runs PROVE Right
        OBVIOUS
    <2>2. turn \in TurnState /\ turn' # turn
        BY <2>1 DEF Inv, TypeOK
    <2>3. Judge
        <3>1. ASSUME Outside \/ Asking \/ UNCHANGED vars PROVE FALSE
            BY <2>2, <3>1
            DEF Outside, ServerChanges, IdleCloses, DropConnection, Asking, Lower,
                AskLoosen, AskReview, AskEdit, AskSwitchOn, SwitchOff, Remove,
                CommandRest, vars
        <3>2. ASSUME Syncing PROVE FALSE
            BY <2>1, <2>2, <3>2
            DEF Syncing, SyncBegins, SyncConnects, SyncLists, SyncFails, SyncReconciles,
                SyncRest, TurnState
        <3>3. ASSUME Answering \/ Harness \/ Card PROVE FALSE
            BY <2>1, <2>2, <3>3
            DEF Answering, AnswerEdit, AnswerSwitchOn, AnswerReview, AnswerLoosen,
                AnswerSend, Refuse, Settle, Harness, TurnBegins, MarkKeepLocal, Propose,
                TurnStops, EmptyTurn, Card, AllowRead, AskTrust, AskSend
        <3>4. QED
            BY <2>1, <3>1, <3>2, <3>3
            DEF Next, TurnSteps, TurnConnects, TurnLists, TurnFails, TurnReconciles, Check,
                Result, CardRefused
    <2>4. AsOffered /\ pin.perm = AlwaysAllow /\ ~turn.force_approval
        <3>1. Returned(turn).pc = "idle"
            BY <2>2, ReturnedType
        <3>2. [turn EXCEPT !.pc = "card"].pc = "card"
            BY <2>2 DEF TurnState
        <3>3. QED
            BY <2>1, <2>3, <3>1, <3>2 DEF Judge
    <2>5. word = AlwaysAllow /\ granted = pin.def
        BY <2>1, <2>4
        DEF Inv, TypeOK, RegistryInv, NeverAboveWord, Permission, Blocked, NeedsApproval,
            AlwaysAllow
    <2>6. turn.crossed \/ turn.listed = pin.def
        BY <2>1, <2>4
        DEF Inv, TurnInv, Seen, Shows, Latest, AsOffered, Offerable, NeedsReview
    <2>7. QED
        BY <2>4, <2>5, <2>6
<1>2. QED
    BY <1>1, Invariance, PTL DEF Spec, AutomaticAsGranted

\* A call sent on the user's word is the one whose own card was answered, and
\* a write was confirmed in its own dialog (connectors.rs:
\* decide_connector_call).
THEOREM OwnCardAnswered == Spec => UserCallsConfirmed
<1>1. Inv /\ Sends /\ turn.approval = "user" =>
        turn.calls \in ran /\ (Kind(turn.route) = "write" => turn.calls \in confirmed)
    BY DEF Inv, TurnInv, Answered, Sends
<1>2. QED
    BY <1>1, Invariance, PTL DEF Spec, UserCallsConfirmed

\* Nothing is sent once anything came back from a connector, or with local
\* notes in the answer's context (hub.rs: ConnectorTurn::call).
THEOREM SealedTurnIsSilent == Spec => NoCallAfterResult
<1>1. Inv /\ [Next]_vars /\ Sends => ~turn.heard /\ ~turn.local
    BY SendsIsCheck DEF Inv, TurnInv, Counted, Calling, Sends
<1>2. QED
    BY <1>1, Invariance, PTL DEF Spec, NoCallAfterResult
=============================================================================
