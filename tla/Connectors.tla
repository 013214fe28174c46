----------------------------- MODULE Connectors -----------------------------
(***************************************************************************)
(* The connector hub (crates/fly-mcp-client) and the confirm cards and     *)
(* Settings commands around it (src-tauri/src/connectors.rs), for one      *)
(* connector with one tool, one Ask turn and one tool listing made from    *)
(* Settings, while the server changes the tool and the user changes the    *)
(* connector.                                                              *)
(*                                                                         *)
(* A step is what happens between two awaits, or under one hold of the     *)
(* registry's write lock.  The native dialogs of Settings and of a card    *)
(* open one at a time, but what a dialog asks is decided before it waits   *)
(* for its turn: each waiting question is an element of loosening,         *)
(* reviews, edits, switching or sending.                                   *)
(*                                                                         *)
(* A definition of the tool stands for its hash.  Reads are the            *)
(* definitions labelled read-only and not destructive.  None of them has a *)
(* problem that makes it unusable.  Arguments are valid unless the model's *)
(* own are refused on arrival.  Secrets and sign-in are left out.          *)
(***************************************************************************)
EXTENDS Naturals

CONSTANTS
    Places,         \* addresses or programs the connector may be pointed at
    Definitions,    \* what a server may list the tool as
    Reads,          \* the definitions of kind Read
    Nothing,        \* no definition, no place
    MaxCalls,       \* the turn's call budget
    Start,          \* where the connector points when it is approved
    Served,         \* bound: what the servers may list at the start
    MaxEvents       \* bound: changes on the servers, commands in Settings,
                    \* idle connections closed, local notes read

ASSUME DefinitionsAssumption ==
    /\ Reads \subseteq Definitions /\ Start \in Places
    /\ Nothing \notin Definitions \cup Places
    /\ Served \subseteq [Places -> Definitions \cup {Nothing}]
ASSUME ConnectorBoundsAssumption ==
    /\ MaxCalls \in Nat /\ MaxEvents \in Nat

\* Permission, ordered from strictest to loosest.
Blocked == 0
NeedsApproval == 1
AlwaysAllow == 2
Permission == {Blocked, NeedsApproval, AlwaysAllow}

Listing == Definitions \cup {Nothing}
ToolPin == [def: Listing, perm: Permission, unreviewed: BOOLEAN,
            pending: Listing, was: Permission, missing: BOOLEAN]
NewPin(d, perm, unreviewed) ==
    [def |-> d, perm |-> perm, unreviewed |-> unreviewed,
     pending |-> Nothing, was |-> Blocked, missing |-> FALSE]
NoPin == NewPin(Nothing, Blocked, FALSE)

VARIABLES
    config,     \* where the connector's approved configuration points, or Nothing
    on,         \* its switch
    baseline,   \* baseline_done: tools were listed since the approval
    pin,        \* the tool's pin, NoPin when there is none
    server,     \* at each place: the definition its server lists
    cached,     \* place of the connection cached under the connector's id
    dropping,   \* a command saved its change and has yet to drop the connection
    sync,       \* the listing made from Settings
    turn,       \* the Ask turn
    loosening,  \* loosening questions waiting: permission, card or 0, "raises"
    reviews,    \* review questions waiting: the definition shown
    edits,      \* edit questions waiting: the new place
    switching,  \* a question whether to switch the connector on
    sending,    \* "Send this to ...?" questions waiting: the call
    events,     \* how many server changes and commands there were
    reviewed,   \* history: definitions the user accepted
    word,       \* history: the permission the user last gave the tool
    granted,    \* history: the definition the user put on Always allow
    ran,        \* history: calls whose card was answered with a run
    confirmed   \* history: calls whose send dialog was answered yes

registry == <<config, on, baseline, pin>>
questions == <<loosening, reviews, edits, switching, sending>>
history == <<reviewed, word, granted, ran, confirmed>>
vars == <<registry, server, cached, dropping, sync, turn, questions,
          events, history>>

Calls == 0 .. MaxCalls  \* 0 stands for none
Places0 == Places \cup {Nothing}
Loosening == [to: Permission, from: Calls, raises: BOOLEAN]
SyncState == [pc: {"idle", "connect", "list", "reconcile"},
              to: Places0, listed: Listing]
\* pc "judge": reconciled, and about to read the registry again.
TurnState == [pc: {"none", "idle", "connect", "list", "reconcile", "judge",
                   "card", "check", "sent", "over"},
              calls: Calls, sealed: BOOLEAN, local: BOOLEAN,
              heard: BOOLEAN, route: Listing, to: Places0, listed: Listing,
              crossed: BOOLEAN, approval: {"none", "user", "automatic"},
              force_approval: BOOLEAN]

TypeOK ==
    /\ config \in Places0 /\ on \in BOOLEAN /\ baseline \in BOOLEAN
    /\ pin \in ToolPin
    /\ server \in [Places -> Listing]
    /\ cached \in Places0 /\ dropping \in BOOLEAN
    /\ sync \in SyncState /\ (sync.pc \in {"connect", "list"} => sync.to \in Places)
    /\ turn \in TurnState /\ (turn.pc \in {"connect", "list"} => turn.to \in Places)
    /\ loosening \subseteq Loosening /\ reviews \subseteq Definitions
    /\ edits \subseteq Places /\ switching \in BOOLEAN /\ sending \subseteq Calls
    /\ events \in 0 .. MaxEvents
    /\ reviewed \subseteq Definitions /\ word \in Permission
    /\ granted \in Listing /\ ran \subseteq Calls /\ confirmed \subseteq Calls

-----------------------------------------------------------------------------
(* The registry's entry and the tool's pin.                                *)

IsActive == config # Nothing /\ on
Kind(d) == IF d \in Reads THEN "read" ELSE "write"
HasPin == config # Nothing /\ pin.def # Nothing
NeedsReview(p) == p.unreviewed \/ p.pending # Nothing
Offerable(p) ==
    p.def # Nothing /\ p.perm # Blocked /\ ~NeedsReview(p) /\ ~p.missing

\* The definition a review must quote.
Latest(p) == IF p.pending # Nothing THEN p.pending ELSE p.def

\* A change is taken as it comes (a mutant).
ChangedInPlace(p, l) == [p EXCEPT !.def = l, !.missing = FALSE]

\* A reconcile with a definition other than the pinned one.
Changed(p, l) ==
    IF p.unreviewed THEN NewPin(l, Blocked, TRUE)
    ELSE IF p.pending = l THEN [p EXCEPT !.missing = FALSE]
    ELSE [p EXCEPT !.missing = FALSE, !.pending = l, !.perm = Blocked,
                   !.was = IF p.pending = Nothing THEN p.perm ELSE p.was]

\* A reconcile with exactly the pinned definition.
Reverted(p) ==
    IF p.pending = Nothing THEN [p EXCEPT !.missing = FALSE]
    ELSE [p EXCEPT !.missing = FALSE, !.pending = Nothing,
                   !.perm = p.was, !.was = Blocked]

\* Later new tools open, too (a mutant).
ListedOpen(p, l, first) == NewPin(l, NeedsApproval, FALSE)

Listed(p, l, first) ==
    IF first THEN NewPin(l, NeedsApproval, FALSE) ELSE NewPin(l, Blocked, TRUE)

Reconciled(p, l, first) ==
    CASE l = Nothing -> [p EXCEPT !.missing = (p.def # Nothing)]
      [] l # Nothing /\ p.def = Nothing -> Listed(p, l, first)
      [] l # Nothing /\ p.def = l -> Reverted(p)
      [] OTHER -> Changed(p, l)

Accepted(p) ==
    [p EXCEPT !.def = Latest(p), !.unreviewed = FALSE, !.pending = Nothing,
              !.was = Blocked, !.perm = NeedsApproval]

\* Apply a listing to the connector, under the registry's lock.
ApplyListing(l) ==
    /\ pin' = Reconciled(pin, l, ~baseline)
    /\ baseline' = TRUE
    /\ IF l # Nothing /\ pin.def = Nothing /\ ~baseline
       THEN reviewed' = reviewed \cup {l} /\ word' = NeedsApproval
       ELSE UNCHANGED <<reviewed, word>>
    /\ UNCHANGED <<config, on, granted, ran, confirmed>>

SetPermission(p) ==
    /\ pin' = [pin EXCEPT !.perm = p]
    /\ word' = p
    /\ granted' = IF p = AlwaysAllow THEN pin.def ELSE Nothing

-----------------------------------------------------------------------------
(* Just approved, switched on, not listed yet.                             *)

EmptyTurn(pc) ==
    [pc |-> pc, calls |-> 0, sealed |-> FALSE, local |-> FALSE, heard |-> FALSE,
     route |-> Nothing, to |-> Nothing, listed |-> Nothing, crossed |-> FALSE,
     approval |-> "none", force_approval |-> FALSE]

Init ==
    /\ config = Start /\ on = TRUE /\ baseline = FALSE /\ pin = NoPin
    /\ server \in Served
    /\ cached = Nothing /\ dropping = FALSE
    /\ sync = [pc |-> "idle", to |-> Nothing, listed |-> Nothing]
    /\ turn = EmptyTurn("none")
    /\ loosening = {} /\ reviews = {} /\ edits = {} /\ switching = FALSE
    /\ sending = {} /\ events = 0
    /\ reviewed = {} /\ word = Blocked /\ granted = Nothing
    /\ ran = {} /\ confirmed = {}

-----------------------------------------------------------------------------
(* The servers, and connections.                                           *)

Event == events < MaxEvents /\ events' = events + 1

ServerChanges(p, l) ==
    /\ Event /\ server[p] # l
    /\ server' = [server EXCEPT ![p] = l]
    /\ UNCHANGED <<registry, cached, dropping, sync, turn, questions,
                   history>>

\* An idle connection is closed, or all of them are.
IdleCloses ==
    /\ Event /\ cached # Nothing /\ cached' = Nothing
    /\ UNCHANGED <<registry, server, dropping, sync, turn, questions, history>>

DropConnection ==
    /\ dropping /\ dropping' = FALSE /\ cached' = Nothing
    /\ UNCHANGED <<registry, server, sync, turn, questions, events,
                   history>>

\* The connection for an entry read earlier, pointing at p.
Connection(p) == IF cached = Nothing THEN p ELSE cached

-----------------------------------------------------------------------------
(* sync_tools: after adding, editing or signing in, or on its button.      *)

SyncRest == <<config, on, server, dropping, turn, questions>>
RegistryRest == <<baseline, pin, history>>

\* The first listing after an approval isn't counted as a command.
SyncBegins ==
    /\ sync.pc = "idle" /\ IsActive
    /\ IF baseline THEN Event ELSE UNCHANGED events
    /\ sync' = [sync EXCEPT !.pc = "connect", !.to = config]
    /\ UNCHANGED <<cached, SyncRest, RegistryRest>>

SyncConnects ==
    /\ sync.pc = "connect"
    /\ cached' = Connection(sync.to)
    /\ sync' = [sync EXCEPT !.pc = "list", !.to = cached']
    /\ UNCHANGED <<events, SyncRest, RegistryRest>>

SyncLists ==
    /\ sync.pc = "list"
    /\ sync' = [sync EXCEPT !.pc = "reconcile", !.listed = server[sync.to]]
    /\ UNCHANGED <<cached, events, SyncRest, RegistryRest>>

SyncEnds == sync' = [pc |-> "idle", to |-> Nothing, listed |-> Nothing]

\* Only a failed listing drops the connection.
SyncFails ==
    /\ \/ sync.pc = "connect" /\ cached = Nothing /\ UNCHANGED cached
       \/ sync.pc = "list" /\ cached' = Nothing
       \/ sync.pc = "reconcile" /\ config = Nothing /\ UNCHANGED cached
    /\ SyncEnds
    /\ UNCHANGED <<events, SyncRest, RegistryRest>>

SyncReconciles ==
    /\ sync.pc = "reconcile" /\ config # Nothing
    /\ ApplyListing(sync.listed)
    /\ SyncEnds
    /\ turn' = [turn EXCEPT !.crossed = (turn.pc = "judge") \/ turn.crossed]
    /\ UNCHANGED <<server, cached, dropping, questions, events>>

-----------------------------------------------------------------------------
(* The commands of Settings.                                               *)

CommandRest == <<server, cached, sync, turn, sending>>

\* Tightening applies at once.
Lower(p) ==
    /\ Event /\ HasPin /\ p < pin.perm
    /\ SetPermission(p)
    /\ UNCHANGED <<config, on, baseline, dropping, loosening, reviews, edits,
                   switching, reviewed, ran, confirmed, CommandRest>>

\* Whether plan_permissions accepts the change.
MaySet(p) == HasPin /\ (p > pin.perm => ~NeedsReview(pin) /\ ~pin.missing)

AskLoosen(p) ==
    /\ Event /\ MaySet(p) /\ p > pin.perm
    /\ loosening' = loosening \cup {[to |-> p, from |-> 0, raises |-> TRUE]}
    /\ UNCHANGED <<registry, dropping, reviews, edits, switching, history,
                   CommandRest>>

AskReview ==
    /\ Event /\ HasPin /\ NeedsReview(pin)
    /\ reviews' = reviews \cup {Latest(pin)}
    /\ UNCHANGED <<registry, dropping, loosening, edits, switching, history,
                   CommandRest>>

AskEdit(p) ==
    /\ Event /\ config # Nothing
    /\ edits' = edits \cup {p}
    /\ UNCHANGED <<registry, dropping, loosening, reviews, switching, history,
                   CommandRest>>

AskSwitchOn ==
    /\ Event /\ config # Nothing /\ ~on
    /\ switching' = TRUE
    /\ UNCHANGED <<registry, dropping, loosening, reviews, edits, history,
                   CommandRest>>

SwitchOff ==
    /\ Event /\ config # Nothing /\ ~dropping
    /\ on' = FALSE /\ dropping' = TRUE
    /\ UNCHANGED <<config, baseline, pin, loosening, reviews, edits, switching,
                   history, CommandRest>>

\* Forget the tool: the connector points elsewhere, or is gone.
ToolsCleared ==
    /\ pin' = NoPin /\ baseline' = FALSE
    /\ word' = Blocked /\ granted' = Nothing
    /\ UNCHANGED <<reviewed, ran, confirmed>>

Remove ==
    /\ Event /\ config # Nothing /\ ~dropping
    /\ config' = Nothing /\ dropping' = TRUE
    /\ ToolsCleared
    /\ UNCHANGED <<on, loosening, reviews, edits, switching, CommandRest>>

-----------------------------------------------------------------------------
(* The answers to the questions of Settings.                               *)

AnswerRest == <<server, cached, events>>

SaveEdit(p) ==
    /\ config' = p /\ dropping' = TRUE
    /\ IF p # config THEN ToolsCleared ELSE UNCHANGED <<pin, baseline, history>>

\* update_approved; the listing that follows it is one of sync's.
AnswerEdit(p) ==
    /\ p \in edits /\ edits' = edits \ {p} /\ ~dropping
    /\ IF config = Nothing
       THEN UNCHANGED <<config, dropping, pin, baseline, history>>
       ELSE SaveEdit(p)
    /\ UNCHANGED <<on, sync, turn, loosening, reviews, switching, sending,
                   AnswerRest>>

AnswerSwitchOn ==
    /\ switching /\ switching' = FALSE
    /\ on' = (on \/ config # Nothing)
    /\ UNCHANGED <<config, baseline, pin, dropping, sync, turn, loosening,
                   reviews, edits, sending, history, AnswerRest>>

\* Only the definition that was shown is accepted.
Reviewable(d) == HasPin /\ NeedsReview(pin) /\ Latest(pin) = d

Accept(d) ==
    /\ pin' = Accepted(pin)
    /\ reviewed' = reviewed \cup {d} /\ word' = NeedsApproval
    /\ granted' = Nothing
    /\ UNCHANGED <<ran, confirmed>>

AnswerReview(d) ==
    /\ d \in reviews /\ reviews' = reviews \ {d}
    /\ IF Reviewable(d) THEN Accept(d) ELSE UNCHANGED <<pin, history>>
    /\ UNCHANGED <<config, on, baseline, dropping, sync, turn, loosening, edits,
                   switching, sending, AnswerRest>>

\* Planned again, the change must still raise the permission, or not.
StillPlanned(q) == MaySet(q.to) /\ (q.to > pin.perm) = q.raises

Loosen(q) ==
    IF q.raises THEN SetPermission(q.to) ELSE UNCHANGED <<pin, word, granted>>

\* Whichever card waits (a mutant).
SettleAny(c) ==
    IF turn.pc = "card"
    THEN /\ turn' = [turn EXCEPT !.pc = "check", !.approval = "user"]
         /\ ran' = ran \cup {c}
    ELSE UNCHANGED <<turn, ran>>

\* Settle the card of a call, if it still waits, with a run.
Settle(c) ==
    IF turn.pc = "card" /\ turn.calls = c
    THEN /\ turn' = [turn EXCEPT !.pc = "check", !.approval = "user"]
         /\ ran' = ran \cup {c}
    ELSE UNCHANGED <<turn, ran>>

AnswerLoosen(q) ==
    /\ q \in loosening /\ loosening' = loosening \ {q}
    /\ IF StillPlanned(q)
       THEN Loosen(q) /\ Settle(q.from) /\ UNCHANGED <<reviewed, confirmed>>
       ELSE UNCHANGED <<pin, turn, history>>
    /\ UNCHANGED <<config, on, baseline, dropping, sync, reviews, edits,
                   switching, sending, AnswerRest>>

\* The user says no: nothing changes, and a card stays open.
Refuse ==
    /\ \/ \E q \in loosening : loosening' = loosening \ {q}
          /\ UNCHANGED <<reviews, edits, switching, sending>>
       \/ \E d \in reviews : reviews' = reviews \ {d}
          /\ UNCHANGED <<loosening, edits, switching, sending>>
       \/ \E p \in edits : edits' = edits \ {p}
          /\ UNCHANGED <<loosening, reviews, switching, sending>>
       \/ switching /\ switching' = FALSE
          /\ UNCHANGED <<loosening, reviews, edits, sending>>
       \/ \E c \in sending : sending' = sending \ {c}
          /\ UNCHANGED <<loosening, reviews, edits, switching>>
    /\ UNCHANGED <<registry, dropping, sync, turn, history, AnswerRest>>

-----------------------------------------------------------------------------
(* The Ask turn: calls come one after another.                             *)

TurnRest == <<registry, server, dropping, sync, questions, events,
              history>>

\* The tools offered are those of the registry now.  An Ask turn, or the single
\* call of Settings > Try, which always shows its card and reads no notes.
TurnBegins ==
    /\ turn.pc = "none" /\ IsActive /\ Offerable(pin)
    /\ \E try \in BOOLEAN :
        turn' = [turn EXCEPT !.pc = "idle", !.route = pin.def, !.force_approval = try]
    /\ UNCHANGED <<cached, TurnRest>>

\* The harness reads a note the user keeps local.
MarkKeepLocal ==
    /\ Event /\ turn.pc \in {"idle", "card"} /\ ~turn.local /\ ~turn.force_approval
    /\ turn' = [turn EXCEPT !.local = TRUE]
    /\ UNCHANGED <<registry, server, cached, dropping, sync, questions, history>>

\* Without the budget (a mutant).
ProposeUncounted ==
    /\ turn.pc = "idle" /\ ~turn.local /\ ~turn.sealed
    /\ LET counted == [turn EXCEPT !.calls = @ + 1] IN
       \/ turn' = counted
       \/ IsActive /\ turn' = [counted EXCEPT !.pc = "connect", !.to = config]
    /\ UNCHANGED <<cached, TurnRest>>

\* A call for which the turn still has leave; the budget counts it, and then
\* its arguments or a connector switched off meanwhile may refuse it.
Propose ==
    /\ turn.pc = "idle" /\ ~turn.local /\ ~turn.sealed /\ turn.calls < MaxCalls
    /\ turn.force_approval => turn.calls = 0
    /\ LET counted == [turn EXCEPT !.calls = @ + 1] IN
       \/ turn' = counted
       \/ IsActive /\ turn' = [counted EXCEPT !.pc = "connect", !.to = config]
    /\ UNCHANGED <<cached, TurnRest>>

TurnConnects ==
    /\ turn.pc = "connect"
    /\ cached' = Connection(turn.to)
    /\ turn' = [turn EXCEPT !.pc = "list", !.to = cached']
    /\ UNCHANGED TurnRest

TurnLists ==
    /\ turn.pc = "list"
    /\ turn' = [turn EXCEPT !.pc = "reconcile", !.listed = server[turn.to]]
    /\ UNCHANGED <<cached, TurnRest>>

\* The answer to a call goes back to the model.
Returned(t) == [t EXCEPT !.pc = "idle", !.to = Nothing, !.listed = Nothing,
                         !.crossed = FALSE, !.approval = "none"]

\* An error that doesn't seal (a mutant).
Unsealed == turn' = [Returned(turn) EXCEPT !.heard = TRUE]

\* A call that reached out and failed counts as a result.
ServerError == turn' = [Returned(turn) EXCEPT !.sealed = TRUE, !.heard = TRUE]

TurnFails ==
    /\ \/ turn.pc = "connect" /\ cached = Nothing /\ UNCHANGED cached
       \/ turn.pc = "list" /\ cached' = Nothing
       \/ turn.pc = "reconcile" /\ config = Nothing /\ cached' = Nothing
    /\ ServerError
    /\ UNCHANGED TurnRest

\* Reconciled only once (a mutant).
TrustsBaseline ==
    /\ turn.pc = "reconcile" /\ config # Nothing
    /\ IF baseline THEN UNCHANGED <<registry, history>> ELSE ApplyListing(turn.listed)
    /\ turn' = [turn EXCEPT !.pc = "judge", !.crossed = FALSE]
    /\ UNCHANGED <<server, cached, dropping, sync, questions, events>>

TurnReconciles ==
    /\ turn.pc = "reconcile" /\ config # Nothing
    /\ ApplyListing(turn.listed)
    /\ turn' = [turn EXCEPT !.pc = "judge", !.crossed = FALSE]
    /\ UNCHANGED <<server, cached, dropping, sync, questions, events>>

\* As the turn offered it: usable now, and of the kind it was.
AsOffered == IsActive /\ Offerable(pin) /\ Kind(pin.def) = Kind(turn.route)

\* Always allow stands although every call is to be shown (a mutant).
JudgeUnforced ==
    /\ turn.pc = "judge"
    /\ turn' =
         IF ~AsOffered THEN Returned(turn)
         ELSE [turn EXCEPT !.pc = IF pin.perm = AlwaysAllow THEN "check" ELSE "card",
                           !.approval = IF pin.perm = AlwaysAllow THEN "automatic" ELSE @]
    /\ UNCHANGED <<cached, TurnRest>>

\* verify_live's answer, and what the tool's permission makes of it.
Judge ==
    /\ turn.pc = "judge"
    /\ turn' =
         IF ~AsOffered THEN Returned(turn)
         ELSE IF pin.perm = AlwaysAllow /\ ~turn.force_approval
         THEN [turn EXCEPT !.pc = "check", !.approval = "automatic"]
         ELSE [turn EXCEPT !.pc = "card"]
    /\ UNCHANGED <<cached, TurnRest>>

\* The last check before the call leaves; from there on the turn is sealed.
Check ==
    /\ turn.pc = "check"
    /\ turn' = IF ~turn.local /\ AsOffered
               THEN [turn EXCEPT !.pc = "sent", !.sealed = TRUE]
               ELSE Returned(turn)
    /\ UNCHANGED <<cached, TurnRest>>

\* The server's answer; an error drops the connection.
Result ==
    /\ turn.pc = "sent"
    /\ cached' \in {cached, Nothing}
    /\ ServerError
    /\ UNCHANGED TurnRest

\* The user cancels: a waiting card is withdrawn.
TurnStops ==
    /\ turn.pc \notin {"none", "over"}
    /\ turn' = EmptyTurn("over")
    /\ UNCHANGED <<cached, TurnRest>>

-----------------------------------------------------------------------------
(* The confirm card.                                                       *)

CardRest == <<config, on, baseline, server, cached, dropping, sync, reviews,
              edits, switching, events, reviewed>>

\* The timeout waits for the dialog (a mutant).
DialogHoldsCard ==
    /\ turn.pc = "card" /\ turn.calls \notin sending
    /\ turn' = Returned(turn)
    /\ UNCHANGED <<pin, loosening, sending, word, granted, ran, confirmed,
                   CardRest>>

\* A decline, or DECISION_TIMEOUT.
CardRefused ==
    /\ turn.pc = "card"
    /\ turn' = Returned(turn)
    /\ UNCHANGED <<pin, loosening, sending, word, granted, ran, confirmed,
                   CardRest>>

\* A read, when it was proposed and now.
ReadCard == Kind(turn.route) = "read" /\ HasPin /\ Kind(pin.def) = "read"

AllowRead ==
    /\ turn.pc = "card" /\ ReadCard
    /\ Settle(turn.calls)
    /\ UNCHANGED <<pin, loosening, sending, word, granted, confirmed, CardRest>>

\* Always allow, on the card of a read: a question of its own.
AskTrust ==
    /\ turn.pc = "card" /\ ReadCard /\ MaySet(AlwaysAllow)
    /\ loosening' = loosening \cup
         {[to |-> AlwaysAllow, from |-> turn.calls, raises |-> pin.perm # AlwaysAllow]}
    /\ UNCHANGED <<pin, turn, sending, word, granted, ran, confirmed, CardRest>>

AskSend ==
    /\ turn.pc = "card" /\ ~ReadCard
    /\ sending' = sending \cup {turn.calls}
    /\ UNCHANGED <<pin, turn, loosening, word, granted, ran, confirmed, CardRest>>

AnswerSend(c) ==
    /\ c \in sending /\ sending' = sending \ {c}
    /\ Settle(c)
    /\ confirmed' = confirmed \cup {c}
    /\ UNCHANGED <<pin, loosening, word, granted, CardRest>>

-----------------------------------------------------------------------------
Outside ==
    \/ \E p \in Places, l \in Listing : ServerChanges(p, l)
    \/ IdleCloses
    \/ DropConnection

Syncing ==
    SyncBegins \/ SyncConnects \/ SyncLists \/ SyncFails \/ SyncReconciles

Asking ==
    \/ \E p \in Permission : Lower(p) \/ AskLoosen(p)
    \/ AskReview
    \/ \E p \in Places : AskEdit(p)
    \/ AskSwitchOn
    \/ SwitchOff
    \/ Remove

Answering ==
    \/ \E p \in Places : AnswerEdit(p)
    \/ AnswerSwitchOn
    \/ \E d \in Definitions : AnswerReview(d)
    \/ \E q \in Loosening : AnswerLoosen(q)
    \/ \E c \in Calls : AnswerSend(c)
    \/ Refuse

TurnSteps ==
    \/ TurnConnects \/ TurnLists \/ TurnFails \/ TurnReconciles \/ Judge \/ Check
    \/ Result \/ CardRefused

Harness ==
    TurnBegins \/ MarkKeepLocal \/ Propose \/ TurnStops

Card == AllowRead \/ AskTrust \/ AskSend

Next == Outside \/ Syncing \/ Asking \/ Answering \/ TurnSteps \/ Harness \/ Card

\* The executor polls a call until it returns: connecting, listing and calling
\* have timeouts, and so has the card.
Spec == Init /\ [][Next]_vars /\ WF_vars(TurnSteps)

-----------------------------------------------------------------------------
(* Properties.                                                             *)

Sends == turn.pc = "check" /\ turn'.pc = "sent"

\* No permission the tool has now, or gets back when its server returns to the
\* pinned definition, is looser than the last one the user gave it, and it is
\* Always allow only for the definition the user put on Always allow: no
\* listing, old or new, and no review widens what the user allowed
\* (pin.rs: reconcile, accept_change).
NeverAboveWord ==
    /\ pin.perm <= word /\ pin.was <= word
    /\ AlwaysAllow \in {pin.perm, pin.was} => granted = pin.def

\* A call is sent only to a tool whose definition, as the server listed it
\* for this very call, the user accepted, and which the user doesn't block.
\* The exception is a listing made earlier from Settings and applied between
\* this call's reconcile and its look at the registry, two holds of the lock
\* (hub.rs: verify_live).
OnlyReviewedRuns ==
    [][Sends /\ ~turn.crossed => turn.listed \in reviewed /\ word # Blocked]_vars

\* A call runs without a card only while the tool is on Always allow, for the
\* definition the user put there, and never when every call is to be shown
\* (hub.rs: ConnectorTurn::call).
AutomaticAsGranted ==
    [][turn.pc = "judge" /\ turn'.pc = "check" =>
         /\ word = AlwaysAllow /\ ~turn.force_approval
         /\ turn.crossed \/ turn.listed = granted]_vars

\* A call sent on the user's word is the one whose own card was answered; a
\* call that can change data was confirmed in its own dialog, whatever cards
\* came and went while the dialog was open (connectors.rs:
\* decide_connector_call).
UserCallsConfirmed ==
    [][Sends /\ turn.approval = "user" =>
         /\ turn.calls \in ran
         /\ Kind(turn.route) = "write" => turn.calls \in confirmed]_vars

\* Once anything came back from a connector, or notes kept local are in the
\* answer's context, no call leaves in that turn, not even one whose card was
\* up already (hub.rs: ConnectorTurn::call, server_error, mark_keep_local).
NoCallAfterResult == [][Sends => ~turn.heard /\ ~turn.local]_vars

\* A call of the model is answered or abandoned, whether or not the user ever
\* looks at its card or the server ever answers (hub.rs: ConnectorTurn::call;
\* connectors.rs: AppApprover::decide).
CallsEnd ==
    turn.pc \in {"connect", "list", "reconcile", "judge", "card", "check", "sent"}
        ~> turn.pc \in {"idle", "over"}
=============================================================================
