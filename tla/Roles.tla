------------------------------- MODULE Roles -------------------------------
(***************************************************************************)
(* One process of mcpmem: the supervisor of its roles, and the loops of    *)
(* the indexer, the webhook worker and the extractor, each of which serves *)
(* one registered workspace per turn.  What a turn does to the workspace   *)
(* is modelled elsewhere (IndexSystem, Outbox, Attachments); here it       *)
(* succeeds or fails.                                                      *)
(***************************************************************************)
EXTENDS Integers, Sequences, FiniteSets, SequencesExt

CONSTANTS
    Spaces,       \* workspaces that may be registered
    FirstSpace,      \* the one startup registers
    Csvs,         \* values of --role
    PollerBound,  \* BOUND
    MaxErrors     \* bound: turns and scans that fail

ASSUME RolesAssumption ==
    FirstSpace \in Spaces /\ PollerBound \in Nat \ {0} /\ MaxErrors \in Nat

VARIABLES
    rows,      \* the workspace table, in rowid order; rows are never deleted
    roles,     \* the roles of this process that run
    ended,     \* outcomes of the roles that ended, first one first
    exit,      \* "starting", "running", or how the process ended
    errors,    \* turns and scans that failed so far
    cursor,    \* next row of each loop
    turn,      \* the workspace each loop served last, as a set of at most one
    profiled,  \* the indexer's `adopted'
    pollers,   \* webhook workers kept open
    recent,    \* their ids, least recently used first
    audited,   \* workspaces whose subscriptions are known to have been audited
    loop,      \* where the extractor's loop stands
    scanning,  \* the rows its deadline scan has left
    found,     \* the scan found a job that is due
    missed,    \* workspaces a scan could not read since their last turn
    permit,    \* the permit stored in the wake handle
    due,       \* workspaces with an extraction job due now
    uploads,   \* workspaces of uploads that committed and have not called wake yet
    woken      \* workspaces wake was called for, until their next turn

supervisorVars == <<roles, ended, exit>>
indexerVars == <<profiled>>
pollerVars == <<pollers, recent, audited>>
jobVars == <<due, uploads, woken>>
loopVars == <<loop, scanning, found, missed, permit>>
roleVars == <<rows, supervisorVars, errors, cursor, turn, indexerVars, pollerVars, jobVars, loopVars>>

RuntimeRoles == {"mcp", "indexer", "webhooks", "extractor"}
Loops == RuntimeRoles \ {"mcp"}

Runs(r) == exit = "running" /\ r \in roles
Errs == errors < MaxErrors /\ errors' = errors + 1

-----------------------------------------------------------------------------
(* The schedule *)

\* Mutant of Offset: the cursor wraps one row late, where the query finds none.
OffsetLate(r) == IF cursor[r] > Len(rows) THEN 0 ELSE cursor[r]

Offset(r) == IF cursor[r] >= Len(rows) THEN 0 ELSE cursor[r]

\* next_path: the row at the cursor, which moves on whatever becomes of the turn.
next_path(r, w) ==
    /\ Offset(r) < Len(rows)
    /\ w = rows[Offset(r) + 1]
    /\ cursor' = [cursor EXCEPT ![r] = Offset(r) + 1]

Serve(r, w) == turn' = [turn EXCEPT ![r] = {w}]

\* Another request creates a workspace.
Register(w) ==
    /\ w \notin ToSet(rows)
    /\ rows' = Append(rows, w)
    /\ UNCHANGED <<supervisorVars, errors, cursor, turn, indexerVars, pollerVars, jobVars, loopVars>>

-----------------------------------------------------------------------------
(* The indexer: the profile of a workspace is adopted before its first turn, and
   an error there ends the turn *)

run_indexer_workspace_turn(w) ==
    /\ Runs("indexer")
    /\ next_path("indexer", w)
    /\ \/ /\ profiled' = profiled \cup {w}
          /\ Serve("indexer", w)
          /\ UNCHANGED errors
       \/ /\ w \notin profiled
          /\ Errs
          /\ UNCHANGED <<turn, profiled>>
    /\ UNCHANGED <<rows, supervisorVars, pollerVars, jobVars, loopVars>>

-----------------------------------------------------------------------------
(* The webhook worker *)

\* The id moves to the end of the queue.
Used(q, w) == Append(SelectSeq(q, LAMBDA x : x # w), w)

\* worker_for: a kept worker, or a new one in the place of the least recently
\* used; the first call for a workspace asks for an audit.
worker_for(w) ==
    LET full == w \notin pollers /\ Cardinality(pollers) >= PollerBound /\ recent # <<>>
    IN /\ pollers' = (IF full THEN pollers \ {Head(recent)} ELSE pollers) \cup {w}
       /\ recent' = Used(IF full THEN Tail(recent) ELSE recent, w)
       /\ audited' = audited \cup {w}

\* audit_existing, before the roles start.
audit_existing(w) ==
    /\ exit = "starting" /\ "webhooks" \in roles
    /\ w \in ToSet(rows) \ audited
    /\ worker_for(w)
    /\ UNCHANGED <<rows, supervisorVars, errors, cursor, turn, indexerVars, jobVars, loopVars>>

poll(w) ==
    /\ Runs("webhooks")
    /\ next_path("webhooks", w)
    /\ worker_for(w)
    /\ Serve("webhooks", w)
    /\ UNCHANGED <<rows, supervisorVars, errors, indexerVars, jobVars, loopVars>>

-----------------------------------------------------------------------------
(* The extractor *)

\* A turn works off a job that is due, one of several, or fails.
run_extractor_workspace_turn(w) ==
    /\ Runs("extractor") /\ loop = "turn"
    /\ next_path("extractor", w)
    /\ Serve("extractor", w)
    /\ due' \in {due, due \ {w}}
    /\ woken' = woken \ {w}
    /\ missed' = missed \ {w}
    /\ loop' = "scan"
    /\ UNCHANGED <<rows, supervisorVars, errors, indexerVars, pollerVars, uploads, scanning, found, permit>>

\* extractor_next_due_us lists the workspaces, then asks one file after another;
\* a failure leaves the fallback delay.
ScanBegins ==
    /\ Runs("extractor") /\ loop = "scan"
    /\ \/ /\ loop' = "scanning" /\ scanning' = rows
          /\ UNCHANGED <<errors, missed>>
       \/ /\ Errs /\ loop' = "wait" /\ missed' = ToSet(rows)
          /\ UNCHANGED scanning
    /\ found' = FALSE
    /\ UNCHANGED <<rows, supervisorVars, cursor, turn, indexerVars, pollerVars, jobVars, permit>>

ScanOne ==
    /\ Runs("extractor") /\ loop = "scanning" /\ scanning # <<>>
    /\ scanning' = Tail(scanning)
    /\ \/ /\ found' = (found \/ Head(scanning) \in due)
          /\ UNCHANGED <<errors, missed>>
       \/ /\ Errs /\ missed' = missed \cup {Head(scanning)}
          /\ UNCHANGED found
    /\ UNCHANGED <<rows, supervisorVars, cursor, turn, indexerVars, pollerVars, jobVars, loop, permit>>

\* extractor_wait_duration: no wait when something is due.
ScanEnds ==
    /\ Runs("extractor") /\ loop = "scanning" /\ scanning = <<>>
    /\ loop' = IF found THEN "turn" ELSE "wait"
    /\ found' = FALSE
    /\ UNCHANGED <<rows, supervisorVars, errors, cursor, turn, indexerVars, pollerVars, jobVars, scanning, missed, permit>>

\* The select: a stored permit, or the timer.
Notified ==
    /\ Runs("extractor") /\ loop = "wait" /\ permit
    /\ permit' = FALSE /\ loop' = "turn"
    /\ UNCHANGED <<rows, supervisorVars, errors, cursor, turn, indexerVars, pollerVars, jobVars, scanning, found, missed>>

TimerFires ==
    /\ Runs("extractor") /\ loop = "wait"
    /\ loop' = "turn"
    /\ UNCHANGED <<rows, supervisorVars, errors, cursor, turn, indexerVars, pollerVars, jobVars, scanning, found, missed, permit>>

\* A retry falls due, or another process commits an upload.
FallsDue(w) ==
    /\ w \in ToSet(rows) \ due
    /\ due' = due \cup {w}
    /\ UNCHANGED <<rows, supervisorVars, errors, cursor, turn, indexerVars, pollerVars, uploads, woken, loopVars>>

\* An upload through this process commits, and then wakes the extractor.
UploadCommits(w) ==
    /\ Runs("mcp") /\ w \in ToSet(rows) \ uploads
    /\ due' = due \cup {w}
    /\ uploads' = uploads \cup {w}
    /\ UNCHANGED <<rows, supervisorVars, errors, cursor, turn, indexerVars, pollerVars, woken, loopVars>>

\* Mutant of notify_one: only a loop that is waiting is told.
NotifyWaiting == permit \/ loop = "wait"

notify_one == TRUE

wake(w) ==
    /\ Runs("mcp") /\ w \in uploads
    /\ permit' = notify_one
    /\ uploads' = uploads \ {w}
    /\ woken' = woken \cup ({w} \cap due)
    /\ UNCHANGED <<rows, supervisorVars, errors, cursor, turn, indexerVars, pollerVars, due, loop, scanning, found, missed>>

-----------------------------------------------------------------------------
(* The supervisor *)

\* RoleSet::parse_csv: known names, none twice, at least one.
parse_csv(names) ==
    IF ToSet(names) \subseteq RuntimeRoles /\ Cardinality(ToSet(names)) = Len(names)
    THEN ToSet(names) ELSE {}

\* inner_main up to RuntimeComposition::start: a role set that does not parse, or
\* services that cannot be built, end the process.
start ==
    /\ exit = "starting"
    /\ \/ /\ roles # {}
          /\ "webhooks" \in roles => ToSet(rows) \subseteq audited
          /\ exit' = "running" /\ UNCHANGED roles
       \/ /\ roles = {} \/ roles \cap {"indexer", "webhooks"} # {}
          /\ exit' = "failed" /\ roles' = {}
    /\ UNCHANGED <<rows, ended, errors, cursor, turn, indexerVars, pollerVars, jobVars, loopVars>>

\* The transport may end either way; the loops end only when a task panics.
RoleEnds(r) ==
    /\ Runs(r)
    /\ \E outcome \in {"ok", "failed"} :
         /\ outcome = "ok" => r = "mcp"
         /\ ended' = Append(ended, outcome)
    /\ roles' = roles \ {r}
    /\ UNCHANGED <<rows, exit, errors, cursor, turn, indexerVars, pollerVars, jobVars, loopVars>>

\* join_next returns.
Joined == ended # <<>>

wait_for_shutdown ==
    /\ exit = "running" /\ Joined
    /\ exit' = Head(ended)
    /\ roles' = {}
    /\ UNCHANGED <<rows, ended, errors, cursor, turn, indexerVars, pollerVars, jobVars, loopVars>>

RoleSets == {parse_csv(csv) : csv \in Csvs}
NoTurns == [r \in Loops |-> {}]

RolesInit ==
    /\ rows = <<FirstSpace>> /\ due = {} /\ errors = 0
    /\ roles \in RoleSets /\ ended = <<>> /\ exit = "starting"
    /\ cursor = [r \in Loops |-> 0] /\ turn = NoTurns
    /\ profiled = {}
    /\ pollers = {} /\ recent = <<>> /\ audited = {}
    /\ loop = "turn" /\ scanning = <<>> /\ found = FALSE /\ missed = {} /\ permit = FALSE
    /\ uploads = {} /\ woken = {}

\* A new process: the files outlive the old one.
RolesRestart ==
    /\ exit \in {"ok", "failed"}
    /\ roles' \in RoleSets /\ ended' = <<>> /\ exit' = "starting"
    /\ cursor' = [r \in Loops |-> 0] /\ turn' = NoTurns
    /\ profiled' = {}
    /\ pollers' = {} /\ recent' = <<>> /\ audited' = {}
    /\ loop' = "turn" /\ scanning' = <<>> /\ found' = FALSE /\ missed' = {} /\ permit' = FALSE
    /\ uploads' = {} /\ woken' = {}
    /\ UNCHANGED <<rows, due, errors>>

ExtractorStep ==
    \/ \E w \in Spaces : run_extractor_workspace_turn(w)
    \/ ScanBegins \/ ScanOne \/ ScanEnds \/ Notified

RolesNext ==
    \/ \E w \in Spaces :
         \/ Register(w) \/ run_indexer_workspace_turn(w) \/ audit_existing(w) \/ poll(w)
         \/ FallsDue(w) \/ UploadCommits(w) \/ wake(w)
    \/ ExtractorStep \/ TimerFires
    \/ start \/ wait_for_shutdown \/ RolesRestart
    \/ \E r \in RuntimeRoles : RoleEnds(r)

\* The loops run on their own tasks and are never disabled for long; nothing is
\* assumed of the timer.
RolesFairness ==
    /\ WF_roleVars(\E w \in Spaces : run_indexer_workspace_turn(w))
    /\ WF_roleVars(\E w \in Spaces : poll(w))
    /\ WF_roleVars(ExtractorStep)
    /\ WF_roleVars(wait_for_shutdown)

-----------------------------------------------------------------------------
(* Properties *)

\* Every registered workspace gets its turn in every loop, again and again: those
\* registered in the middle of a cycle and those behind a workspace whose turns
\* fail (next_path).  The extractor needs its timer for that.
EveryWorkspaceServed ==
    WF_roleVars(TimerFires) =>
        \A r \in Loops, w \in Spaces :
            (Runs(r) /\ w \in ToSet(rows)) ~> (~Runs(r) \/ turn[r] = {w})

\* An upload that called wake gets its turn without any timer, wherever the loop
\* stood, unless a scan fails to read the workspace (extractor_role_loop).
WakesHeard ==
    \A w \in Spaces :
        (Runs("extractor") /\ w \in woken) ~> (~Runs("extractor") \/ w \notin woken \/ w \in missed)

=============================================================================
