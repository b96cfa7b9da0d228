----------------------------- MODULE ProductViews -----------------------------
(***************************************************************************)
(* The log of views of one product, without the repeats of a viewer.       *)
(*                                                                         *)
(* record_view takes the time first, then waits for the advisory lock of   *)
(* the product and viewer, which it keeps until COMMIT; looks for a view   *)
(* of the last hour; and stores a new one under the time of the INSERT.    *)
(* The report counts views and viewers.                                    *)
(*                                                                         *)
(* Abstractions.  A viewer is a user, or a session of a guest; a caller    *)
(* that names neither always adds a view and is left out.  The lock's key, *)
(* a hash of product and viewer, meets no other.                           *)
(***************************************************************************)
EXTENDS Integers, FiniteSets, FiniteSetsExt

CONSTANTS
  Users, Sessions, \* viewers
  Sources,         \* PRODUCT_VIEW sources: search, direct, ...
  Recorders,       \* calls that may be in flight at the same time
  Hour,            \* the length of the window without repeats
  MaxTime,         \* bound: the clock
  MaxViews         \* bound: views of one viewer

VARIABLES
  clock,      \* timezone.now()
  views,      \* ProductView rows
  viewsCount, \* Product.views_count
  viewLock,   \* the recorder that holds the lock of a viewer
  recording   \* what the recorders are at

viewVars == <<clock, views, viewsCount, viewLock, recording>>

Viewers == Users \cup Sessions
Free == "free"
Idle == [step |-> "idle"]

ViewsOf(who) == {view \in views : view.viewer = who}

-----------------------------------------------------------------------------
\* record_view, up to the lock.
Begin(r, who, source) ==
  /\ recording[r] = Idle
  /\ Cardinality(ViewsOf(who)) < MaxViews
  /\ recording' = [recording EXCEPT ![r] =
                     [step |-> "waiting", viewer |-> who, source |-> source, now |-> clock]]
  /\ UNCHANGED <<clock, views, viewsCount, viewLock>>

At(r, step) == recording[r].step = step

\* Mutant: the lock is not waited for.
NoLock(r) ==
  /\ At(r, "waiting")
  /\ recording' = [recording EXCEPT ![r].step = "locked"]
  /\ UNCHANGED <<clock, views, viewsCount, viewLock>>

\* acquire_dedup_lock: pg_advisory_xact_lock.
AcquireLock(r) ==
  /\ At(r, "waiting")
  /\ viewLock[recording[r].viewer] = Free
  /\ viewLock' = [viewLock EXCEPT ![recording[r].viewer] = r]
  /\ recording' = [recording EXCEPT ![r].step = "locked"]
  /\ UNCHANGED <<clock, views, viewsCount>>

\* A view of the last hour, by the time the call began.
Repeated(r) ==
  \E view \in ViewsOf(recording[r].viewer) : view.at >= recording[r].now - Hour

Look(r) ==
  /\ At(r, "locked") /\ ~Repeated(r)
  /\ recording' = [recording EXCEPT ![r].step = "inserting"]
  /\ UNCHANGED <<clock, views, viewsCount, viewLock>>

Unlocked(r) == [who \in Viewers |-> IF viewLock[who] = r THEN Free ELSE viewLock[who]]

\* The INSERT and its COMMIT; created_at is the time of the INSERT.
Insert(r) ==
  /\ At(r, "inserting")
  /\ views' = views \cup {[viewer |-> recording[r].viewer, source |-> recording[r].source,
                           at |-> clock]}
  /\ viewsCount' = viewsCount + 1
  /\ viewLock' = Unlocked(r)
  /\ recording' = [recording EXCEPT ![r] = Idle]
  /\ UNCHANGED clock

\* A repeat, or a failure.
Leave(r) ==
  /\ recording[r] # Idle
  /\ viewLock' = Unlocked(r)
  /\ recording' = [recording EXCEPT ![r] = Idle]
  /\ UNCHANGED <<clock, views, viewsCount>>

TimePasses ==
  /\ clock < MaxTime /\ clock' = clock + 1
  /\ UNCHANGED <<views, viewsCount, viewLock, recording>>

-----------------------------------------------------------------------------
\* get_product_views, over the views since `start'.
Since(start) == {view \in views : view.at >= start}

UniqueViewers(start) ==
  Cardinality({view.viewer : view \in {w \in Since(start) : w.viewer \in Users}})
    + Cardinality({view.viewer : view \in {w \in Since(start) : w.viewer \in Sessions}})

BySource(start) ==
  [s \in Sources |-> Cardinality({view \in Since(start) : view.source = s})]

-----------------------------------------------------------------------------
Init ==
  /\ clock = 0 /\ views = {} /\ viewsCount = 0
  /\ viewLock = [who \in Viewers |-> Free]
  /\ recording = [r \in Recorders |-> Idle]

Next ==
  \/ \E r \in Recorders :
       \/ \E who \in Viewers, source \in Sources : Begin(r, who, source)
       \/ AcquireLock(r) \/ Look(r) \/ Insert(r) \/ Leave(r)
  \/ TimePasses

Spec == Init /\ [][Next]_viewVars

-----------------------------------------------------------------------------
\* Two views of one viewer are more than an hour apart, however many calls
\* run at once and however long they wait between taking the time and
\* storing the view (record_view); each has been counted on the product, and
\* the report of any period, by source and by viewer, is about these views.
ViewsApart ==
  /\ \A one, other \in views :
       one.viewer = other.viewer /\ one # other
         => one.at - other.at > Hour \/ other.at - one.at > Hour
  /\ viewsCount = Cardinality(views)
  /\ \A start \in 0..clock :
       LET total == MapThenSumSet(LAMBDA s : BySource(start)[s], Sources)
       IN total = Cardinality(Since(start)) /\ UniqueViewers(start) <= total
=============================================================================
