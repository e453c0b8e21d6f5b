----------------------------- MODULE StatePush ------------------------------
(***************************************************************************)
(* What becomes of the worker's calls, roaming events and current site:    *)
(* once a second a snapshot is sent to the server, which writes it to the  *)
(* database that a restarted worker starts from.                           *)
(*                                                                         *)
(*   worker.up      the process runs                                       *)
(*   worker.site    the site the primary receiver is bound to              *)
(*   worker.calls, worker.events   call_log, pending_roam_events           *)
(*   snapshot       the call log read for an "update" that is not finished *)
(*   posts          pushes on their way: the worker gives one up after two *)
(*                  seconds, a server thread may still be working on it    *)
(*   db.primary     channels.trunking_system_id of the primary             *)
(*   db.calls       call_history, its rows are (site, call)                *)
(*   db.events      roam_events                                            *)
(*   due            HISTORY_POLL_INTERVAL has passed since a push was to   *)
(*                  be stored in full                                      *)
(*   made, heardAt  history: how many entries were made, where each call   *)
(*                  was heard                                              *)
(*                                                                         *)
(* Calls and events are numbered in the order they are made; a number      *)
(* stands for the columns of the table's UNIQUE index other than the site. *)
(***************************************************************************)
EXTENDS Naturals, FiniteSets

CONSTANTS
    Sites,
    Home,                        \* the site of the first start
    CallLogMaxLen,               \* CALL_LOG_MAX_LEN
    RoamEventsMaxLen,            \* ROAM_EVENTS_MAX_LEN
    CallBound, EventBound,       \* entries ever made
    PostBound                    \* pushes under way at a time

ASSUME PushAssumption ==
    /\ Home \in Sites
    /\ CallLogMaxLen \in Nat \ {0} /\ RoamEventsMaxLen \in Nat \ {0}
    /\ CallBound \in Nat /\ EventBound \in Nat
    /\ PostBound \in Nat \ {0}

VARIABLES worker, snapshot, posts, db, due, made, heardAt

vars == <<worker, snapshot, posts, db, due, made, heardAt>>

Calls  == INSTANCE EventLog WITH
            Capacity <- CallLogMaxLen, Bound <- CallBound,
            running <- worker.up, logged <- made.calls, waiting <- worker.calls,
            recorded <- {row[2] : row \in db.calls}

Events == INSTANCE EventLog WITH
            Capacity <- RoamEventsMaxLen, Bound <- EventBound,
            running <- worker.up, logged <- made.events, waiting <- worker.events,
            recorded <- db.events

Unread == [read |-> FALSE, calls |-> {}]

Started(site) == [up |-> TRUE, site |-> site, calls |-> {}, events |-> {}]

Init ==
    /\ worker = Started(Home)
    /\ snapshot = Unread
    /\ posts = {}
    /\ db = [primary |-> Home, calls |-> {}, events |-> {}]
    /\ due = TRUE
    /\ made = [calls |-> 0, events |-> 0]
    /\ heardAt = [call \in 1..CallBound |-> Home]

-----------------------------------------------------------------------------
(* The worker.                                                             *)

LogCall ==
    /\ worker.up /\ made.calls < CallBound
    /\ made' = [made EXCEPT !.calls = @ + 1]
    /\ worker' = [worker EXCEPT !.calls = Calls!Newest(@ \cup {made'.calls}, CallLogMaxLen)]
    /\ heardAt' = [heardAt EXCEPT ![made'.calls] = worker.site]
    /\ UNCHANGED <<snapshot, posts, db, due>>

(* The coordinator binds the primary to another site, and reports on what  *)
(* it does; the thread that builds an update runs between the two.         *)
Retarget(site) ==
    /\ worker.up /\ site # worker.site
    /\ worker' = [worker EXCEPT !.site = site]
    /\ UNCHANGED <<snapshot, posts, db, due, made, heardAt>>

LogRoamEvent ==
    /\ worker.up /\ made.events < EventBound
    /\ made' = [made EXCEPT !.events = @ + 1]
    /\ worker' = [worker EXCEPT !.events = Events!Newest(@ \cup {made'.events}, RoamEventsMaxLen)]
    /\ UNCHANGED <<snapshot, posts, db, due, heardAt>>

(* An "update" reads the call log first ... *)
ReadCalls ==
    /\ worker.up /\ ~ snapshot.read
    /\ snapshot' = [read |-> TRUE, calls |-> worker.calls]
    /\ UNCHANGED <<worker, posts, db, due, made, heardAt>>

PushDrains ==                                                  \* mutant
    /\ snapshot.read /\ Cardinality(posts) < PostBound
    /\ posts' = posts \cup {[site |-> worker.site, calls |-> snapshot.calls,
                             events |-> worker.events]}
    /\ snapshot' = Unread
    /\ worker' = [worker EXCEPT !.events = {}]
    /\ UNCHANGED <<db, due, made, heardAt>>

(* ... then the primary's site and the events, and state_pusher posts it. *)
Push ==
    /\ snapshot.read /\ Cardinality(posts) < PostBound
    /\ posts' = posts \cup {[site |-> worker.site, calls |-> snapshot.calls,
                             events |-> worker.events]}
    /\ snapshot' = Unread
    /\ UNCHANGED <<worker, db, due, made, heardAt>>

-----------------------------------------------------------------------------
(* The server.                                                             *)

WriteBackUnset(post) == [db EXCEPT !.primary = @]              \* mutant

(* The primary channel's site follows the one reported. *)
WriteBack(post) == [db EXCEPT !.primary = post.site]

StoreCallsSwapped(d, post) ==                                  \* mutant
    [d EXCEPT !.calls = @ \cup (post.calls \X {d.primary})]

(* Every call of the log is booked on the site just written back. *)
StoreCalls(d, post) == [d EXCEPT !.calls = @ \cup ({d.primary} \X post.calls)]

(* Events are stored with every push. *)
StoreEvents(d, post) == [d EXCEPT !.events = @ \cup post.events]

PersistStateThrottlesLast(post) ==                             \* mutant
    StoreEvents(IF due THEN WriteBack(post) ELSE StoreCalls(db, post), post)

PersistState(post) ==
    StoreEvents(IF due THEN StoreCalls(WriteBack(post), post) ELSE db, post)

Ingest(post) ==
    /\ post \in posts
    /\ posts' = posts \ {post}
    /\ db' = PersistState(post)
    /\ due' = FALSE
    /\ UNCHANGED <<worker, snapshot, made, heardAt>>

(* The transaction fails and is rolled back, the interval is used up. *)
PersistFails(post) ==
    /\ post \in posts
    /\ posts' = posts \ {post}
    /\ due' = FALSE
    /\ UNCHANGED <<worker, snapshot, db, made, heardAt>>

(* The server is not reachable, or the update timed out in the worker. *)
Lose(post) ==
    /\ post \in posts
    /\ posts' = posts \ {post}
    /\ UNCHANGED <<worker, snapshot, db, due, made, heardAt>>

IntervalElapses ==
    /\ ~ due
    /\ due' = TRUE
    /\ UNCHANGED <<worker, snapshot, posts, db, made, heardAt>>

(* activate_site(): the row is committed; only then is the worker stopped  *)
(* and started again, and until then its pushes go on.                     *)
ActivateSite(site) ==
    /\ site # db.primary
    /\ db' = [db EXCEPT !.primary = site]
    /\ UNCHANGED <<worker, snapshot, posts, due, made, heardAt>>

-----------------------------------------------------------------------------
(* Processes.                                                              *)

Gone == [worker EXCEPT !.up = FALSE, !.calls = {}, !.events = {}]

(* The worker crashes, or restart_op25() stops it. *)
WorkerStops ==
    /\ worker.up
    /\ worker' = Gone
    /\ snapshot' = Unread
    /\ UNCHANGED <<posts, db, due, made, heardAt>>

WorkerStarts ==
    /\ ~ worker.up
    /\ worker' = Started(db.primary)
    /\ UNCHANGED <<snapshot, posts, db, due, made, heardAt>>

ServerRestarts ==
    /\ posts' = {}
    /\ due' = TRUE
    /\ UNCHANGED <<worker, snapshot, db, made, heardAt>>

Next ==
    \/ LogCall \/ LogRoamEvent \/ ReadCalls \/ Push
    \/ \E site \in Sites : Retarget(site) \/ ActivateSite(site)
    \/ \E post \in posts : Ingest(post) \/ PersistFails(post) \/ Lose(post)
    \/ IntervalElapses
    \/ WorkerStops \/ WorkerStarts \/ ServerRestarts

Spec == Init /\ [][Next]_vars

(* state_pusher never gives up, time goes on, and not every push is lost.  *)
Fairness ==
    /\ WF_vars(ReadCalls) /\ WF_vars(Push) /\ WF_vars(IntervalElapses)
    /\ SF_vars(due /\ \E post \in posts : Ingest(post))

FairSpec == Spec /\ Fairness

-----------------------------------------------------------------------------
(* Properties.                                                             *)

CallIds  == 1..CallBound
EventIds == 1..EventBound

Post == [site : Sites, calls : SUBSET CallIds, events : SUBSET EventIds]

TypeOK ==
    /\ worker \in [up : BOOLEAN, site : Sites, calls : SUBSET CallIds, events : SUBSET EventIds]
    /\ snapshot \in [read : BOOLEAN, calls : SUBSET CallIds]
    /\ posts \in SUBSET Post
    /\ db \in [primary : Sites, calls : SUBSET (Sites \X CallIds), events : SUBSET EventIds]
    /\ due \in BOOLEAN
    /\ made \in [calls : 0..CallBound, events : 0..EventBound]
    /\ heardAt \in [CallIds -> Sites]

(* Roaming events: whatever is lost, late, repeated or restarted on the    *)
(* way, an event stays in the buffer until it ages out, and is recorded if *)
(* it stays there; nothing recorded is forgotten or invented.              *)
EventsKept == Events!Spec

(* The same of calls, which are stored only when the interval is over. *)
CallsKept == Calls!Spec

(* A restart resumes near where the receiver ended up: as long as it stays *)
(* on a site, that site gets recorded, whatever old push arrives late.     *)
SiteWrittenBack ==
    \A site \in Sites :
        worker.up /\ worker.site = site
            ~> db.primary = site \/ worker.site # site \/ ~ worker.up

-----------------------------------------------------------------------------
(* What a comment of the code promises and the code does not do.           *)

(* A call is attributed to the site where it was heard, as every call of a *)
(* batch can only have come from the primary's current site.               *)
CallsAttributed == \A row \in db.calls : row[1] = heardAt[row[2]]
=============================================================================
