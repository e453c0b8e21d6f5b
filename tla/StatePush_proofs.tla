-------------------------- MODULE StatePush_proofs --------------------------
(***************************************************************************)
(* StatePush is well typed and implements the safety part of EventLog for  *)
(* its calls and for its roaming events, for any sites, buffer lengths and *)
(* numbers of pushes under way.  That entries are delivered in the end     *)
(* depends on fairness and is left to TLC.                                 *)
(***************************************************************************)
EXTENDS StatePush, TLAPS

(* Whatever is on its way was made before: nothing is recorded that nobody *)
(* logged.  It relates the snapshot, the posts and the database to the     *)
(* worker's counters, which is what a step of Record asks for.             *)
OnlyMade ==
    /\ worker.calls \subseteq 1..made.calls /\ worker.events \subseteq 1..made.events
    /\ snapshot.calls \subseteq 1..made.calls
    /\ \A post \in posts : /\ post.calls \subseteq 1..made.calls
                           /\ post.events \subseteq 1..made.events

IInv == TypeOK /\ OnlyMade

-----------------------------------------------------------------------------

(* The buffers keep nothing but what was in them and the new entry. *)
LEMMA NewestCalls ==
    ASSUME NEW S, NEW n
    PROVE  Calls!Newest(S, n) \subseteq S
  BY DEF Calls!Newest

(* The same of the buffer of events. *)
LEMMA NewestEvents ==
    ASSUME NEW S, NEW n
    PROVE  Events!Newest(S, n) \subseteq S
  BY DEF Events!Newest

(* The program starts with empty buffers. *)
LEMMA StartsMade == Init => IInv
  BY PushAssumption
     DEF Init, IInv, TypeOK, OnlyMade, Started, Unread, CallIds, EventIds, Post

(* What a push stores: events always, calls when the interval is over. *)
LEMMA Stored ==
    ASSUME TypeOK, NEW post \in Post
    PROVE  PersistState(post) =
             [primary |-> IF due THEN post.site ELSE db.primary,
              calls   |-> IF due THEN db.calls \cup ({post.site} \X post.calls) ELSE db.calls,
              events  |-> db.events \cup post.events]
  <1>1. db = [primary |-> db.primary, calls |-> db.calls, events |-> db.events]
    BY DEF TypeOK
  <1>2. WriteBack(post) = [primary |-> post.site, calls |-> db.calls, events |-> db.events]
    BY DEF WriteBack, TypeOK
  <1>3. StoreCalls(WriteBack(post), post) =
          [primary |-> post.site, calls |-> db.calls \cup ({post.site} \X post.calls),
           events |-> db.events]
    BY <1>2 DEF StoreCalls
  <1>4. CASE due
    <2>1. PersistState(post) =
            StoreEvents([primary |-> post.site,
                         calls |-> db.calls \cup ({post.site} \X post.calls),
                         events |-> db.events], post)
      BY <1>3, <1>4 DEF PersistState
    <2>2. QED
      BY <1>4, <2>1 DEF StoreEvents
  <1>5. CASE ~ due
    <2>1. PersistState(post) =
            StoreEvents([primary |-> db.primary, calls |-> db.calls, events |-> db.events], post)
      BY <1>1, <1>5 DEF PersistState
    <2>2. QED
      BY <1>5, <2>1 DEF StoreEvents
  <1>6. QED
    BY <1>4, <1>5

(* Every step keeps the types and books only what was made. *)
LEMMA StepMade == IInv /\ [Next]_vars => IInv'
  <1> SUFFICES ASSUME IInv, [Next]_vars
               PROVE  IInv'
    OBVIOUS
  <1> USE PushAssumption DEF IInv
  <1>1. CASE LogCall
    <2>1. made'.calls = made.calls + 1 /\ made'.events = made.events /\ made'.calls \in CallIds
          /\ made' \in [calls : 0..CallBound, events : 0..EventBound]
      BY <1>1 DEF LogCall, TypeOK, CallIds
    <2>2. Calls!Newest(worker.calls \cup {made'.calls}, CallLogMaxLen)
            \subseteq worker.calls \cup {made'.calls}
      BY NewestCalls
    <2>3. /\ worker'.up = worker.up /\ worker'.site = worker.site
          /\ worker'.events = worker.events
          /\ worker'.calls \subseteq worker.calls \cup {made'.calls}
          /\ worker' \in [up : BOOLEAN, site : Sites, calls : SUBSET CallIds, events : SUBSET EventIds]
      BY <1>1, <2>1, <2>2 DEF LogCall, TypeOK
    <2>4. 1..made.calls \subseteq 1..made'.calls /\ made'.calls \in 1..made'.calls
      BY <2>1 DEF TypeOK
    <2>5. heardAt' \in [CallIds -> Sites]
      BY <1>1, <2>1 DEF LogCall, TypeOK
    <2>6. TypeOK'
      BY <1>1, <2>1, <2>3, <2>5 DEF LogCall, TypeOK, CallIds, EventIds, Post
    <2>7. OnlyMade'
      BY <1>1, <2>1, <2>3, <2>4 DEF LogCall, OnlyMade
    <2>8. QED
      BY <2>6, <2>7
  <1>2. CASE LogRoamEvent
    <2>1. made'.events = made.events + 1 /\ made'.calls = made.calls /\ made'.events \in EventIds
          /\ made' \in [calls : 0..CallBound, events : 0..EventBound]
      BY <1>2 DEF LogRoamEvent, TypeOK, EventIds
    <2>2. Events!Newest(worker.events \cup {made'.events}, RoamEventsMaxLen)
            \subseteq worker.events \cup {made'.events}
      BY NewestEvents
    <2>3. /\ worker'.calls = worker.calls
          /\ worker'.events \subseteq worker.events \cup {made'.events}
          /\ worker' \in [up : BOOLEAN, site : Sites, calls : SUBSET CallIds, events : SUBSET EventIds]
      BY <1>2, <2>1, <2>2 DEF LogRoamEvent, TypeOK
    <2>4. 1..made.events \subseteq 1..made'.events /\ made'.events \in 1..made'.events
      BY <2>1 DEF TypeOK
    <2>5. TypeOK'
      BY <1>2, <2>1, <2>3 DEF LogRoamEvent, TypeOK, CallIds, EventIds, Post
    <2>6. OnlyMade'
      BY <1>2, <2>1, <2>3, <2>4 DEF LogRoamEvent, OnlyMade
    <2>7. QED
      BY <2>5, <2>6
  <1>3. CASE ReadCalls
    BY <1>3 DEF ReadCalls, TypeOK, OnlyMade, CallIds, EventIds, Post
  <1>4. CASE Push
    <2> DEFINE post == [site |-> worker.site, calls |-> snapshot.calls, events |-> worker.events]
    <2>1. post \in Post /\ post.calls \subseteq 1..made.calls /\ post.events \subseteq 1..made.events
      BY DEF TypeOK, OnlyMade, Post
    <2>2. posts' = posts \cup {post}
      BY <1>4 DEF Push
    <2> HIDE DEF post
    <2>3. TypeOK'
      BY <1>4, <2>1, <2>2 DEF Push, TypeOK, Unread, CallIds, EventIds, Post
    <2>4. OnlyMade'
      BY <1>4, <2>1, <2>2 DEF Push, OnlyMade, Unread
    <2>5. QED
      BY <2>3, <2>4
  <1>5. ASSUME NEW site \in Sites, Retarget(site)
        PROVE  IInv'
    BY <1>5 DEF Retarget, TypeOK, OnlyMade, CallIds, EventIds, Post
  <1>6. ASSUME NEW site \in Sites, ActivateSite(site)
        PROVE  IInv'
    BY <1>6 DEF ActivateSite, TypeOK, OnlyMade, CallIds, EventIds, Post
  <1>7. ASSUME NEW post \in posts, Ingest(post)
        PROVE  IInv'
    <2>1. post \in Post
      BY DEF TypeOK
    <2>2. db' \in [primary : Sites, calls : SUBSET (Sites \X CallIds), events : SUBSET EventIds]
      <3>1. /\ post.site \in Sites /\ post.calls \subseteq CallIds /\ post.events \subseteq EventIds
            /\ db.primary \in Sites /\ db.calls \subseteq Sites \X CallIds
            /\ db.events \subseteq EventIds
        BY <2>1 DEF Post, TypeOK
      <3>2. {post.site} \X post.calls \subseteq Sites \X CallIds
        BY <3>1
      <3>3. db' = PersistState(post)
        BY <1>7 DEF Ingest
      <3>4. QED
        BY <2>1, <3>1, <3>2, <3>3, Stored
    <2>3. QED
      BY <1>7, <2>2 DEF Ingest, TypeOK, OnlyMade, CallIds, EventIds, Post
  <1>8. ASSUME NEW post \in posts, PersistFails(post) \/ Lose(post)
        PROVE  IInv'
    BY <1>8 DEF PersistFails, Lose, TypeOK, OnlyMade, CallIds, EventIds, Post
  <1>9. CASE IntervalElapses \/ ServerRestarts
    BY <1>9 DEF IntervalElapses, ServerRestarts, TypeOK, OnlyMade, CallIds, EventIds, Post
  <1>10. CASE WorkerStops
    BY <1>10 DEF WorkerStops, Gone, Unread, TypeOK, OnlyMade, CallIds, EventIds, Post
  <1>11. CASE WorkerStarts
    BY <1>11 DEF WorkerStarts, Started, TypeOK, OnlyMade, CallIds, EventIds, Post
  <1>12. CASE UNCHANGED vars
    BY <1>12 DEF vars, TypeOK, OnlyMade, CallIds, EventIds, Post
  <1>13. QED
    BY <1>1, <1>2, <1>3, <1>4, <1>5, <1>6, <1>7, <1>8, <1>9, <1>10, <1>11, <1>12 DEF Next

(* Types hold, and nothing is on its way that was not made, in every       *)
(* reachable state.                                                        *)
THEOREM Invariance == Spec => []IInv
  <1>1. Init => IInv
    BY StartsMade
  <1>2. IInv /\ [Next]_vars => IInv'
    BY StepMade
  <1>3. QED
    BY <1>1, <1>2, PTL DEF Spec

(* Every reachable state of the pushes and the database is well typed: a   *)
(* row of the call history is a site and a call, in this order.            *)
THEOREM TypeCorrect == Spec => []TypeOK
  <1>1. IInv => TypeOK
    BY DEF IInv
  <1>2. QED
    BY <1>1, Invariance, PTL

-----------------------------------------------------------------------------
(* Refinement.                                                             *)

(* A step of the worker, of a push, of the server or of a restart does to  *)
(* the log of events what EventLog allows, or nothing.                     *)
LEMMA EventStep == IInv /\ [Next]_vars => [Events!Next]_(Events!vars)
  <1> SUFFICES ASSUME IInv, [Next]_vars
               PROVE  [Events!Next]_(Events!vars)
    OBVIOUS
  <1> USE PushAssumption DEF IInv
  <1>1. CASE LogRoamEvent
    <2>1. made'.events = made.events + 1 /\ worker'.up = worker.up /\ worker'.events =
            Events!Newest(worker.events \cup {made'.events}, RoamEventsMaxLen)
      BY <1>1 DEF LogRoamEvent, TypeOK
    <2>2. Events!Log
      BY <1>1, <2>1 DEF LogRoamEvent, Events!Log
    <2>3. QED
      BY <2>2 DEF Events!Next
  <1>2. ASSUME NEW post \in posts, Ingest(post)
        PROVE  Events!Record
    <2>1. post.events \in SUBSET (1..made.events) /\ post \in Post
      BY DEF OnlyMade, TypeOK
    <2>2. db'.events = db.events \cup post.events
      BY <1>2, <2>1, Stored DEF Ingest
    <2>3. QED
      BY <1>2, <2>1, <2>2 DEF Ingest, Events!Record
  <1>3. CASE WorkerStops
    <2>1. worker'.up = ~ worker.up /\ worker'.events = {} /\ made' = made /\ db' = db
      BY <1>3 DEF WorkerStops, Gone, TypeOK
    <2>2. QED
      BY <2>1 DEF Events!Restart, Events!Next
  <1>4. CASE WorkerStarts
    <2>1. worker'.up = ~ worker.up /\ worker'.events = {} /\ made' = made /\ db' = db
      BY <1>4 DEF WorkerStarts, Started
    <2>2. QED
      BY <2>1 DEF Events!Restart, Events!Next
  <1>5. CASE LogCall
    <2>1. worker'.events = worker.events /\ worker'.up = worker.up /\ made'.events = made.events /\ db' = db
      BY <1>5 DEF LogCall, TypeOK
    <2>2. QED
      BY <2>1 DEF Events!vars
  <1>6. ASSUME NEW site \in Sites, Retarget(site) \/ ActivateSite(site)
        PROVE  UNCHANGED Events!vars
    <2>1. worker'.events = worker.events /\ worker'.up = worker.up /\ made' = made /\ db'.events = db.events
      BY <1>6 DEF Retarget, ActivateSite, TypeOK
    <2>2. QED
      BY <2>1 DEF Events!vars
  <1>7. CASE ReadCalls \/ Push \/ IntervalElapses \/ ServerRestarts \/ UNCHANGED vars
    BY <1>7 DEF ReadCalls, Push, IntervalElapses, ServerRestarts, vars, Events!vars
  <1>8. ASSUME NEW post \in posts, PersistFails(post) \/ Lose(post)
        PROVE  UNCHANGED Events!vars
    BY <1>8 DEF PersistFails, Lose, Events!vars
  <1>9. QED
    BY <1>1, <1>2, <1>3, <1>4, <1>5, <1>6, <1>7, <1>8 DEF Next, Events!Next

(* The same for the log of calls. *)
LEMMA CallStep == IInv /\ [Next]_vars => [Calls!Next]_(Calls!vars)
  <1> SUFFICES ASSUME IInv, [Next]_vars
               PROVE  [Calls!Next]_(Calls!vars)
    OBVIOUS
  <1> USE PushAssumption DEF IInv
  <1>1. CASE LogCall
    <2>1. made'.calls = made.calls + 1 /\ worker'.up = worker.up /\ db' = db /\ worker'.calls =
            Calls!Newest(worker.calls \cup {made'.calls}, CallLogMaxLen)
      BY <1>1 DEF LogCall, TypeOK
    <2>2. Calls!Log
      BY <1>1, <2>1 DEF LogCall, Calls!Log
    <2>3. QED
      BY <2>2 DEF Calls!Next
  <1>2. ASSUME NEW post \in posts, Ingest(post)
        PROVE  Calls!Record \/ UNCHANGED Calls!vars
    <2>1. post.calls \in SUBSET (1..made.calls) /\ post \in Post
      BY DEF OnlyMade, TypeOK
    <2>2. CASE due
      <3>1. db'.calls = db.calls \cup ({post.site} \X post.calls)
        BY <1>2, <2>1, <2>2, Stored DEF Ingest
      <3>2. {row[2] : row \in {post.site} \X post.calls} = post.calls
        <4>1. ASSUME NEW call \in post.calls
              PROVE  call \in {row[2] : row \in {post.site} \X post.calls}
          <5>1. <<post.site, call>> \in {post.site} \X post.calls /\ <<post.site, call>>[2] = call
            OBVIOUS
          <5>2. QED
            BY <5>1
        <4>2. \A row \in {post.site} \X post.calls : row[2] \in post.calls
          OBVIOUS
        <4>3. QED
          BY <4>1, <4>2
      <3>3. {row[2] : row \in db'.calls} = {row[2] : row \in db.calls} \cup post.calls
        <4> DEFINE new == {post.site} \X post.calls
        <4>1. db'.calls = db.calls \cup new
          BY <3>1
        <4>2. {row[2] : row \in new} = post.calls
          BY <3>2
        <4> HIDE DEF new
        <4>3. {row[2] : row \in db.calls \cup new} =
                {row[2] : row \in db.calls} \cup {row[2] : row \in new}
          OBVIOUS
        <4>4. QED
          BY <4>1, <4>2, <4>3
      <3>4. QED
        BY <1>2, <2>1, <3>3 DEF Ingest, Calls!Record
    <2>3. CASE ~ due
      <3>1. db'.calls = db.calls
        BY <1>2, <2>1, <2>3, Stored DEF Ingest
      <3>2. QED
        BY <1>2, <3>1 DEF Ingest, Calls!vars
    <2>4. QED
      BY <2>2, <2>3
  <1>3. CASE WorkerStops
    <2>1. worker'.up = ~ worker.up /\ worker'.calls = {} /\ made' = made /\ db' = db
      BY <1>3 DEF WorkerStops, Gone, TypeOK
    <2>2. QED
      BY <2>1 DEF Calls!Restart, Calls!Next
  <1>4. CASE WorkerStarts
    <2>1. worker'.up = ~ worker.up /\ worker'.calls = {} /\ made' = made /\ db' = db
      BY <1>4 DEF WorkerStarts, Started
    <2>2. QED
      BY <2>1 DEF Calls!Restart, Calls!Next
  <1>5. CASE LogRoamEvent
    <2>1. worker'.calls = worker.calls /\ worker'.up = worker.up /\ made'.calls = made.calls /\ db' = db
      BY <1>5 DEF LogRoamEvent, TypeOK
    <2>2. QED
      BY <2>1 DEF Calls!vars
  <1>6. ASSUME NEW site \in Sites, Retarget(site) \/ ActivateSite(site)
        PROVE  UNCHANGED Calls!vars
    <2>1. worker'.calls = worker.calls /\ worker'.up = worker.up /\ made' = made /\ db'.calls = db.calls
      BY <1>6 DEF Retarget, ActivateSite, TypeOK
    <2>2. QED
      BY <2>1 DEF Calls!vars
  <1>7. CASE ReadCalls \/ Push \/ IntervalElapses \/ ServerRestarts \/ UNCHANGED vars
    BY <1>7 DEF ReadCalls, Push, IntervalElapses, ServerRestarts, vars, Calls!vars
  <1>8. ASSUME NEW post \in posts, PersistFails(post) \/ Lose(post)
        PROVE  UNCHANGED Calls!vars
    BY <1>8 DEF PersistFails, Lose, Calls!vars
  <1>9. QED
    BY <1>1, <1>2, <1>3, <1>4, <1>5, <1>6, <1>7, <1>8 DEF Next, Calls!Next

(* Roaming events: nothing but age or a restart takes an event out of the  *)
(* buffer, and the database only grows, by events that were logged.        *)
THEOREM EventsImplemented == Spec => Events!SafeSpec
  <1>1. Init => Events!Init
    BY DEF Init, Started, Events!Init
  <1>2. QED
    BY <1>1, Invariance, EventStep, PTL DEF Spec, Events!SafeSpec

(* The same of calls, although they are stored only now and then, and      *)
(* possibly more than once, under several sites.                           *)
THEOREM CallsImplemented == Spec => Calls!SafeSpec
  <1>1. Init => Calls!Init
    BY DEF Init, Started, Calls!Init
  <1>2. QED
    BY <1>1, Invariance, CallStep, PTL DEF Spec, Calls!SafeSpec
=============================================================================
